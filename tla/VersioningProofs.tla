-------------------------- MODULE VersioningProofs --------------------------
(***************************************************************************)
(* The versioning() plugin loses nothing but what it prunes, and what a    *)
(* snapshot of the same id replaces: for any keys, limit, ETags, number of *)
(* operations and failures, where operations on a key do not overlap and,  *)
(* if history is limited, moves stamp what they move.                      *)
(*                                                                         *)
(* Snapshots are taken and pruned in different steps. What makes the write *)
(* safe is that no version of its key is of a later time than the object   *)
(* about to be clobbered, so only versions of its own tick, whose slugs    *)
(* sort later, can put its snapshot in excess.                             *)
(***************************************************************************)
EXTENDS Versioning, FiniteSetTheorems, TLAPS

\* Two changes of one key do not overlap, and with a limit moves stamp what they move.
Disciplined == ~Overlap /\ (KeepsTime => \A g \in Settings : g.limit = 0)

Busy(t) == pc[t] # "idle"

\* The snapshot that saves an object, under the setting g.
Snap(g, o) == [time |-> o.time, tag |-> g.slug[o.data], data |-> o.data]

Typed == TypeOK /\ \A t \in Threads : Busy(t) => op[t] \in Op

Separated ==
    \A t, u \in Threads : t # u /\ Busy(t) /\ Busy(u) => Uses(op[t]) \cap Uses(op[u]) = {}

\* The id of a version has the slug of the bytes that it holds.
VersionsTrue == \A k \in Keys : \A s \in versions[k] : s.tag = setting.slug[s.data]

\* No version of a key is of a later time than the object there.
LiveIsNewest ==
    ~KeepsTime =>
        /\ \A k \in Keys : live[k].time <= now /\ \A s \in versions[k] : s.time <= now
        /\ \A k \in Keys : live[k] # None => \A s \in versions[k] : s.time <= live[k].time

\* The versions that stay, of the time of obj, whose slugs sort later than its own;
\* ex are to be deleted.
Ahead(g, ex, obj, vs) ==
    {x \in vs : /\ x.time = obj.time /\ Older(Snap(g, obj), x)
               /\ \A e \in ex : ~SameId(e, x)}

\* They are enough for prune to take the snapshot of obj.
Crowded(g, ex, obj, vs) == g.limit # 0 /\ Cardinality(Ahead(g, ex, obj, vs)) >= g.limit

\* How far an operation has got in saving obj, the object at its key, among vs, the
\* versions of its key; pr is what prune has deleted.
Saving(g, p, head, ex, obj, vs, pr) ==
    /\ p = "save" => obj # None /\ head = obj
    /\ p \in {"prune", "delete"} => g.limit # 0 /\ obj # None
    /\ p = "prune" => Snap(g, obj) \in vs
    /\ p = "delete" => \/ Snap(g, obj) \in vs /\ \A x \in ex : ~SameId(Snap(g, obj), x)
                       \/ Crowded(g, ex, obj, vs)
    /\ p = "write" => obj = None \/ Snap(g, obj) \in vs \/ Crowded(g, {}, obj, vs)
    /\ p \in {"prune", "delete", "write"} /\ obj # None =>
          /\ Snap(g, obj) \in vs \/ obj.data \in pr
          /\ \A x \in vs : SameId(Snap(g, obj), x) => x.data = obj.data

SavingOf(t) ==
    Saving(setting, pc[t], taken[t], excess[t], live[op[t].key], versions[op[t].key], pruned)

SavingAll == \A t \in Threads : Busy(t) => SavingOf(t)

IInv == Typed /\ Separated /\ VersionsTrue /\ LiveIsNewest /\ SavingAll

\* A step of t changes the objects and versions of t's keys only.
Apart(t) ==
    /\ \A u \in Threads \ {t} : /\ pc'[u] = pc[u] /\ op'[u] = op[u]
                                /\ taken'[u] = taken[u] /\ excess'[u] = excess[u]
    /\ \A k \in Keys : k \notin Uses(op[t]) => live'[k] = live[k]
    /\ \A k \in Keys : k # op[t].key => versions'[k] = versions[k]
    /\ pruned \subseteq pruned'

\* How far t has got after a step in which it stays at its key.
SavingThen(t) ==
    Saving(setting, pc'[t], taken'[t], excess'[t], live'[op[t].key],
           versions'[op[t].key], pruned')

LEMMA SettleTyped ==
    ASSUME Typed, NEW t \in Threads, NEW how \in {"none", "done", "failed", "missing"},
           Settle(t, how)
    PROVE  /\ pc' = [pc EXCEPT ![t] = "idle"] /\ op' = [op EXCEPT ![t] = NoOp]
           /\ taken' = [taken EXCEPT ![t] = None] /\ excess' = [excess EXCEPT ![t] = {}]
           /\ pc' \in [Threads ->
                {"idle", "newest", "exists", "head", "save", "prune", "delete", "write"}]
           /\ op' \in [Threads -> Op \cup {NoOp}]
           /\ taken' \in [Threads -> Object \cup {None}]
           /\ excess' \in [Threads -> SUBSET Snapshot]
           /\ outcome' \in [Threads -> {"none", "done", "failed", "missing"}]
           /\ \A u \in Threads : pc'[u] # "idle" => op'[u] \in Op
BY DEF Settle, Goto, Typed, TypeOK, Busy

LEMMA OpFields ==
    ASSUME Typed, NEW t \in Threads, Busy(t)
    PROVE  op[t] \in Op /\ op[t].key \in Keys /\ op[t].from \in Keys
           /\ op[t].id \in Snapshot \cup {NoSnapshot}
BY DEF Typed, Op

LEMMA ObjectFields ==
    ASSUME NEW g \in Settings, NEW o \in Object \cup {None}, o # None
    PROVE  o.time \in 1 .. MaxTime /\ o.data \in Data /\ Snap(g, o) \in Snapshot
BY SettingsAssumption DEF Object, Snap, Snapshot

\* What a snapshot saves, and under which id.
LEMMA SnapFields ==
    ASSUME NEW o
    PROVE  /\ SnapshotOf(o) = Snap(setting, o)
           /\ Snap(setting, o).time = o.time /\ Snap(setting, o).data = o.data
           /\ Snap(setting, o).tag = setting.slug[o.data]
BY DEF SnapshotOf, Snap

LEMMA SettingFields ==
    ASSUME Typed
    PROVE  setting \in Settings /\ setting.limit \in Nat /\ setting.slug \in [Data -> Data]
BY SettingsAssumption DEF Typed, TypeOK

LEMMA InitHolds == Init => IInv
BY BoundsAssumption
   DEF Init, IInv, Typed, TypeOK, Busy, Separated, VersionsTrue, LiveIsNewest, SavingAll, None

\* A step in which t goes on or settles, and which keeps what it must of its own
\* keys, keeps the invariant.
LEMMA Frame ==
    ASSUME IInv, UNCHANGED setting, Typed', NEW t \in Threads, Busy(t), Apart(t),
           VersionsTrue', LiveIsNewest',
           pc'[t] = "idle" \/
               /\ Uses(op'[t]) = Uses(op[t]) /\ op'[t].key = op[t].key
               /\ SavingThen(t)
    PROVE  IInv'
<1>1. Separated'
  BY DEF IInv, Separated, Busy, Apart
<1>2. SavingAll'
  <2> SUFFICES ASSUME NEW u \in Threads, pc'[u] # "idle"
               PROVE  SavingOf(u)'
    BY DEF SavingAll, Busy
  <2>1. CASE u = t
    BY <2>1 DEF SavingOf, SavingThen
  <2>2. CASE u # t
    <3>1. pc'[u] = pc[u] /\ op'[u] = op[u] /\ taken'[u] = taken[u]
          /\ excess'[u] = excess[u] /\ Busy(u)
      BY <2>2 DEF Apart, Busy
    <3>2. op[u].key \in Keys /\ op[u].key \notin Uses(op[t]) /\ op[u].key # op[t].key
      BY <2>2, <3>1, OpFields DEF IInv, Separated, Uses
    <3>3. live'[op[u].key] = live[op[u].key] /\ versions'[op[u].key] = versions[op[u].key]
      BY <3>2 DEF Apart
    <3>4. SavingOf(u) /\ pruned \subseteq pruned'
      BY <3>1 DEF IInv, SavingAll, Apart
    <3>5. QED
      BY <3>1, <3>3, <3>4 DEF SavingOf, Saving
  <2>3. QED
    BY <2>1, <2>2
<1>3. QED
  BY <1>1, <1>2 DEF IInv

\* How an operation begins.
LEMMA Begins ==
    ASSUME Typed, NEW t \in Threads, BeginWrite(t) \/ BeginRestore(t)
    PROVE  \E o \in Op, p \in {"head", "exists", "newest"} :
              Start(t, o) /\ Goto(t, p) /\ (p # "newest" => o.kind # "undo")
<1>1. CASE BeginWrite(t)
  <2>1. PICK kind \in {"upload", "delete", "copy", "move"}, from \in Keys, key \in Keys :
            Start(t, [kind |-> kind, from |-> from, key |-> key, id |-> NoSnapshot])
    BY <1>1 DEF BeginWrite
  <2>2. PICK o : o = [kind |-> kind, from |-> from, key |-> key, id |-> NoSnapshot]
    OBVIOUS
  <2>3. o \in Op /\ o.kind # "undo"
    BY <2>2 DEF Op, Kinds
  <2>4. Start(t, o) /\ Goto(t, "head")
    BY <1>1, <2>1, <2>2 DEF BeginWrite
  <2>5. QED
    BY <2>3, <2>4
<1>2. CASE BeginRestore(t)
  <2>1. PICK key \in Keys :
          \/ /\ \E id \in versions[key] :
                  Start(t, [kind |-> "restore", from |-> key, key |-> key, id |-> id])
             /\ Goto(t, "exists")
          \/ /\ Start(t, [kind |-> "undo", from |-> key, key |-> key, id |-> NoSnapshot])
             /\ Goto(t, "newest")
    BY <1>2 DEF BeginRestore
  <2>2. ASSUME NEW id \in versions[key], Goto(t, "exists"),
               Start(t, [kind |-> "restore", from |-> key, key |-> key, id |-> id])
        PROVE  \E o \in Op : Start(t, o) /\ o.kind # "undo"
    <3>1. [kind |-> "restore", from |-> key, key |-> key, id |-> id] \in Op
      BY DEF Op, Kinds, Typed, TypeOK
    <3>2. QED
      BY <2>2, <3>1
  <2>3. [kind |-> "undo", from |-> key, key |-> key, id |-> NoSnapshot] \in Op
    BY DEF Op, Kinds
  <2>4. QED
    BY <2>1, <2>2, <2>3
<1>3. QED
  BY <1>1, <1>2

LEMMA BeginHolds ==
    ASSUME IInv, UNCHANGED setting, ~Overlap, NEW t \in Threads, NEW o \in Op,
           NEW p \in {"head", "exists", "newest"},
           Start(t, o), Goto(t, p)
    PROVE  IInv'
<1>1. /\ pc' = [pc EXCEPT ![t] = p] /\ op' = [op EXCEPT ![t] = o]
      /\ taken' = taken /\ excess' = excess /\ UNCHANGED bucket
      /\ \A u \in Threads : pc[u] # "idle" => Uses(op[u]) \cap Uses(o) = {}
      /\ outcome' = [outcome EXCEPT ![t] = "none"]
  BY DEF Start, Goto
<1>2. /\ pc'[t] = p /\ op'[t] = o
      /\ \A u \in Threads : u # t => pc'[u] = pc[u] /\ op'[u] = op[u]
  BY <1>1 DEF IInv, Typed, TypeOK
<1>3. TypeOK'
  BY <1>1 DEF IInv, Typed, TypeOK, bucket, history
<1>4. Typed'
  BY <1>2, <1>3 DEF IInv, Typed, Busy
<1>5. Separated'
  BY <1>1, <1>2 DEF IInv, Separated, Busy
<1>6. VersionsTrue' /\ LiveIsNewest'
  BY <1>1 DEF IInv, VersionsTrue, LiveIsNewest, bucket, history
<1>7. SavingAll'
  <2> SUFFICES ASSUME NEW u \in Threads, pc'[u] # "idle"
               PROVE  SavingOf(u)'
    BY DEF SavingAll, Busy
  <2>1. CASE u = t
    BY <1>2, <2>1 DEF SavingOf, Saving
  <2>2. CASE u # t
    <3>1. SavingOf(u)
      BY <1>2, <2>2 DEF IInv, SavingAll, Busy
    <3>2. QED
      BY <1>1, <1>2, <2>2, <3>1 DEF SavingOf, bucket, history
  <2>3. QED
    BY <2>1, <2>2
<1>8. QED
  BY <1>4, <1>5, <1>6, <1>7 DEF IInv

\* A step that settles t and leaves the objects and versions alone.
LEMMA EndHolds ==
    ASSUME IInv, UNCHANGED setting, NEW t \in Threads, Busy(t),
           NEW how \in {"none", "done", "failed", "missing"}, Settle(t, how),
           UNCHANGED <<live, history, uploads, now>>,
           prior' \in [Keys -> Object \cup {None}]
    PROVE  IInv'
<1>1. Typed /\ IInv
  BY DEF IInv
<1>2. Typed'
  BY <1>1, SettleTyped DEF Typed, TypeOK, history, Busy
<1>3. Apart(t) /\ pc'[t] = "idle"
  BY <1>1, SettleTyped DEF Apart, Typed, TypeOK, history
<1>4. VersionsTrue' /\ LiveIsNewest'
  BY DEF IInv, VersionsTrue, LiveIsNewest, history
<1>5. QED
  BY <1>2, <1>3, <1>4, Frame

LEMMA SettleHolds ==
    ASSUME IInv, UNCHANGED setting, NEW t \in Threads, Busy(t),
           NEW how \in {"none", "done", "failed", "missing"}, Settle(t, how), UNCHANGED bucket
    PROVE  IInv'
<1>1. prior' \in [Keys -> Object \cup {None}]
  BY DEF IInv, Typed, TypeOK, bucket
<1>2. QED
  BY <1>1, EndHolds DEF bucket

LEMMA AbandonHolds ==
    ASSUME IInv, UNCHANGED setting, NEW t \in Threads, Busy(t),
           NEW how \in {"none", "done", "failed", "missing"}, Abandon(t, how)
    PROVE  IInv'
<1>1. prior' \in [Keys -> Object \cup {None}]
  BY OpFields DEF Abandon, IInv, Typed, TypeOK
<1>2. QED
  BY <1>1, EndHolds DEF Abandon

LEMMA PickNewestHolds ==
    ASSUME IInv, UNCHANGED setting, NEW t \in Threads, PickNewest(t)
    PROVE  IInv'
<1> DEFINE k == op[t].key
<1>1. Busy(t) /\ Typed /\ pc[t] = "newest" /\ k \in Keys /\ UNCHANGED bucket
  BY OpFields DEF PickNewest, IInv, Busy
<1>2. CASE versions[k] = {}
  BY <1>1, <1>2, SettleHolds DEF PickNewest
<1>3. CASE versions[k] # {}
  <2>1. PICK s \in versions[k] : op' = [op EXCEPT ![t].id = s]
    BY <1>3 DEF PickNewest
  <2>2. /\ pc' = [pc EXCEPT ![t] = "exists"] /\ UNCHANGED <<taken, excess, outcome>>
    BY <1>3 DEF PickNewest, Goto
  <2>3. s \in Snapshot /\ op[t] \in Op
    BY <1>1, OpFields DEF Typed, TypeOK
  <2>4. [op[t] EXCEPT !.id = s] \in Op /\ [op[t] EXCEPT !.id = s].key = op[t].key
        /\ [op[t] EXCEPT !.id = s].from = op[t].from
    BY <2>3 DEF Op
  <2>5. op' = [op EXCEPT ![t] = [op[t] EXCEPT !.id = s]] /\ op'[t] = [op[t] EXCEPT !.id = s]
    BY <2>1, <1>1 DEF Typed, TypeOK
  <2>6. Typed'
    BY <1>1, <2>2, <2>4, <2>5 DEF Typed, TypeOK, bucket, history, Busy
  <2>7. Apart(t)
    BY <1>1, <2>2, <2>5 DEF Apart, Typed, TypeOK, bucket, history
  <2>8. pc'[t] = "exists" /\ Uses(op'[t]) = Uses(op[t]) /\ op'[t].key = op[t].key
    BY <1>1, <2>2, <2>4, <2>5 DEF Typed, TypeOK, Uses
  <2>9. VersionsTrue' /\ LiveIsNewest'
    BY <1>1 DEF IInv, VersionsTrue, LiveIsNewest, bucket, history
  <2>10. SavingThen(t)
    BY <2>8 DEF SavingThen, Saving
  <2>11. QED
    BY <1>1, <2>6, <2>7, <2>8, <2>9, <2>10, Frame
<1>4. QED
  BY <1>2, <1>3

LEMMA CheckExistsHolds ==
    ASSUME IInv, UNCHANGED setting, NEW t \in Threads, CheckExists(t)
    PROVE  IInv'
<1>1. Busy(t) /\ Typed /\ UNCHANGED bucket
  BY DEF CheckExists, IInv, Busy
<1>2. CASE Stored(op[t].key, op[t].id) = {}
  BY <1>1, <1>2, SettleHolds DEF CheckExists
<1>3. CASE Stored(op[t].key, op[t].id) # {}
  <2>1. pc' = [pc EXCEPT ![t] = "head"] /\ UNCHANGED <<op, taken, excess, outcome>>
    BY <1>3 DEF CheckExists, Goto
  <2>2. Typed'
    BY <1>1, <2>1 DEF Typed, TypeOK, bucket, history, Busy
  <2>3. Apart(t) /\ pc'[t] = "head"
    BY <1>1, <2>1 DEF Apart, Typed, TypeOK, bucket, history
  <2>4. VersionsTrue' /\ LiveIsNewest'
    BY <1>1 DEF IInv, VersionsTrue, LiveIsNewest, bucket, history
  <2>5. SavingThen(t)
    BY <2>3 DEF SavingThen, Saving
  <2>6. QED
    BY <1>1, <2>1, <2>2, <2>3, <2>4, <2>5, Frame
<1>4. QED
  BY <1>2, <1>3

LEMMA HeadObjectHolds ==
    ASSUME IInv, UNCHANGED setting, NEW t \in Threads, HeadObject(t)
    PROVE  IInv'
<1> DEFINE k == op[t].key
<1>1. Busy(t) /\ Typed /\ k \in Keys /\ UNCHANGED <<bucket, op, excess, outcome>>
  BY OpFields DEF HeadObject, IInv, Busy
<1>2. CASE live[k] = None
  <2>1. pc' = [pc EXCEPT ![t] = "write"] /\ taken' = taken
    BY <1>2 DEF HeadObject, Goto
  <2>2. Typed'
    BY <1>1, <2>1 DEF Typed, TypeOK, bucket, history, Busy
  <2>3. Apart(t) /\ pc'[t] = "write"
    BY <1>1, <2>1 DEF Apart, Typed, TypeOK, bucket, history
  <2>4. VersionsTrue' /\ LiveIsNewest'
    BY <1>1 DEF IInv, VersionsTrue, LiveIsNewest, bucket, history
  <2>5. SavingThen(t)
    BY <1>1, <1>2, <2>3 DEF SavingThen, Saving, bucket, history
  <2>6. QED
    BY <1>1, <2>1, <2>2, <2>3, <2>4, <2>5, Frame
<1>3. CASE live[k] # None
  <2>1. pc' = [pc EXCEPT ![t] = "save"] /\ taken' = [taken EXCEPT ![t] = live[k]]
    BY <1>3 DEF HeadObject, Goto
  <2>2. Typed'
    BY <1>1, <2>1 DEF Typed, TypeOK, bucket, history, Busy
  <2>3. Apart(t) /\ pc'[t] = "save" /\ taken'[t] = live[k]
    BY <1>1, <2>1 DEF Apart, Typed, TypeOK, bucket, history
  <2>4. VersionsTrue' /\ LiveIsNewest'
    BY <1>1 DEF IInv, VersionsTrue, LiveIsNewest, bucket, history
  <2>5. SavingThen(t)
    BY <1>1, <1>3, <2>3 DEF SavingThen, Saving, bucket, history
  <2>6. QED
    BY <1>1, <2>1, <2>2, <2>3, <2>4, <2>5, Frame
<1>4. QED
  BY <1>2, <1>3

\* What head found is still there, so the copy saves it under its own id ...
LEMMA SaveStores ==
    ASSUME IInv, NEW t \in Threads, Save(t)
    PROVE  /\ live[op[t].key] # None /\ taken[t] = live[op[t].key]
           /\ [SnapshotOf(taken[t]) EXCEPT !.data = live[op[t].key].data]
                = Snap(setting, live[op[t].key])
<1>1. live[op[t].key] # None /\ taken[t] = live[op[t].key]
  BY DEF Save, IInv, SavingAll, SavingOf, Saving, Busy
<1>2. QED
  BY <1>1, SnapFields DEF Snap

\* ... in place of any version of that id.
LEMMA SaveHolds ==
    ASSUME IInv, UNCHANGED setting, NEW t \in Threads, Save(t)
    PROVE  IInv'
<1> DEFINE k == op[t].key
           s == Snap(setting, live[k])
<1>1. Busy(t) /\ Typed /\ k \in Keys /\ UNCHANGED <<live, pruned, uploads, now, prior>>
  BY OpFields DEF Save, IInv, Busy
<1>2. live[k] # None /\ taken[t] = live[k]
  BY SaveStores
<1>3. /\ s \in Snapshot /\ s.time = live[k].time /\ s.data = live[k].data
      /\ s.tag = setting.slug[s.data] /\ setting.limit \in Nat
  BY <1>1, <1>2, ObjectFields, SnapFields, SettingFields DEF Typed, TypeOK
<1>4. /\ versions' = [versions EXCEPT ![k] = (@ \ Stored(k, s)) \cup {s}]
      /\ replaced' = replaced \cup ({x.data : x \in Stored(k, s)} \ {s.data})
      /\ pc' = [pc EXCEPT ![t] = IF setting.limit = 0 THEN "write" ELSE "prune"]
      /\ UNCHANGED <<op, taken, excess, outcome>>
  BY <1>1, <1>2, SaveStores DEF Save, Goto
<1> HIDE DEF s
<1>5. /\ versions'[k] = (versions[k] \ Stored(k, s)) \cup {s}
      /\ \A x \in Keys : x # k => versions'[x] = versions[x]
  BY <1>1, <1>4 DEF Typed, TypeOK
<1>6. Stored(k, s) \in SUBSET versions[k] /\ replaced' \in SUBSET Data
  BY <1>1, <1>4 DEF Stored, Typed, TypeOK, Snapshot
<1>7. Typed'
  BY <1>1, <1>3, <1>4, <1>6 DEF Typed, TypeOK, Busy
<1>8. Apart(t) /\ pc'[t] \in {"write", "prune"} /\ (pc'[t] = "prune" => setting.limit # 0)
  BY <1>1, <1>4, <1>5 DEF Apart, Typed, TypeOK
<1>9. VersionsTrue'
  BY <1>1, <1>3, <1>5 DEF IInv, VersionsTrue
<1>10. LiveIsNewest'
  <2>1. live[k].time \in Int
    BY <1>1 DEF Typed, TypeOK, Object, None
  <2>2. QED
    BY <1>1, <1>3, <1>5, <2>1 DEF IInv, LiveIsNewest
<1>11. SavingThen(t)
  <2>1. s \in versions'[k] /\ \A x \in versions'[k] : SameId(s, x) => x.data = s.data
    BY <1>5 DEF Stored, SameId
  <2>2. QED
    BY <1>1, <1>2, <1>3, <1>8, <2>1 DEF SavingThen, Saving, s
<1>12. QED
  BY <1>1, <1>4, <1>7, <1>8, <1>9, <1>10, <1>11, Frame

\* Version directories are finite: there are only so many ids.
LEMMA SnapshotsFinite == IsFiniteSet(Snapshot)
<1> DEFINE T == 1 .. MaxTime
           P == T \X (Data \X Data)
           f == [x \in P |-> [time |-> x[1], tag |-> x[2][1], data |-> x[2][2]]]
<1>1. IsFiniteSet(T) /\ IsFiniteSet(Data)
  BY FS_Interval, BoundsAssumption DEF Data
<1>2. IsFiniteSet(P)
  BY <1>1, FS_Product
<1>3. f \in [P -> Snapshot]
  BY DEF Snapshot
<1>4. ASSUME NEW s \in Snapshot PROVE \E x \in P : f[x] = s
  <2>1. s.time \in T /\ s.tag \in Data /\ s.data \in Data
        /\ s = [time |-> s.time, tag |-> s.tag, data |-> s.data]
    BY DEF Snapshot
  <2>2. <<s.time, <<s.tag, s.data>>>> \in P
    BY <2>1
  <2>3. f[<<s.time, <<s.tag, s.data>>>>] = s
    BY <2>1, <2>2
  <2>4. QED
    BY <2>2, <2>3
<1> HIDE DEF f, P
<1>5. f \in Surjection(P, Snapshot)
  BY <1>3, <1>4 DEF Surjection
<1>6. QED
  BY <1>2, <1>5, FS_Surjection

\* A set of slugs has a latest one: the intervals above its members have a smallest.
LEMMA LatestSlug ==
    ASSUME NEW T \in SUBSET Data, T # {}
    PROVE  \E n \in T : \A m \in T : m <= n
<1> DEFINE F == {n .. MaxWrites : n \in T}
<1>1. F \subseteq FiniteSubsetsOf(Nat)
  <2> SUFFICES ASSUME NEW n \in T PROVE n .. MaxWrites \in FiniteSubsetsOf(Nat)
    OBVIOUS
  <2>1. n \in Nat /\ MaxWrites \in Nat
    BY BoundsAssumption DEF Data
  <2>2. IsFiniteSet(n .. MaxWrites)
    BY <2>1, FS_Interval
  <2>3. QED
    BY <2>1, <2>2 DEF FiniteSubsetsOf
<1>2. F # {}
  OBVIOUS
<1>3. PICK A \in F : \A B \in F : <<B, A>> \notin StrictSubsetOrdering(Nat)
  <2> HIDE DEF F
  <2>1. IsWellFoundedOn(StrictSubsetOrdering(Nat), FiniteSubsetsOf(Nat))
    BY FS_StrictSubsetOrderingWellFounded
  <2>2. QED
    BY <1>1, <1>2, <2>1, WFMin
<1>4. PICK n \in T : A = n .. MaxWrites
  BY <1>3
<1>5. \A m \in T : m <= n
  <2> SUFFICES ASSUME NEW m \in T, n < m PROVE FALSE
    BY DEF Data
  <2>1. n \in 1 .. MaxWrites /\ m \in 1 .. MaxWrites
    BY DEF Data
  <2>2. /\ m .. MaxWrites \in SUBSET Nat /\ n .. MaxWrites \in SUBSET Nat
        /\ m .. MaxWrites \subseteq n .. MaxWrites
    BY <2>1, BoundsAssumption
  <2>3. n \in n .. MaxWrites /\ n \notin m .. MaxWrites
    BY <2>1, BoundsAssumption
  <2>4. <<m .. MaxWrites, n .. MaxWrites>> \in StrictSubsetOrdering(Nat)
    BY <2>2, <2>3 DEF StrictSubsetOrdering
  <2>5. QED
    BY <1>3, <1>4, <2>4
<1>6. QED
  BY <1>5

\* Only versions of the same time, with later slugs, put the snapshot of the live object
\* in excess, and then as many of them as the limit stay: those newer than the last one
\* in excess.
LEMMA ExcessIsCrowded ==
    ASSUME Typed, NEW k \in Keys, setting.limit # 0, live[k] # None,
           \A x \in versions[k] : x.time <= live[k].time,
           NEW e \in Excess(k), SameId(Snap(setting, live[k]), e)
    PROVE  Crowded(setting, Excess(k), live[k], versions[k])
<1> DEFINE sn == Snap(setting, live[k])
           E == {x \in Excess(k) : x.time = sn.time /\ sn.tag <= x.tag}
           T == {x.tag : x \in E}
<1>1. /\ versions[k] \subseteq Snapshot /\ Excess(k) \subseteq versions[k]
      /\ setting.limit \in Nat
  BY SettingFields DEF Typed, TypeOK, Excess
<1>2. \A x \in versions[k] : x.time \in Int /\ x.tag \in Data /\ x.tag \in Int
  BY <1>1 DEF Snapshot, Data
<1>3. sn.time = live[k].time /\ sn.time \in Int /\ sn.tag \in Int
      /\ e.time = sn.time /\ e.tag = sn.tag
  <2>1. sn.time = live[k].time
    BY DEF Snap
  <2>2. e.time = sn.time /\ e.tag = sn.tag
    BY DEF SameId
  <2>3. QED
    BY <1>1, <1>2, <2>1, <2>2
<1> HIDE DEF sn
<1>4. e \in E
  BY <1>3
<1>5. T \in SUBSET Data /\ T # {}
  BY <1>1, <1>2, <1>4
<1>6. PICK n \in T : \A m \in T : m <= n
  <2> HIDE DEF T
  <2>1. QED
    BY <1>5, LatestSlug
<1>7. PICK x \in E : x.tag = n
  BY <1>6
<1>8. \A y \in E : y.tag <= x.tag
  BY <1>6, <1>7
<1>9. x \in Excess(k) /\ x.time = sn.time /\ sn.tag <= x.tag /\ x \in versions[k]
  BY <1>1, <1>7
<1> DEFINE N == {y \in versions[k] : Older(x, y)}
           A == Ahead(setting, Excess(k), live[k], versions[k])
<1>10. Cardinality(N) >= setting.limit
  BY <1>9 DEF Excess
<1>11. N \subseteq A
  <2> SUFFICES ASSUME NEW y \in versions[k], Older(x, y)
               PROVE  /\ y.time = live[k].time /\ Older(sn, y)
                      /\ \A z \in Excess(k) : ~SameId(z, y)
    BY DEF Ahead, sn
  <2>1. /\ y.time \in Int /\ y.tag \in Int /\ x.time \in Int /\ x.tag \in Int
        /\ y.time <= live[k].time
    BY <1>2, <1>9
  <2>2. y.time = sn.time /\ x.tag < y.tag
    BY <1>3, <1>9, <2>1 DEF Older
  <2>3. Older(sn, y)
    BY <1>3, <1>9, <2>1, <2>2 DEF Older
  <2>4. ASSUME NEW z \in Excess(k), SameId(z, y) PROVE FALSE
    <3>1. z.time = y.time /\ z.tag = y.tag
      BY <2>4 DEF SameId
    <3>2. z \in E
      BY <1>3, <1>9, <2>1, <2>2, <3>1
    <3>3. QED
      BY <1>8, <2>1, <2>2, <3>1, <3>2
  <2>5. QED
    BY <1>3, <2>2, <2>3, <2>4
<1>12. IsFiniteSet(A) /\ IsFiniteSet(N)
  <2>1. A \in SUBSET Snapshot /\ N \in SUBSET Snapshot
    BY <1>1 DEF Ahead
  <2> HIDE DEF A, N
  <2>2. QED
    BY <2>1, SnapshotsFinite, FS_Subset
<1>13. Cardinality(A) >= setting.limit
  <2> HIDE DEF A, N
  <2>1. Cardinality(N) <= Cardinality(A) /\ Cardinality(N) \in Nat /\ Cardinality(A) \in Nat
    BY <1>11, <1>12, FS_Subset, FS_CardinalityType
  <2>2. QED
    BY <1>1, <1>10, <2>1
<1>14. QED
  BY <1>13 DEF Crowded

LEMMA ListVersionsHolds ==
    ASSUME IInv, UNCHANGED setting, Disciplined, NEW t \in Threads, ListVersions(t)
    PROVE  IInv'
<1> DEFINE k == op[t].key
           s == Snap(setting, live[k])
<1>1. Busy(t) /\ Typed /\ k \in Keys /\ UNCHANGED <<bucket, op, taken, outcome>>
  BY OpFields DEF ListVersions, IInv, Busy
<1>2. /\ setting.limit # 0 /\ live[k] # None /\ s \in versions[k]
      /\ \A x \in versions[k] : SameId(s, x) => x.data = live[k].data
  BY <1>1 DEF ListVersions, IInv, SavingAll, SavingOf, Saving
<1>3. ~KeepsTime
  BY <1>1, <1>2, SettingFields DEF Disciplined
<1>4. pc' = [pc EXCEPT ![t] = "delete"] /\ excess' = [excess EXCEPT ![t] = Excess(k)]
  BY DEF ListVersions, Goto
<1>5. \A x \in versions[k] : x.time <= live[k].time
  BY <1>1, <1>2, <1>3 DEF IInv, LiveIsNewest
<1>6. \/ \A x \in Excess(k) : ~SameId(s, x)
      \/ Crowded(setting, Excess(k), live[k], versions[k])
  BY <1>1, <1>2, <1>5, ExcessIsCrowded
<1>7. Excess(k) \in SUBSET Snapshot
  BY <1>1 DEF Excess, Typed, TypeOK
<1>8. Typed'
  BY <1>1, <1>4, <1>7 DEF Typed, TypeOK, bucket, history, Busy
<1>9. Apart(t) /\ pc'[t] = "delete" /\ excess'[t] = Excess(k)
  BY <1>1, <1>4 DEF Apart, Typed, TypeOK, bucket, history
<1>10. VersionsTrue' /\ LiveIsNewest'
  BY <1>1 DEF IInv, VersionsTrue, LiveIsNewest, bucket, history
<1>11. SavingThen(t)
  <2> HIDE DEF s
  <2>1. /\ live'[k] = live[k] /\ versions'[k] = versions[k] /\ pruned' = pruned
        /\ pc'[t] = "delete" /\ excess'[t] = Excess(k)
    BY <1>1, <1>9 DEF bucket, history
  <2>2. QED
    BY <1>2, <1>6, <2>1 DEF SavingThen, Saving, s
<1>12. QED
  BY <1>1, <1>8, <1>9, <1>10, <1>11, Frame

\* Deleting a version in excess leaves those that stay.
LEMMA DeleteVersionHolds ==
    ASSUME IInv, UNCHANGED setting, NEW t \in Threads, DeleteVersion(t)
    PROVE  IInv'
<1> DEFINE k == op[t].key
           s == Snap(setting, live[k])
<1>1. Busy(t) /\ Typed /\ k \in Keys
      /\ UNCHANGED <<live, uploads, now, prior, op, taken, outcome>>
  BY OpFields DEF DeleteVersion, IInv, Busy
<1>2. /\ pc[t] = "delete" /\ setting.limit # 0 /\ live[k] # None
      /\ \/ s \in versions[k] /\ \A x \in excess[t] : ~SameId(s, x)
         \/ Crowded(setting, excess[t], live[k], versions[k])
      /\ s \in versions[k] \/ live[k].data \in pruned
      /\ \A x \in versions[k] : SameId(s, x) => x.data = live[k].data
  <2>1. SavingOf(t) /\ pc[t] = "delete"
    BY <1>1 DEF DeleteVersion, IInv, SavingAll
  <2>2. QED
    BY <2>1 DEF SavingOf, Saving
<1>3. s.data = live[k].data
  BY DEF Snap
<1> HIDE DEF s
<1>4. CASE excess[t] = {} /\ pc' = [pc EXCEPT ![t] = "write"] /\ UNCHANGED <<history, excess>>
  <2>1. Typed'
    BY <1>1, <1>4 DEF history, Typed, TypeOK, Busy
  <2>2. Apart(t) /\ pc'[t] = "write"
    BY <1>1, <1>4 DEF history, Apart, Typed, TypeOK
  <2>3. VersionsTrue' /\ LiveIsNewest'
    BY <1>1, <1>4 DEF history, IInv, VersionsTrue, LiveIsNewest
  <2>4. live'[k] = live[k] /\ versions'[k] = versions[k] /\ pruned' = pruned
    BY <1>1, <1>4 DEF history
  <2>5. s \in versions[k] \/ Crowded(setting, {}, live[k], versions[k])
    BY <1>2, <1>4
  <2>6. SavingThen(t)
    BY <1>2, <2>2, <2>4, <2>5 DEF SavingThen, Saving, s
  <2>7. QED
    BY <1>1, <2>1, <2>2, <2>3, <2>6, Frame
<1>5. ASSUME NEW x \in excess[t], excess' = [excess EXCEPT ![t] = @ \ {x}], UNCHANGED pc,
             versions' = [versions EXCEPT ![k] = @ \ Stored(k, x)],
             pruned' = pruned \cup {y.data : y \in Stored(k, x)}, UNCHANGED replaced
      PROVE  IInv'
  <2>1. /\ versions'[k] = versions[k] \ Stored(k, x) /\ excess'[t] = excess[t] \ {x}
        /\ \A y \in Keys : y # k => versions'[y] = versions[y]
    BY <1>1, <1>5 DEF Typed, TypeOK
  <2>2. Typed'
    <3>1. pruned' \in SUBSET Data
      BY <1>1, <1>5 DEF Stored, Snapshot, Typed, TypeOK
    <3>2. QED
      BY <1>1, <1>5, <3>1 DEF Typed, TypeOK, Busy
  <2>3. Apart(t)
    BY <1>1, <1>5, <2>1 DEF Apart, Typed, TypeOK
  <2>4. VersionsTrue'
    BY <1>1, <2>1 DEF IInv, VersionsTrue
  <2>5. LiveIsNewest'
    BY <1>1, <2>1 DEF IInv, LiveIsNewest
  <2>6. Ahead(setting, excess[t] \ {x}, live[k], versions'[k])
          = Ahead(setting, excess[t], live[k], versions[k])
    BY <2>1 DEF Ahead, Stored, SameId
  <2>7. \/ s \in versions'[k] /\ \A y \in excess[t] \ {x} : ~SameId(s, y)
        \/ Crowded(setting, excess[t] \ {x}, live[k], versions'[k])
    <3>1. CASE s \in versions[k] /\ \A y \in excess[t] : ~SameId(s, y)
      BY <2>1, <3>1 DEF Stored
    <3>2. CASE Crowded(setting, excess[t], live[k], versions[k])
      BY <2>6, <3>2 DEF Crowded
    <3>3. QED
      BY <1>2, <3>1, <3>2
  <2>8. s \in versions'[k] \/ live[k].data \in pruned'
    BY <1>2, <1>3, <1>5, <2>1
  <2>9. \A y \in versions'[k] : SameId(s, y) => y.data = live[k].data
    BY <1>2, <2>1
  <2>10. live'[k] = live[k] /\ pc'[t] = "delete" /\ excess'[t] = excess[t] \ {x}
    BY <1>1, <1>2, <1>5, <2>1
  <2>11. SavingThen(t)
    BY <1>2, <2>7, <2>8, <2>9, <2>10 DEF SavingThen, Saving, s
  <2>12. QED
    BY <1>1, <2>2, <2>3, <2>4, <2>5, <2>11, Frame
<1>6. QED
  BY <1>4, <1>5 DEF DeleteVersion, Goto

\* What a write does that lands: t settles, its keys get new objects of the time the
\* clock has advanced to, or lose theirs, or, where a move keeps time, anything.
LEMMA LandHolds ==
    ASSUME IInv, UNCHANGED setting, NEW t \in Threads, Busy(t), Settle(t, "done"),
           UNCHANGED history,
           uploads' \in 0 .. MaxWrites, now' \in 0 .. MaxTime, now <= now',
           prior' \in [Keys -> Object \cup {None}], live' \in [Keys -> Object \cup {None}],
           \A k \in Keys : k \notin Uses(op[t]) => live'[k] = live[k],
           \A k \in Keys : \/ live'[k] = live[k] \/ live'[k] = None \/ KeepsTime
                           \/ live'[k].time = now'
    PROVE  IInv'
<1>1. Typed
  BY DEF IInv
<1>2. Typed'
  BY <1>1, SettleTyped DEF Typed, TypeOK, Busy, history
<1>3. Apart(t) /\ pc'[t] = "idle"
  BY <1>1, SettleTyped DEF Apart, Typed, TypeOK, history
<1>4. VersionsTrue'
  BY DEF IInv, VersionsTrue, history
<1>5. ASSUME ~KeepsTime PROVE LiveIsNewest'
  <2>1. now \in Int /\ now' \in Int
    BY <1>1 DEF Typed, TypeOK
  <2>2. \A k \in Keys : \A s \in versions[k] : s.time \in Int
    BY <1>1 DEF Typed, TypeOK, Snapshot, Data
  <2>3. \A k \in Keys : live[k].time \in Int
    BY <1>1 DEF Typed, TypeOK, Object, None, Data
  <2>4. /\ \A k \in Keys : live[k].time <= now /\ \A s \in versions[k] : s.time <= now
        /\ \A k \in Keys : live[k] # None => \A s \in versions[k] : s.time <= live[k].time
    BY <1>5 DEF IInv, LiveIsNewest
  <2>5. ASSUME NEW k \in Keys
        PROVE  /\ live'[k].time <= now' /\ \A s \in versions[k] : s.time <= now'
               /\ live'[k] # None => \A s \in versions[k] : s.time <= live'[k].time
    <3>1. CASE live'[k] = live[k]
      BY <3>1, <2>1, <2>2, <2>3, <2>4
    <3>2. CASE live'[k] = None
      <4>1. None.time = 0 /\ now' >= 0
        BY DEF None
      <4>2. QED
        BY <4>1, <3>2, <2>1, <2>2, <2>4
    <3>3. CASE live'[k].time = now'
      BY <3>3, <2>1, <2>2, <2>4
    <3>4. QED
      BY <3>1, <3>2, <3>3, <1>5
  <2>6. QED
    BY <2>5 DEF LiveIsNewest, history
<1>6. LiveIsNewest'
  BY <1>5 DEF LiveIsNewest
<1>7. QED
  BY <1>2, <1>3, <1>4, <1>6, Frame

\* An object stamped in the tick of the last one, or the next.
LEMMA StampedObject ==
    ASSUME Typed, Stamp, NEW d \in Data
    PROVE  /\ Stamped(d) \in Object /\ Stamped(d).time = now' /\ Stamped(d).data = d
           /\ now' \in 0 .. MaxTime /\ now <= now'
<1>1. now \in 0 .. MaxTime /\ now' \in 1 .. MaxTime /\ (now' = now \/ now' = now + 1)
  BY DEF Typed, TypeOK, Stamp
<1>2. now' \in 0 .. MaxTime /\ now <= now'
  BY <1>1, BoundsAssumption
<1>3. QED
  BY <1>1, <1>2 DEF Stamped, Object

\* Change touches one key.
LEMMA ChangeFields ==
    ASSUME Typed, NEW k \in Keys, NEW o \in Object \cup {None}, Change(k, o)
    PROVE  /\ live' \in [Keys -> Object \cup {None}] /\ prior' \in [Keys -> Object \cup {None}]
           /\ live'[k] = o /\ \A x \in Keys : x # k => live'[x] = live[x]
<1>1. live[k] \in Object \cup {None}
  BY DEF Typed, TypeOK
<1>2. QED
  BY <1>1 DEF Change, Typed, TypeOK

LEMMA UploadLandsHolds ==
    ASSUME IInv, UNCHANGED setting, NEW t \in Threads, UploadLands(t)
    PROVE  IInv'
<1>1. Busy(t) /\ Typed /\ op[t].key \in Keys
  BY OpFields DEF UploadLands, IInv, Busy
<1>2. uploads' \in Data /\ uploads' \in 0 .. MaxWrites
  BY <1>1, BoundsAssumption DEF UploadLands, Typed, TypeOK, Data
<1>3. Stamped(uploads') \in Object /\ Stamped(uploads').time = now'
      /\ now' \in 0 .. MaxTime /\ now <= now'
  BY <1>1, <1>2, StampedObject DEF UploadLands
<1>4. Change(op[t].key, Stamped(uploads')) /\ Settle(t, "done") /\ UNCHANGED history
  BY DEF UploadLands
<1>5. /\ live' \in [Keys -> Object \cup {None}] /\ prior' \in [Keys -> Object \cup {None}]
      /\ live'[op[t].key] = Stamped(uploads')
      /\ \A x \in Keys : x # op[t].key => live'[x] = live[x]
  BY <1>1, <1>3, <1>4, ChangeFields
<1>6. \A k \in Keys : k \notin Uses(op[t]) => live'[k] = live[k]
  BY <1>5 DEF Uses
<1>7. \A k \in Keys : live'[k] = live[k] \/ live'[k].time = now'
  BY <1>3, <1>5
<1>8. now <= now'
  BY <1>1, <1>3 DEF Typed, TypeOK
<1>9. QED
  BY <1>1, <1>2, <1>3, <1>4, <1>5, <1>6, <1>7, <1>8, LandHolds

LEMMA DeleteLandsHolds ==
    ASSUME IInv, UNCHANGED setting, NEW t \in Threads, DeleteLands(t)
    PROVE  IInv'
<1> DEFINE k == op[t].key
<1>1. Busy(t) /\ Typed /\ k \in Keys
  BY OpFields DEF DeleteLands, IInv, Busy
<1>2. Settle(t, "done") /\ UNCHANGED <<history, uploads, now>>
  BY DEF DeleteLands
<1>3. /\ live' \in [Keys -> Object \cup {None}] /\ prior' \in [Keys -> Object \cup {None}]
      /\ \A x \in Keys : live'[x] = live[x] \/ (x = k /\ live'[x] = None)
  <2>1. CASE live[k] = None
    BY <1>1, <2>1 DEF DeleteLands, Typed, TypeOK
  <2>2. CASE live[k] # None
    BY <1>1, <2>2, ChangeFields DEF DeleteLands
  <2>3. QED
    BY <2>1, <2>2
<1>4. uploads' \in 0 .. MaxWrites /\ now' \in 0 .. MaxTime /\ now <= now'
  BY <1>1, <1>2 DEF Typed, TypeOK
<1>5. \A x \in Keys : x \notin Uses(op[t]) => live'[x] = live[x]
  BY <1>3 DEF Uses
<1>6. QED
  BY <1>1, <1>2, <1>3, <1>4, <1>5, LandHolds

\* An object that takes the data of an existing one, or of a version.
LEMMA CopyHolds ==
    ASSUME IInv, UNCHANGED setting, NEW t \in Threads, Busy(t), NEW d \in Data, Stamp,
           Change(op[t].key, Stamped(d)), Settle(t, "done"), UNCHANGED <<history, uploads>>
    PROVE  IInv'
<1>1. Typed /\ op[t].key \in Keys
  BY OpFields DEF IInv
<1>2. Stamped(d) \in Object /\ Stamped(d).time = now' /\ now' \in 0 .. MaxTime /\ now <= now'
  BY <1>1, StampedObject
<1>3. /\ live' \in [Keys -> Object \cup {None}] /\ prior' \in [Keys -> Object \cup {None}]
      /\ live'[op[t].key] = Stamped(d) /\ \A x \in Keys : x # op[t].key => live'[x] = live[x]
  BY <1>1, <1>2, ChangeFields
<1>4. \A k \in Keys : k \notin Uses(op[t]) => live'[k] = live[k]
  BY <1>3 DEF Uses
<1>5. \A k \in Keys : live'[k] = live[k] \/ live'[k].time = now'
  BY <1>2, <1>3
<1>6. now <= now' /\ uploads' \in 0 .. MaxWrites
  BY <1>1, <1>2 DEF Typed, TypeOK
<1>7. QED
  BY <1>1, <1>2, <1>3, <1>4, <1>5, <1>6, LandHolds

LEMMA CopyLandsHolds ==
    ASSUME IInv, UNCHANGED setting, NEW t \in Threads, CopyLands(t)
    PROVE  IInv'
<1>1. Busy(t) /\ Typed /\ op[t].from \in Keys
  BY OpFields DEF CopyLands, IInv, Busy
<1>2. CASE live[op[t].from] = None
  BY <1>1, <1>2, AbandonHolds DEF CopyLands
<1>3. CASE live[op[t].from] # None
  <2>1. live[op[t].from].data \in Data
    BY <1>1, <1>3 DEF Typed, TypeOK, Object
  <2>2. QED
    BY <1>1, <1>3, <2>1, CopyHolds DEF CopyLands
<1>4. QED
  BY <1>2, <1>3

LEMMA MoveLandsHolds ==
    ASSUME IInv, UNCHANGED setting, NEW t \in Threads, MoveLands(t)
    PROVE  IInv'
<1> DEFINE o == op[t]
           object == live[o.from]
           moved == IF KeepsTime THEN object ELSE Stamped(object.data)
<1>1. Busy(t) /\ Typed /\ o.from \in Keys /\ o.key \in Keys
  BY OpFields DEF MoveLands, IInv, Busy
<1>2. CASE o.from = o.key \/ object = None
  <2>1. Abandon(t, "done") \/ Abandon(t, "failed")
    BY <1>2 DEF MoveLands
  <2>2. QED
    BY <1>1, <2>1, AbandonHolds
<1>3. CASE o.from # o.key /\ object # None
  <2>1. /\ IF KeepsTime THEN UNCHANGED now ELSE Stamp
        /\ live' = [live EXCEPT ![o.from] = None, ![o.key] = moved]
        /\ prior' = [prior EXCEPT ![o.from] = None, ![o.key] = live[o.key]]
        /\ Settle(t, "done") /\ UNCHANGED <<history, uploads>>
    BY <1>3 DEF MoveLands
  <2>2. object \in Object /\ object.data \in Data /\ live[o.key] \in Object \cup {None}
    BY <1>1, <1>3 DEF Typed, TypeOK, Object, None
  <2>3. now \in 0 .. MaxTime
    BY <1>1 DEF Typed, TypeOK
  <2>4. /\ moved \in Object /\ now' \in 0 .. MaxTime /\ now <= now'
        /\ KeepsTime \/ moved.time = now'
    <3>1. CASE KeepsTime
      BY <3>1, <2>1, <2>2, <2>3
    <3>2. CASE ~KeepsTime
      BY <3>2, <1>1, <2>1, <2>2, <2>3, StampedObject
    <3>3. QED
      BY <3>1, <3>2
  <2> HIDE DEF moved
  <2>5. /\ live' \in [Keys -> Object \cup {None}]
        /\ live'[o.key] = moved /\ live'[o.from] = None
        /\ \A k \in Keys : k \notin {o.key, o.from} => live'[k] = live[k]
    BY <1>1, <1>3, <2>1, <2>2, <2>4 DEF Typed, TypeOK
  <2>6. prior' \in [Keys -> Object \cup {None}]
    BY <1>1, <2>1, <2>2 DEF Typed, TypeOK
  <2>7. \A k \in Keys : k \notin Uses(op[t]) => live'[k] = live[k]
    BY <2>5 DEF Uses
  <2>8. \A k \in Keys : \/ live'[k] = live[k] \/ live'[k] = None \/ KeepsTime
                        \/ live'[k].time = now'
    BY <2>4, <2>5
  <2>9. uploads' \in 0 .. MaxWrites
    BY <1>1, <2>1 DEF Typed, TypeOK
  <2>10. QED
    BY <1>1, <2>1, <2>4, <2>5, <2>6, <2>7, <2>8, <2>9, LandHolds
<1>4. QED
  BY <1>2, <1>3

LEMMA RestoreLandsHolds ==
    ASSUME IInv, UNCHANGED setting, NEW t \in Threads, RestoreLands(t)
    PROVE  IInv'
<1>1. Busy(t) /\ Typed /\ op[t].key \in Keys
  BY OpFields DEF RestoreLands, IInv, Busy
<1>2. CASE Abandon(t, "missing")
  BY <1>1, <1>2, AbandonHolds
<1>3. ASSUME NEW s \in Stored(op[t].key, op[t].id), Stamp,
             Change(op[t].key, Stamped(s.data)), Settle(t, "done"),
             UNCHANGED <<history, uploads>>
      PROVE  IInv'
  <2>1. s.data \in Data
    BY <1>1 DEF Stored, Typed, TypeOK, Snapshot
  <2>2. QED
    BY <1>1, <1>3, <2>1, CopyHolds
<1>4. QED
  BY <1>2, <1>3 DEF RestoreLands

LEMMA FailHolds ==
    ASSUME IInv, UNCHANGED setting, NEW t \in Threads, Fail(t)
    PROVE  IInv'
BY AbandonHolds DEF Fail, Busy

LEMMA NextHolds ==
    ASSUME IInv, Disciplined, [Next]_vars
    PROVE  IInv'
<1>1. CASE UNCHANGED vars
  BY <1>1 DEF vars, bucket, history, IInv, Typed, TypeOK, Busy, Separated, VersionsTrue,
              LiveIsNewest, SavingAll, SavingOf
<1>2. ASSUME NEW t \in Threads, Step(t), UNCHANGED setting
      PROVE  IInv'
  <2>1. CASE BeginWrite(t) \/ BeginRestore(t)
    BY <1>2, <2>1, Begins, BeginHolds DEF Disciplined, IInv
  <2>3. CASE PickNewest(t)
    BY <1>2, <2>3, PickNewestHolds
  <2>4. CASE CheckExists(t)
    BY <1>2, <2>4, CheckExistsHolds
  <2>5. CASE HeadObject(t)
    BY <1>2, <2>5, HeadObjectHolds
  <2>6. CASE Save(t)
    BY <1>2, <2>6, SaveHolds
  <2>7. CASE ListVersions(t)
    BY <1>2, <2>7, ListVersionsHolds
  <2>8. CASE DeleteVersion(t)
    BY <1>2, <2>8, DeleteVersionHolds
  <2>9. CASE UploadLands(t)
    BY <1>2, <2>9, UploadLandsHolds
  <2>10. CASE DeleteLands(t)
    BY <1>2, <2>10, DeleteLandsHolds
  <2>11. CASE CopyLands(t)
    BY <1>2, <2>11, CopyLandsHolds
  <2>12. CASE MoveLands(t)
    BY <1>2, <2>12, MoveLandsHolds
  <2>13. CASE RestoreLands(t)
    BY <1>2, <2>13, RestoreLandsHolds
  <2>14. CASE Fail(t)
    BY <1>2, <2>14, FailHolds
  <2>15. QED
    BY <1>2, <2>1, <2>3, <2>4, <2>5, <2>6, <2>7, <2>8, <2>9, <2>10, <2>11, <2>12, <2>13, <2>14
       DEF Step
<1>3. QED
  BY <1>1, <1>2 DEF Next

\* From its head call to its write, an operation has its key to itself, and what it has
\* saved there is the newest of the key's versions, which prune does not take.
THEOREM Inductive ==
    ASSUME Disciplined
    PROVE  Spec => []IInv
<1>1. IInv /\ [Next]_vars => IInv'
  BY NextHolds
<1>2. QED
  BY <1>1, InitHolds, PTL DEF Spec

LEMMA Safe == IInv => SafeToWrite
<1> SUFFICES ASSUME IInv, NEW t \in Threads, pc[t] = "write", live[op[t].key] # None
             PROVE  \/ \E s \in versions[op[t].key] : s.data = live[op[t].key].data
                    \/ setting.limit > 0 /\ Cardinality(Crowding(op[t].key)) >= setting.limit
  BY DEF SafeToWrite
<1> DEFINE k == op[t].key
           s == Snap(setting, live[k])
<1>1. s \in versions[k] \/ Crowded(setting, {}, live[k], versions[k])
  BY DEF IInv, SavingAll, SavingOf, Saving, Busy
<1>2. CASE s \in versions[k]
  BY <1>2, SnapFields
<1>3. CASE Crowded(setting, {}, live[k], versions[k])
  <2>1. Ahead(setting, {}, live[k], versions[k]) = Crowding(k)
    BY SnapFields DEF Ahead, Crowding
  <2>2. setting.limit \in Nat
    BY SettingFields DEF IInv
  <2>3. setting.limit # 0 /\ Cardinality(Crowding(k)) >= setting.limit
    BY <1>3, <2>1 DEF Crowded
  <2>4. QED
    BY <2>2, <2>3
<1>4. QED
  BY <1>1, <1>2, <1>3

\* No write clobbers bytes that are not saved, however many versions are pruned, which
\* operations fail and what a caller restores: unless their snapshot was pruned for as
\* many versions of the same tick, whose slugs sort later.
THEOREM SnapshotBeforeWrite ==
    ASSUME Disciplined
    PROVE  Spec => []SafeToWrite
BY Inductive, Safe, PTL

(***************************************************************************)
(* Only prune, and a snapshot of the same id, lose bytes.                  *)
(***************************************************************************)
\* All data was uploaded.
Uploaded ==
    \A k \in Keys : live[k].data <= uploads /\ \A s \in versions[k] : s.data <= uploads

\* The bytes that a landing write clobbers are saved, or were pruned; the other objects
\* stay, or move to the key written.
LEMMA LandKeeps ==
    ASSUME IInv, UNCHANGED setting, NothingLost, Uploaded, NEW t \in Threads, pc[t] = "write",
           UNCHANGED history, uploads' \in Nat, uploads <= uploads',
           \A k \in Keys : live'[k].data <= uploads',
           \A k \in Keys : \/ k = op[t].key \/ live'[k] = live[k]
                           \/ live'[op[t].key].data = live[k].data,
           \A d \in 1 .. uploads' : d \in 1 .. uploads \/ live'[op[t].key].data = d
    PROVE  NothingLost' /\ Uploaded'
<1> DEFINE key == op[t].key
<1>0. Uploaded'
  <2>1. \A k \in Keys : \A x \in versions[k] : x.data \in Int
    BY DEF IInv, Typed, TypeOK, Snapshot, Data
  <2>2. uploads \in Int
    BY DEF IInv, Typed, TypeOK
  <2>3. QED
    BY <2>1, <2>2 DEF Uploaded, history
<1>1. /\ key \in Keys /\ uploads \in Nat
      /\ \/ live[key] = None \/ Snap(setting, live[key]) \in versions[key]
         \/ live[key].data \in pruned
  BY OpFields DEF IInv, Typed, TypeOK, SavingAll, SavingOf, Saving, Busy
<1> SUFFICES ASSUME NEW d \in 1 .. uploads', d \notin pruned, ~(d \in replaced /\ Confusable(d)')
             PROVE  \E k \in Keys : live'[k].data = d \/ \E s \in versions[k] : s.data = d
  BY <1>0 DEF NothingLost, history
<1>2. CASE live'[key].data = d
  BY <1>1, <1>2
<1>3. CASE d \in 1 .. uploads
  <2>1. Confusable(d) => Confusable(d)'
    BY <1>1 DEF Confusable
  <2>2. PICK k \in Keys : live[k].data = d \/ \E s \in versions[k] : s.data = d
    BY <1>3, <2>1 DEF NothingLost
  <2>3. CASE \E s \in versions[k] : s.data = d
    BY <2>3
  <2>4. CASE live[k].data = d /\ k = key
    <3>1. live[key] # None
      BY <1>3, <2>4 DEF None
    <3>2. Snap(setting, live[key]).data = d
      BY <2>4, SnapFields
    <3>3. QED
      BY <1>1, <2>4, <3>1, <3>2
  <2>5. CASE live[k].data = d /\ k # key
    BY <1>1, <2>5
  <2>6. QED
    BY <2>2, <2>3, <2>4, <2>5
<1>4. QED
  BY <1>2, <1>3

\* A version that a snapshot of its id replaces has the same slug; if it held other
\* data, that counts as replaced.
LEMMA SaveKeeps ==
    ASSUME IInv, UNCHANGED setting, NothingLost, Uploaded, NEW t \in Threads, Save(t)
    PROVE  NothingLost' /\ Uploaded'
<1> DEFINE k == op[t].key
           s == Snap(setting, live[k])
<1>1. Busy(t) /\ Typed /\ k \in Keys /\ UNCHANGED <<live, pruned, uploads>>
  BY OpFields DEF Save, IInv, Busy
<1>2. live[k] # None /\ taken[t] = live[k]
  BY SaveStores
<1>3. /\ versions' = [versions EXCEPT ![k] = (@ \ Stored(k, s)) \cup {s}]
      /\ replaced' = replaced \cup ({x.data : x \in Stored(k, s)} \ {s.data})
  BY <1>1, <1>2, SaveStores DEF Save
<1>4. /\ s.tag = setting.slug[s.data] /\ s.data = live[k].data /\ s.data \in Data
      /\ s.data <= uploads /\ uploads \in Nat
  BY <1>1, <1>2, ObjectFields, SnapFields, SettingFields DEF Uploaded, Typed, TypeOK
<1> HIDE DEF s
<1>5. /\ versions'[k] = (versions[k] \ Stored(k, s)) \cup {s}
      /\ \A x \in Keys : x # k => versions'[x] = versions[x]
  BY <1>1, <1>3 DEF Typed, TypeOK
<1>6. ASSUME NEW x \in Stored(k, s), x.data # s.data
      PROVE  x.data \in replaced' /\ Confusable(x.data)
  <2>1. setting.slug[x.data] = setting.slug[s.data]
    BY <1>1, <1>4 DEF Stored, SameId, IInv, VersionsTrue
  <2>2. s.data \in 1 .. uploads
    BY <1>4 DEF Data
  <2>3. QED
    BY <1>3, <1>6, <2>1, <2>2 DEF Confusable
<1>7. \A x \in Keys : \A y \in versions[x] :
          (\E z \in versions'[x] : z.data = y.data)
          \/ (y.data \in replaced' /\ Confusable(y.data))
  <2> SUFFICES ASSUME NEW x \in Keys, NEW y \in versions[x]
               PROVE  \/ \E z \in versions'[x] : z.data = y.data
                      \/ y.data \in replaced' /\ Confusable(y.data)
    OBVIOUS
  <2>1. CASE x # k \/ y \notin Stored(k, s)
    BY <1>5, <2>1
  <2>2. CASE x = k /\ y \in Stored(k, s)
    BY <1>5, <1>6, <2>2
  <2>3. QED
    BY <2>1, <2>2
<1>8. Uploaded'
  BY <1>1, <1>4, <1>5 DEF Uploaded
<1>9. \A d \in 1 .. uploads : Confusable(d)' = Confusable(d)
  BY <1>1 DEF Confusable
<1>10. replaced \subseteq replaced'
  BY <1>3
<1>11. QED
  BY <1>1, <1>7, <1>8, <1>9, <1>10 DEF NothingLost

\* Deleting versions moves what they held to pruned.
LEMMA DeleteKeeps ==
    ASSUME IInv, UNCHANGED setting, NothingLost, Uploaded, NEW t \in Threads, DeleteVersion(t)
    PROVE  NothingLost' /\ Uploaded'
<1> DEFINE key == op[t].key
<1>1. /\ key \in Keys /\ UNCHANGED <<live, uploads, replaced>>
      /\ versions \in [Keys -> SUBSET Snapshot]
  BY OpFields DEF DeleteVersion, IInv, Typed, TypeOK, Busy, history
<1>2. CASE UNCHANGED history
  BY <1>1, <1>2 DEF NothingLost, Uploaded, Confusable, history
<1>3. ASSUME NEW s \in excess[t],
             versions' = [versions EXCEPT ![key] = @ \ Stored(key, s)],
             pruned' = pruned \cup {x.data : x \in Stored(key, s)}
      PROVE  NothingLost' /\ Uploaded'
  <2>1. \A k \in Keys : \A x \in versions[k] : x \in versions'[k] \/ x.data \in pruned'
    BY <1>1, <1>3 DEF Stored
  <2>2. pruned \subseteq pruned' /\ \A k \in Keys : versions'[k] \subseteq versions[k]
    BY <1>1, <1>3
  <2>3. \A d \in 1 .. uploads : Confusable(d)' = Confusable(d)
    BY <1>1 DEF Confusable
  <2>4. NothingLost'
    BY <1>1, <2>1, <2>2, <2>3 DEF NothingLost
  <2>5. Uploaded'
    BY <1>1, <2>2 DEF Uploaded
  <2>6. QED
    BY <2>4, <2>5
<1>4. QED
  BY <1>2, <1>3 DEF DeleteVersion

LEMMA StepKeeps ==
    ASSUME IInv, UNCHANGED setting, NothingLost, Uploaded, NEW t \in Threads, Step(t)
    PROVE  NothingLost' /\ Uploaded'
<1> DEFINE key == op[t].key
<1>1. Typed /\ uploads \in Nat /\ \A k \in Keys : live[k].data <= uploads
  BY DEF IInv, Typed, TypeOK, Uploaded
<1>2. CASE UNCHANGED <<live, history, uploads>>
  BY <1>2 DEF NothingLost, Uploaded, Confusable, history
<1>3. CASE Save(t)
  BY <1>3, SaveKeeps
<1>4. CASE DeleteVersion(t)
  BY <1>4, DeleteKeeps
<1>5. ASSUME NEW o \in Object \cup {None}, pc[t] = "write", Change(key, o), UNCHANGED history,
             \/ uploads' = uploads /\ o.data <= uploads
             \/ uploads' = uploads + 1 /\ o.data = uploads'
      PROVE  NothingLost' /\ Uploaded'
  <2>1. key \in Keys
    BY <1>1, <1>5, OpFields DEF Busy
  <2>2. live'[key] = o /\ \A x \in Keys : x # key => live'[x] = live[x]
    BY <1>1, <1>5, <2>1, ChangeFields
  <2>3. \A d \in 1 .. uploads' : d \in 1 .. uploads \/ o.data = d
    BY <1>1, <1>5 DEF Typed, TypeOK
  <2>4. uploads' \in Nat /\ uploads <= uploads'
    BY <1>1, <1>5
  <2>5. \A k \in Keys : live'[k].data <= uploads'
    <3>1. \A k \in Keys : live[k].data \in Int
      BY <1>1 DEF Typed, TypeOK, Object, None, Data
    <3>2. QED
      BY <1>1, <1>5, <2>2, <2>4, <3>1
  <2>6. QED
    BY <1>5, <2>2, <2>3, <2>4, <2>5, LandKeeps
<1>6. CASE UploadLands(t)
  <2>1. uploads' \in Data
    BY <1>1, <1>6, BoundsAssumption DEF UploadLands, Typed, TypeOK, Data
  <2>2. Stamped(uploads') \in Object /\ Stamped(uploads').data = uploads'
    BY <1>1, <1>6, <2>1, StampedObject DEF UploadLands
  <2>3. QED
    BY <1>5, <1>6, <2>2 DEF UploadLands
<1>7. CASE DeleteLands(t)
  BY <1>1, <1>2, <1>5, <1>7 DEF DeleteLands, None
<1>8. CASE CopyLands(t)
  <2>1. CASE live[op[t].from] = None
    BY <1>2, <1>8, <2>1 DEF CopyLands, Abandon
  <2>2. CASE live[op[t].from] # None
    <3>1. op[t].from \in Keys
      BY <1>1, <1>8, OpFields DEF CopyLands, Busy
    <3>2. live[op[t].from].data \in Data
      BY <1>1, <2>2, <3>1 DEF Typed, TypeOK, Object
    <3>3. /\ Stamped(live[op[t].from].data) \in Object
          /\ Stamped(live[op[t].from].data).data <= uploads
      BY <1>1, <1>8, <2>2, <3>1, <3>2, StampedObject DEF CopyLands
    <3>4. QED
      BY <1>5, <1>8, <2>2, <3>3 DEF CopyLands
  <2>3. QED
    BY <2>1, <2>2
<1>9. CASE MoveLands(t)
  <2> DEFINE o == op[t]
             object == live[o.from]
             moved == IF KeepsTime THEN object ELSE Stamped(object.data)
  <2>1. CASE o.from = o.key \/ object = None
    BY <1>2, <1>9, <2>1 DEF MoveLands, Abandon
  <2>2. CASE o.from # o.key /\ object # None
    <3>1. live' = [live EXCEPT ![o.from] = None, ![o.key] = moved]
          /\ UNCHANGED <<history, uploads>>
      BY <1>9, <2>2 DEF MoveLands
    <3>2. o.from \in Keys /\ o.key \in Keys /\ pc[t] = "write"
      BY <1>1, <1>9, OpFields DEF MoveLands, Busy
    <3>3. moved.data = object.data
      BY DEF Stamped
    <3> HIDE DEF moved
    <3>4. live'[o.key] = moved /\ live'[o.from] = None
          /\ \A k \in Keys : k \notin {o.key, o.from} => live'[k] = live[k]
      BY <1>1, <2>2, <3>1, <3>2 DEF Typed, TypeOK
    <3>5. \A k \in Keys : k = o.key \/ live'[k] = live[k] \/ live'[o.key].data = live[k].data
      BY <3>3, <3>4
    <3>6. \A k \in Keys : live'[k].data <= uploads'
      <4>1. moved.data <= uploads /\ uploads' = uploads
        BY <1>1, <3>1, <3>2, <3>3
      <4>2. None.data <= uploads
        BY <1>1 DEF None
      <4> QED
        BY <1>1, <3>4, <4>1, <4>2
    <3>7. uploads' \in Nat /\ uploads <= uploads' /\ UNCHANGED history
      BY <1>1, <3>1
    <3>8. \A d \in 1 .. uploads' : d \in 1 .. uploads
      BY <3>1
    <3>9. QED
      BY <3>2, <3>5, <3>6, <3>7, <3>8, LandKeeps
  <2>3. QED
    BY <2>1, <2>2
<1>10. CASE RestoreLands(t)
  <2>1. CASE Abandon(t, "missing")
    BY <1>2, <2>1 DEF Abandon
  <2>2. ASSUME NEW s \in Stored(key, op[t].id), Stamp, Change(key, Stamped(s.data))
        PROVE  NothingLost' /\ Uploaded'
    <3>1. key \in Keys
      BY <1>1, <1>10, OpFields DEF RestoreLands, Busy
    <3>2. s.data \in Data /\ s.data <= uploads
      BY <1>1, <3>1 DEF Stored, Typed, TypeOK, Snapshot, Uploaded
    <3>3. Stamped(s.data) \in Object /\ Stamped(s.data).data <= uploads
      BY <1>1, <2>2, <3>2, StampedObject
    <3>4. QED
      BY <1>5, <1>10, <2>2, <3>3 DEF RestoreLands
  <2>3. QED
    BY <1>10, <2>1, <2>2 DEF RestoreLands
<1>11. CASE BeginWrite(t) \/ BeginRestore(t)
  BY <1>2, <1>11 DEF BeginWrite, BeginRestore, Start, bucket, history
<1>12. CASE \/ PickNewest(t) \/ CheckExists(t) \/ HeadObject(t) \/ ListVersions(t) \/ Fail(t)
  BY <1>2, <1>12 DEF PickNewest, CheckExists, HeadObject, ListVersions, Fail, Abandon,
                     bucket, history
<1>13. QED
  BY <1>3, <1>4, <1>6, <1>7, <1>8, <1>9, <1>10, <1>11, <1>12 DEF Step

\* Every upload that prune did not delete, and that no snapshot of other data with its
\* slug replaced, is somewhere, for ever: at a key or among the versions.
THEOREM NothingIsLost ==
    ASSUME Disciplined
    PROVE  Spec => []NothingLost
<1>1. Init => NothingLost /\ Uploaded
  BY DEF Init, NothingLost, Uploaded, None
<1>2. IInv /\ NothingLost /\ Uploaded /\ [Next]_vars => NothingLost' /\ Uploaded'
  BY StepKeeps DEF Next, vars, bucket, history, NothingLost, Uploaded, Confusable
<1>3. Spec => []IInv
  BY Inductive
<1>4. QED
  BY <1>1, <1>2, <1>3, PTL DEF Spec

(***************************************************************************)
(* Types, also where callers overlap and moves keep time.                  *)
(***************************************************************************)
TypedInv == Typed /\ \A t \in Threads : pc[t] = "save" => taken[t] # None

BucketTyped ==
    /\ live \in [Keys -> Object \cup {None}] /\ versions \in [Keys -> SUBSET Snapshot]
    /\ uploads \in 0 .. MaxWrites /\ now \in 0 .. MaxTime
    /\ pruned \in SUBSET Data /\ replaced \in SUBSET Data
    /\ prior \in [Keys -> Object \cup {None}]

LEMMA EndTyped ==
    ASSUME TypedInv, UNCHANGED setting, NEW t \in Threads,
           NEW how \in {"none", "done", "failed", "missing"}, Settle(t, how), BucketTyped'
    PROVE  TypedInv'
<1>1. Typed
  BY DEF TypedInv
<1>2. TypeOK'
  BY <1>1, SettleTyped DEF BucketTyped, Typed, TypeOK
<1>3. Typed'
  BY <1>1, <1>2, SettleTyped DEF Typed, Busy
<1>4. \A u \in Threads : pc'[u] = "save" => pc[u] = "save" /\ taken'[u] = taken[u]
  BY <1>1, SettleTyped DEF Typed, TypeOK
<1>5. QED
  BY <1>3, <1>4 DEF TypedInv

LEMMA AbandonTyped ==
    ASSUME TypedInv, UNCHANGED setting, NEW t \in Threads, Busy(t),
           NEW how \in {"none", "done", "failed", "missing"}, Abandon(t, how)
    PROVE  TypedInv'
<1>1. BucketTyped'
  BY OpFields DEF Abandon, TypedInv, Typed, TypeOK, BucketTyped, history
<1>2. QED
  BY <1>1, EndTyped DEF Abandon

LEMMA BeginTyped ==
    ASSUME TypedInv, UNCHANGED setting, NEW t \in Threads, BeginWrite(t) \/ BeginRestore(t)
    PROVE  TypedInv'
<1>1. PICK o \in Op, p \in {"head", "exists", "newest"} : Start(t, o) /\ Goto(t, p)
  BY Begins DEF TypedInv
<1>2. /\ pc' = [pc EXCEPT ![t] = p] /\ op' = [op EXCEPT ![t] = o]
      /\ UNCHANGED <<bucket, taken, excess>>
      /\ outcome' = [outcome EXCEPT ![t] = "none"]
  BY <1>1 DEF Start, Goto
<1>3. TypeOK'
  BY <1>2 DEF TypedInv, Typed, TypeOK, bucket, history
<1>4. \A u \in Threads : pc'[u] # "idle" => op'[u] \in Op
  BY <1>2 DEF TypedInv, Typed, TypeOK, Busy
<1>5. \A u \in Threads : pc'[u] = "save" => pc[u] = "save" /\ taken'[u] = taken[u]
  BY <1>2 DEF TypedInv, Typed, TypeOK
<1>6. QED
  BY <1>3, <1>4, <1>5 DEF TypedInv, Typed, Busy

LEMMA GoOnTyped ==
    ASSUME TypedInv, UNCHANGED setting, NEW t \in Threads,
           PickNewest(t) \/ CheckExists(t) \/ HeadObject(t) \/ ListVersions(t)
    PROVE  TypedInv'
<1>1. Typed /\ Busy(t) /\ op[t] \in Op /\ op[t].key \in Keys
  BY OpFields DEF TypedInv, PickNewest, CheckExists, HeadObject, ListVersions, Busy
<1>2. UNCHANGED bucket
  BY DEF PickNewest, CheckExists, HeadObject, ListVersions
<1>3. BucketTyped'
  BY <1>1, <1>2 DEF BucketTyped, Typed, TypeOK, bucket, history
<1>4. CASE Settle(t, "failed")
  BY <1>3, <1>4, EndTyped
<1>5. CASE PickNewest(t) /\ versions[op[t].key] # {}
  <2>1. PICK s \in versions[op[t].key] : op' = [op EXCEPT ![t].id = s]
    BY <1>5 DEF PickNewest
  <2>2. pc' = [pc EXCEPT ![t] = "exists"] /\ UNCHANGED <<taken, excess, outcome>>
    BY <1>5 DEF PickNewest, Goto
  <2>3. s \in Snapshot
    BY <1>1 DEF Typed, TypeOK
  <2>4. [op[t] EXCEPT !.id = s] \in Op
    BY <1>1, <2>3 DEF Op
  <2>5. op' = [op EXCEPT ![t] = [op[t] EXCEPT !.id = s]]
    BY <1>1, <2>1 DEF Typed, TypeOK
  <2>6. QED
    BY <1>1, <1>2, <2>2, <2>4, <2>5 DEF TypedInv, Typed, TypeOK, bucket, history, Busy
<1>6. CASE CheckExists(t) /\ ~Settle(t, "failed")
  <2>1. pc' = [pc EXCEPT ![t] = "head"] /\ UNCHANGED <<op, taken, excess, outcome>>
    BY <1>6 DEF CheckExists, Goto
  <2>2. QED
    BY <1>1, <1>2, <2>1 DEF TypedInv, Typed, TypeOK, bucket, history, Busy
<1>7. CASE HeadObject(t)
  <2>1. live[op[t].key] \in Object \cup {None}
    BY <1>1 DEF Typed, TypeOK
  <2>2. /\ \/ live[op[t].key] = None /\ pc' = [pc EXCEPT ![t] = "write"] /\ taken' = taken
           \/ /\ live[op[t].key] # None /\ pc' = [pc EXCEPT ![t] = "save"]
              /\ taken' = [taken EXCEPT ![t] = live[op[t].key]]
        /\ UNCHANGED <<op, excess, outcome>>
    BY <1>7 DEF HeadObject, Goto
  <2>3. TypeOK'
    BY <1>1, <1>2, <2>1, <2>2 DEF Typed, TypeOK, bucket, history
  <2>4. \A u \in Threads : pc'[u] # "idle" => op'[u] \in Op
    BY <1>1, <2>2 DEF Typed, TypeOK, Busy
  <2>5. \A u \in Threads : pc'[u] = "save" => taken'[u] # None
    BY <1>1, <2>2 DEF TypedInv, Typed, TypeOK
  <2>6. QED
    BY <2>3, <2>4, <2>5 DEF TypedInv, Typed, Busy
<1>8. CASE ListVersions(t)
  <2>1. Excess(op[t].key) \in SUBSET Snapshot
    BY <1>1 DEF Excess, Typed, TypeOK
  <2>2. /\ pc' = [pc EXCEPT ![t] = "delete"] /\ UNCHANGED <<op, taken, outcome>>
        /\ excess' = [excess EXCEPT ![t] = Excess(op[t].key)]
    BY <1>8 DEF ListVersions, Goto
  <2>3. QED
    BY <1>1, <1>2, <2>1, <2>2 DEF TypedInv, Typed, TypeOK, bucket, history, Busy
<1>9. QED
  BY <1>4, <1>5, <1>6, <1>7, <1>8 DEF PickNewest, CheckExists

LEMMA HistoryTyped ==
    ASSUME TypedInv, UNCHANGED setting, NEW t \in Threads, Save(t) \/ DeleteVersion(t)
    PROVE  TypedInv'
<1> DEFINE k == op[t].key
<1>1. Typed /\ Busy(t) /\ k \in Keys /\ op[t] \in Op
  BY OpFields DEF TypedInv, Save, DeleteVersion, Busy
<1>2. CASE Save(t) /\ live[k] = None
  <2>1. Settle(t, "failed") /\ UNCHANGED bucket
    BY <1>2 DEF Save, bucket, history
  <2>2. BucketTyped'
    BY <1>1, <2>1 DEF BucketTyped, Typed, TypeOK, bucket, history
  <2>3. QED
    BY <2>1, <2>2, EndTyped
<1>3. CASE Save(t) /\ live[k] # None
  <2> DEFINE s == [SnapshotOf(taken[t]) EXCEPT !.data = live[k].data]
  <2>1. s \in Snapshot
    <3>1. Snap(setting, taken[t]) \in Snapshot
      BY <1>1, <1>3, ObjectFields, SettingFields DEF Save, TypedInv, Typed, TypeOK
    <3>2. live[k].data \in Data
      BY <1>1, <1>3 DEF Typed, TypeOK, Object
    <3>3. s = [Snap(setting, taken[t]) EXCEPT !.data = live[k].data]
      BY SnapFields
    <3>4. QED
      BY <3>1, <3>2, <3>3 DEF Snapshot
  <2>2. /\ versions' = [versions EXCEPT ![k] = (@ \ Stored(k, s)) \cup {s}]
        /\ replaced' = replaced \cup ({x.data : x \in Stored(k, s)} \ {s.data})
        /\ pc' = [pc EXCEPT ![t] = IF setting.limit = 0 THEN "write" ELSE "prune"]
        /\ UNCHANGED <<op, taken, excess, outcome, live, pruned, uploads, now, prior>>
    BY <1>3 DEF Save, Goto
  <2> HIDE DEF s
  <2>3. replaced' \in SUBSET Data
    BY <1>1, <2>2 DEF Stored, Snapshot, Typed, TypeOK
  <2>4. QED
    BY <1>1, <2>1, <2>2, <2>3 DEF TypedInv, Typed, TypeOK, Busy
<1>4. CASE DeleteVersion(t)
  <2>1. /\ UNCHANGED <<live, uploads, now, prior, op, taken, outcome>>
        /\ pc' = [pc EXCEPT ![t] = "write"] \/ pc' = pc
    BY <1>4 DEF DeleteVersion, Goto
  <2>2. versions' \in [Keys -> SUBSET Snapshot]
    BY <1>1, <1>4 DEF DeleteVersion, Typed, TypeOK, history
  <2>3. excess' \in [Threads -> SUBSET Snapshot]
    BY <1>1, <1>4 DEF DeleteVersion, Typed, TypeOK
  <2>4. pruned' \in SUBSET Data /\ UNCHANGED replaced
    BY <1>1, <1>4 DEF DeleteVersion, Stored, Snapshot, Typed, TypeOK, history
  <2>5. QED
    BY <1>1, <2>1, <2>2, <2>3, <2>4 DEF TypedInv, Typed, TypeOK, Busy
<1>5. QED
  BY <1>2, <1>3, <1>4

LEMMA ChangeTyped ==
    ASSUME TypedInv, UNCHANGED setting, NEW t \in Threads, Busy(t), NEW d \in Data, Stamp,
           Change(op[t].key, Stamped(d)), Settle(t, "done"), UNCHANGED history,
           uploads' \in 0 .. MaxWrites
    PROVE  TypedInv'
<1>1. Typed /\ op[t].key \in Keys
  BY OpFields DEF TypedInv
<1>2. Stamped(d) \in Object /\ now' \in 0 .. MaxTime
  BY <1>1, StampedObject
<1>3. BucketTyped'
  BY <1>1, <1>2, ChangeFields DEF BucketTyped, Typed, TypeOK, history
<1>4. QED
  BY <1>3, EndTyped

LEMMA LandTyped ==
    ASSUME TypedInv, UNCHANGED setting, NEW t \in Threads,
           \/ UploadLands(t) \/ DeleteLands(t) \/ CopyLands(t) \/ MoveLands(t) \/ RestoreLands(t)
    PROVE  TypedInv'
<1> DEFINE o == op[t]
<1>1. Typed /\ Busy(t) /\ o.key \in Keys /\ o.from \in Keys
  BY OpFields DEF TypedInv, UploadLands, DeleteLands, CopyLands, MoveLands, RestoreLands, Busy
<1>2. CASE UploadLands(t)
  <2>1. uploads' \in Data /\ uploads' \in 0 .. MaxWrites
    BY <1>1, <1>2, BoundsAssumption DEF UploadLands, Typed, TypeOK, Data
  <2>2. QED
    BY <1>1, <1>2, <2>1, ChangeTyped DEF UploadLands
<1>3. CASE DeleteLands(t)
  <2>1. live' \in [Keys -> Object \cup {None}] /\ prior' \in [Keys -> Object \cup {None}]
    BY <1>1, <1>3, ChangeFields DEF DeleteLands, Typed, TypeOK
  <2>2. BucketTyped'
    BY <1>1, <1>3, <2>1 DEF DeleteLands, BucketTyped, Typed, TypeOK, history
  <2>3. QED
    BY <1>3, <2>2, EndTyped DEF DeleteLands
<1>4. CASE CopyLands(t)
  <2>1. CASE live[o.from] = None
    BY <1>1, <1>4, <2>1, AbandonTyped DEF CopyLands
  <2>2. CASE live[o.from] # None
    <3>1. live[o.from].data \in Data /\ uploads \in 0 .. MaxWrites
      BY <1>1, <2>2 DEF Typed, TypeOK, Object
    <3>2. QED
      BY <1>1, <1>4, <2>2, <3>1, ChangeTyped DEF CopyLands
  <2>3. QED
    BY <2>1, <2>2
<1>5. CASE MoveLands(t)
  <2> DEFINE object == live[o.from]
             moved == IF KeepsTime THEN object ELSE Stamped(object.data)
  <2>1. CASE o.from = o.key \/ object = None
    <3>1. Abandon(t, "done") \/ Abandon(t, "failed")
      BY <1>5, <2>1 DEF MoveLands
    <3>2. QED
      BY <1>1, <3>1, AbandonTyped
  <2>2. CASE o.from # o.key /\ object # None
    <3>1. /\ IF KeepsTime THEN UNCHANGED now ELSE Stamp
          /\ live' = [live EXCEPT ![o.from] = None, ![o.key] = moved]
          /\ prior' = [prior EXCEPT ![o.from] = None, ![o.key] = live[o.key]]
          /\ Settle(t, "done") /\ UNCHANGED <<history, uploads>>
      BY <1>5, <2>2 DEF MoveLands
    <3>2. object \in Object /\ object.data \in Data /\ live[o.key] \in Object \cup {None}
      BY <1>1, <2>2 DEF Typed, TypeOK, Object, None
    <3>3. moved \in Object /\ now' \in 0 .. MaxTime
      <4>1. CASE KeepsTime
        BY <1>1, <3>1, <3>2, <4>1 DEF Typed, TypeOK
      <4>2. CASE ~KeepsTime
        BY <1>1, <3>1, <3>2, <4>2, StampedObject
      <4>3. QED
        BY <4>1, <4>2
    <3> HIDE DEF moved
    <3>4. BucketTyped'
      BY <1>1, <3>1, <3>2, <3>3 DEF BucketTyped, Typed, TypeOK, history
    <3>5. QED
      BY <3>1, <3>4, EndTyped
  <2>3. QED
    BY <2>1, <2>2
<1>6. CASE RestoreLands(t)
  <2>1. CASE Abandon(t, "missing")
    BY <1>1, <2>1, AbandonTyped
  <2>2. ASSUME NEW s \in Stored(o.key, o.id), Stamp, Change(o.key, Stamped(s.data)),
               Settle(t, "done"), UNCHANGED <<history, uploads>>
        PROVE  TypedInv'
    <3>1. s.data \in Data /\ uploads \in 0 .. MaxWrites
      BY <1>1 DEF Stored, Typed, TypeOK, Snapshot
    <3>2. QED
      BY <1>1, <2>2, <3>1, ChangeTyped
  <2>3. QED
    BY <1>6, <2>1, <2>2 DEF RestoreLands
<1>7. QED
  BY <1>2, <1>3, <1>4, <1>5, <1>6

\* The types hold whatever callers, adapters and failures do, without any discipline:
\* in particular a snapshot's id always comes from an object that head has seen.
THEOREM VersioningTyped == Spec => []TypeOK
<1>1. Init => TypedInv
  BY BoundsAssumption DEF Init, TypedInv, Typed, TypeOK, Busy
<1>2. ASSUME TypedInv, [Next]_vars PROVE TypedInv'
  <2>1. CASE UNCHANGED vars
    BY <1>2, <2>1 DEF vars, bucket, history, TypedInv, Typed, TypeOK, Busy
  <2>2. ASSUME NEW t \in Threads, Step(t), UNCHANGED setting PROVE TypedInv'
    <3>1. CASE Fail(t)
      BY <1>2, <2>2, <3>1, AbandonTyped DEF Fail, Busy
    <3>2. QED
      BY <1>2, <2>2, <3>1, BeginTyped, GoOnTyped, HistoryTyped, LandTyped DEF Step
  <2>3. QED
    BY <1>2, <2>1, <2>2 DEF Next
<1>3. TypedInv => TypeOK
  BY DEF TypedInv, Typed
<1>4. QED
  BY <1>1, <1>2, <1>3, PTL DEF Spec


(***************************************************************************)
(* restore(key) is an undo.                                                *)
(*                                                                         *)
(* What the last change of a key replaced is as new as the newest versions *)
(* of the key, until the next change saves what is there by then; and an   *)
(* undo keeps to the version it picked.                                    *)
(***************************************************************************)
Past == {"prune", "delete", "write"}

\* Some operation has saved the object at k, to replace it.
Replacing(k) == live[k] # None /\ \E t \in Threads : pc[t] \in Past /\ op[t].key = k

\* Of the versions vs none is newer than the object was, some is as new, and one that
\* has its id holds its data.
NewestHolds(g, vs, was) ==
    /\ \A x \in vs : x.time <= was.time
    /\ \E x \in vs : x.time = was.time
    /\ \A x \in vs : SameId(Snap(g, was), x) => x.data = was.data

PriorIsNewest ==
    \A k \in Keys :
        prior[k] = None \/ Replacing(k) \/ NewestHolds(setting, versions[k], prior[k])

\* An undo that has picked a version.
Undoing(t) == pc[t] \notin {"idle", "newest"} /\ op[t].kind = "undo"

\* The version picked is of the time of the object was; if it has its id it holds its
\* data, until the object obj of the same id is saved over it.
KnowsPrior(g, id, vs, was, obj) ==
    \/ was = None
    \/ /\ id.time = was.time
       /\ \A x \in vs : SameId(x, id) =>
             \/ x.data = was.data \/ ~SameId(id, Snap(g, was))
             \/ obj # None /\ SameId(id, Snap(g, obj))

UndoKnows(t) ==
    KnowsPrior(setting, op[t].id, versions[op[t].key], prior[op[t].key], live[op[t].key])

UndoKnowsPrior == \A t \in Threads : Undoing(t) => UndoKnows(t)

UndoInv == PriorIsNewest /\ UndoKnowsPrior

\* A step of t that keeps the other operations and their keys' prior data keeps what
\* undo relies on, if it does so at its own keys.
LEMMA UndoFrame ==
    ASSUME IInv, UNCHANGED setting, UndoInv, NEW t \in Threads, Busy(t),
           \A u \in Threads \ {t} : pc'[u] = pc[u] /\ op'[u] = op[u],
           \A k \in Keys \ Uses(op[t]) : prior'[k] = prior[k],
           \A k \in Keys \ {op[t].key} :
               /\ versions'[k] = versions[k]
               /\ prior'[k] = None \/ (prior'[k] = prior[k] /\ live'[k] = live[k]),
           \A k \in Keys : k = op[t].key =>
               prior'[k] = None \/ Replacing(k)'
               \/ NewestHolds(setting, versions'[k], prior'[k]),
           Undoing(t)' => UndoKnows(t)'
    PROVE  UndoInv'
<1>1. ASSUME NEW k \in Keys
      PROVE  prior'[k] = None \/ Replacing(k)' \/ NewestHolds(setting, versions'[k], prior'[k])
  <2>1. CASE k = op[t].key \/ prior'[k] = None
    BY <2>1
  <2>2. CASE k # op[t].key /\ prior'[k] = prior[k] /\ live'[k] = live[k]
    <3>1. CASE Replacing(k)
      <4>1. PICK u \in Threads : op[u].key = k /\ pc[u] \in Past
        BY <3>1 DEF Replacing
      <4>2. op'[u].key = k /\ pc'[u] \in Past /\ live'[k] # None
        BY <2>2, <3>1, <4>1 DEF Replacing
      <4>3. QED
        BY <4>2 DEF Replacing
    <3>2. CASE ~Replacing(k)
      BY <2>2, <3>2 DEF UndoInv, PriorIsNewest
    <3>3. QED
      BY <3>1, <3>2
  <2>3. QED
    BY <2>1, <2>2
<1>2. PriorIsNewest'
  BY <1>1 DEF PriorIsNewest
<1>3. ASSUME NEW u \in Threads, Undoing(u)', u # t
      PROVE  UndoKnows(u)'
  <2>1. pc'[u] = pc[u] /\ op'[u] = op[u] /\ Undoing(u) /\ Busy(u)
    BY <1>3 DEF Undoing, Busy
  <2>2. op[u].key \in Keys \ Uses(op[t])
    BY <1>3, <2>1, OpFields DEF IInv, Separated, Uses
  <2>3. UndoKnows(u) /\ op[u].key # op[t].key
    BY <2>1, <2>2 DEF UndoInv, UndoKnowsPrior, Uses
  <2>4. QED
    BY <2>1, <2>2, <2>3 DEF UndoKnows, KnowsPrior
<1>4. UndoKnowsPrior'
  BY <1>3 DEF UndoKnowsPrior
<1>5. QED
  BY <1>2, <1>4 DEF UndoInv

\* A begun operation has saved nothing and picked nothing.
LEMMA BeginKeepsUndo ==
    ASSUME IInv, UNCHANGED setting, UndoInv, NEW t \in Threads, BeginWrite(t) \/ BeginRestore(t)
    PROVE  UndoInv'
<1>1. PICK o \in Op, p \in {"head", "exists", "newest"} :
          Start(t, o) /\ Goto(t, p) /\ (p # "newest" => o.kind # "undo")
  BY Begins DEF IInv
<1>2. /\ pc[t] = "idle" /\ pc' = [pc EXCEPT ![t] = p] /\ op' = [op EXCEPT ![t] = o]
      /\ UNCHANGED bucket
  BY <1>1 DEF Start, Goto
<1>3. /\ \A u \in Threads : u # t => pc'[u] = pc[u] /\ op'[u] = op[u]
      /\ pc'[t] = p /\ op'[t] = o
  BY <1>2 DEF IInv, Typed, TypeOK
<1>4. \A k \in Keys : Replacing(k) => Replacing(k)'
  BY <1>2, <1>3 DEF Replacing, Past, bucket
<1>5. PriorIsNewest'
  BY <1>2, <1>4 DEF UndoInv, PriorIsNewest, bucket, history
<1>6. \A u \in Threads : Undoing(u)' => Undoing(u) /\ op'[u] = op[u]
  BY <1>1, <1>3 DEF Undoing
<1>7. UndoKnowsPrior'
  BY <1>2, <1>6 DEF UndoInv, UndoKnowsPrior, UndoKnows, bucket, history
<1>8. QED
  BY <1>5, <1>7 DEF UndoInv

\* A step that settles t, where nothing changed.
LEMMA SettleKeepsUndo ==
    ASSUME IInv, UNCHANGED setting, UndoInv, NEW t \in Threads, Busy(t),
           NEW how \in {"none", "done", "failed", "missing"}, Settle(t, how),
           UNCHANGED <<live, versions>>,
           \A k \in Keys \ {op[t].key} : prior'[k] = prior[k],
           \/ prior'[op[t].key] = None
           \/ prior'[op[t].key] = prior[op[t].key] /\ (pc[t] \in Past => live[op[t].key] = None)
    PROVE  UndoInv'
<1>0. PICK key : key = op[t].key
  OBVIOUS
<1> USE <1>0
<1>1. Typed /\ key \in Keys
  BY OpFields DEF IInv
<1>2. /\ \A u \in Threads \ {t} : pc'[u] = pc[u] /\ op'[u] = op[u]
      /\ pc'[t] = "idle"
  BY <1>1, SettleTyped DEF Typed, TypeOK
<1>3. Replacing(key) => Replacing(key)' \/ (pc[t] \in Past /\ live[key] # None)
  BY <1>2 DEF Replacing
<1>4. prior'[key] = None \/ Replacing(key)' \/ NewestHolds(setting, versions'[key], prior'[key])
  BY <1>1, <1>3 DEF UndoInv, PriorIsNewest
<1>5. ~Undoing(t)'
  BY <1>2 DEF Undoing
<1>6. \A k \in Keys \ Uses(op[t]) : prior'[k] = prior[k]
  BY DEF Uses
<1>7. QED
  BY <1>2, <1>4, <1>5, <1>6, UndoFrame

LEMMA AbandonKeepsUndo ==
    ASSUME IInv, UNCHANGED setting, UndoInv, NEW t \in Threads, Busy(t),
           NEW how \in {"none", "done", "failed", "missing"}, Abandon(t, how)
    PROVE  UndoInv'
<1>1. op[t].key \in Keys /\ prior \in [Keys -> Object \cup {None}]
  BY OpFields DEF IInv, Typed, TypeOK
<1>2. /\ Settle(t, how) /\ UNCHANGED <<live, versions>>
      /\ \A k \in Keys \ {op[t].key} : prior'[k] = prior[k]
      /\ \/ prior'[op[t].key] = None
         \/ prior'[op[t].key] = prior[op[t].key] /\ pc[t] \notin Past
  BY <1>1 DEF Abandon, Past, history
<1>3. QED
  BY <1>2, SettleKeepsUndo

\* A newest version is as new as what the last change replaced.
LEMMA NewestKnows ==
    ASSUME IInv, NEW k \in Keys, prior[k] # None, NEW s \in versions[k],
           \A x \in versions[k] : x.time <= s.time, NewestHolds(setting, versions[k], prior[k])
    PROVE  KnowsPrior(setting, s, versions[k], prior[k], live[k])
<1>1. PICK x \in versions[k] : x.time = prior[k].time
  BY DEF NewestHolds
<1>2. s \in Snapshot /\ prior[k] \in Object
  BY DEF IInv, Typed, TypeOK
<1>3. s.time \in Int /\ prior[k].time \in Int
  BY <1>2 DEF Snapshot, Object
<1>4. s.time <= prior[k].time /\ prior[k].time <= s.time
  BY <1>1 DEF NewestHolds
<1>5. s.time = prior[k].time
  BY <1>3, <1>4
<1>6. ASSUME NEW y \in versions[k], SameId(y, s), SameId(s, Snap(setting, prior[k]))
      PROVE  y.data = prior[k].data
  <2>1. SameId(Snap(setting, prior[k]), y)
    BY <1>6 DEF SameId
  <2>2. QED
    BY <2>1 DEF NewestHolds
<1>7. QED
  BY <1>5, <1>6 DEF KnowsPrior

LEMMA GoOnKeepsUndo ==
    ASSUME IInv, UNCHANGED setting, UndoInv, NEW t \in Threads,
           PickNewest(t) \/ CheckExists(t) \/ HeadObject(t) \/ ListVersions(t)
    PROVE  UndoInv'
<1>0. PICK key : key = op[t].key
  OBVIOUS
<1> USE <1>0
<1>1. Typed /\ Busy(t) /\ key \in Keys /\ op[t] \in Op /\ UNCHANGED bucket
  BY OpFields DEF IInv, PickNewest, CheckExists, HeadObject, ListVersions, Busy
<1>2. CASE Settle(t, "failed") /\ pc[t] \notin Past
  BY <1>1, <1>2, SettleKeepsUndo DEF bucket, history
<1>3. ASSUME NEW p \in {"exists", "head", "write", "save", "delete"}, NEW o \in Op,
             pc' = [pc EXCEPT ![t] = p], op' = [op EXCEPT ![t] = o],
             Uses(o) = Uses(op[t]), o.key = key,
             pc[t] \in Past => p \in Past,
             o.kind = "undo" => KnowsPrior(setting, o.id, versions[key], prior[key], live[key])
      PROVE  UndoInv'
  <2>1. /\ \A u \in Threads \ {t} : pc'[u] = pc[u] /\ op'[u] = op[u]
        /\ pc'[t] = p /\ op'[t] = o
    BY <1>1, <1>3 DEF Typed, TypeOK
  <2>2. \A u \in Threads : pc[u] \in Past => pc'[u] \in Past /\ op'[u].key = op[u].key
    BY <1>3, <2>1
  <2>3. Replacing(key) => Replacing(key)'
    BY <1>1, <2>2 DEF Replacing, bucket
  <2>4. prior'[key] = None \/ Replacing(key)'
        \/ NewestHolds(setting, versions'[key], prior'[key])
    BY <1>1, <2>3 DEF UndoInv, PriorIsNewest, bucket, history
  <2>5. Undoing(t)' => UndoKnows(t)'
    BY <1>1, <1>3, <2>1 DEF Undoing, UndoKnows, bucket, history
  <2>6. \A k \in Keys : live'[k] = live[k] /\ versions'[k] = versions[k] /\ prior'[k] = prior[k]
    BY <1>1 DEF bucket, history
  <2>7. QED
    BY <1>1, <2>1, <2>4, <2>5, <2>6, UndoFrame
<1>4. CASE PickNewest(t) /\ versions[key] # {}
  <2>1. PICK s \in versions[key] : /\ \A x \in versions[key] : x.time <= s.time
                                   /\ op' = [op EXCEPT ![t].id = s]
    BY <1>4 DEF PickNewest
  <2>2. pc' = [pc EXCEPT ![t] = "exists"] /\ pc[t] = "newest"
    BY <1>4 DEF PickNewest, Goto
  <2>3. s \in Snapshot
    BY <1>1 DEF Typed, TypeOK
  <2>4. PICK o : o = [op[t] EXCEPT !.id = s]
    OBVIOUS
  <2>5. o \in Op /\ o.key = key /\ o.from = op[t].from /\ o.id = s
    BY <1>1, <2>3, <2>4 DEF Op
  <2>6. op' = [op EXCEPT ![t] = o]
    BY <1>1, <2>1, <2>4 DEF Typed, TypeOK
  <2>7. ~Replacing(key)
    <3> SUFFICES ASSUME NEW u \in Threads, op[u].key = key, pc[u] \in Past
                 PROVE  FALSE
      BY DEF Replacing
    <3>1. u # t /\ Busy(u)
      BY <2>2 DEF Past, Busy
    <3>2. QED
      BY <1>1, <3>1 DEF IInv, Separated, Uses
  <2>8. KnowsPrior(setting, s, versions[key], prior[key], live[key])
    <3>1. CASE prior[key] = None
      BY <3>1 DEF KnowsPrior
    <3>2. CASE prior[key] # None
      BY <1>1, <2>1, <2>7, <3>2, NewestKnows DEF UndoInv, PriorIsNewest
    <3>3. QED
      BY <3>1, <3>2
  <2>9. Uses(o) = Uses(op[t])
    BY <2>5 DEF Uses
  <2>10. QED
    BY <1>3, <2>2, <2>5, <2>6, <2>8, <2>9 DEF Past
<1>5. ASSUME NEW p \in {"head", "write", "save", "delete"}, pc' = [pc EXCEPT ![t] = p],
             UNCHANGED op,
             pc[t] \in Past => p \in Past, pc[t] # "newest"
      PROVE  UndoInv'
  <2>1. op' = [op EXCEPT ![t] = op[t]]
    BY <1>1, <1>5 DEF Typed, TypeOK
  <2>2. op[t].kind = "undo" =>
          KnowsPrior(setting, op[t].id, versions[key], prior[key], live[key])
    BY <1>1, <1>5 DEF UndoInv, UndoKnowsPrior, UndoKnows, Undoing, Busy
  <2>3. QED
    BY <1>1, <1>3, <1>5, <2>1, <2>2
<1>6. CASE CheckExists(t) \/ HeadObject(t) \/ ListVersions(t)
  <2>1. CASE Settle(t, "failed") /\ CheckExists(t)
    BY <1>2, <2>1 DEF CheckExists, Past
  <2>2. CASE CheckExists(t) /\ ~Settle(t, "failed")
    BY <1>5, <2>2 DEF CheckExists, Goto, Past
  <2>3. CASE HeadObject(t)
    BY <1>5, <2>3 DEF HeadObject, Goto, Past
  <2>4. CASE ListVersions(t)
    BY <1>5, <2>4 DEF ListVersions, Goto, Past
  <2>5. QED
    BY <1>6, <2>1, <2>2, <2>3, <2>4
<1>7. CASE PickNewest(t) /\ versions[key] = {}
  BY <1>2, <1>7 DEF PickNewest, Past
<1>8. QED
  BY <1>4, <1>6, <1>7

\* From its save to its write the key is being replaced, whatever prune deletes; only
\* the snapshot of an object with its id changes the version an undo picked.
LEMMA HistoryKeepsUndo ==
    ASSUME IInv, UNCHANGED setting, UndoInv, NEW t \in Threads, Save(t) \/ DeleteVersion(t)
    PROVE  UndoInv'
<1>0. PICK key : key = op[t].key
  OBVIOUS
<1> USE <1>0
<1>1. Typed /\ Busy(t) /\ key \in Keys /\ UNCHANGED <<live, prior>> /\ live[key] # None
  BY OpFields DEF IInv, SavingAll, SavingOf, Saving, Save, DeleteVersion, Busy
<1>2. UNCHANGED op
  BY <1>1 DEF Save, DeleteVersion
<1>3. \A k \in Keys : k # key => versions'[k] = versions[k]
  BY <1>1 DEF Save, DeleteVersion, history, Typed, TypeOK
<1>4. /\ \A u \in Threads \ {t} : pc'[u] = pc[u]
      /\ pc'[t] \in Past /\ pc[t] \notin {"idle", "newest"}
  BY <1>1 DEF Save, DeleteVersion, Goto, Past, Typed, TypeOK
<1>5. Replacing(key)'
  BY <1>1, <1>2, <1>4 DEF Replacing
<1>6. Undoing(t)' => UndoKnows(t)'
  <2> SUFFICES ASSUME Undoing(t)' PROVE UndoKnows(t)'
    OBVIOUS
  <2>1. UndoKnows(t)
    BY <1>2, <1>4 DEF UndoInv, UndoKnowsPrior, Undoing
  <2>2. ASSUME NEW x \in versions'[key]
        PROVE  x \in versions[key] \/ SameId(Snap(setting, live[key]), x)
    <3>1. CASE Save(t)
      <4> DEFINE s == Snap(setting, live[key])
      <4>1. versions' = [versions EXCEPT ![key] = (@ \ Stored(key, s)) \cup {s}]
        BY <1>1, <3>1, SaveStores DEF Save
      <4> HIDE DEF s
      <4>2. x \in versions[key] \/ x = s
        BY <1>1, <2>2, <4>1 DEF Typed, TypeOK
      <4>3. QED
        BY <4>2 DEF SameId, s
    <3>2. CASE DeleteVersion(t)
      BY <1>1, <2>2, <3>2 DEF DeleteVersion, history, Typed, TypeOK
    <3>3. QED
      BY <3>1, <3>2
  <2>3. \A x \in versions'[key] : SameId(x, op[t].id) =>
          x \in versions[key] \/ SameId(op[t].id, Snap(setting, live[key]))
    BY <2>2 DEF SameId
  <2>4. QED
    BY <1>1, <1>2, <2>1, <2>3 DEF UndoKnows, KnowsPrior
<1>7. QED
  BY <1>1, <1>2, <1>3, <1>4, <1>5, <1>6, UndoFrame

\* A landing write saved what it replaces, and nothing at the key is newer.
LEMMA LandKeepsUndo ==
    ASSUME IInv, UNCHANGED setting, UndoInv, ~KeepsTime, NEW t \in Threads, pc[t] = "write",
           Settle(t, "done"),
           UNCHANGED versions,
           prior'[op[t].key] = live[op[t].key],
           \A k \in Keys \ Uses(op[t]) : prior'[k] = prior[k],
           \A k \in Keys \ {op[t].key} :
               prior'[k] = None \/ (prior'[k] = prior[k] /\ live'[k] = live[k])
    PROVE  UndoInv'
<1>0. PICK key : key = op[t].key
  OBVIOUS
<1> USE <1>0
<1>1. Typed /\ Busy(t) /\ key \in Keys
  BY OpFields DEF IInv, Busy
<1>2. /\ \A u \in Threads \ {t} : pc'[u] = pc[u] /\ op'[u] = op[u]
      /\ pc'[t] = "idle"
  BY <1>1, SettleTyped DEF Typed, TypeOK
<1>3. ~Undoing(t)'
  BY <1>2 DEF Undoing
<1>4. CASE live[key] = None
  BY <1>1, <1>2, <1>3, <1>4, UndoFrame
<1>5. CASE live[key] # None
  <2> DEFINE s == Snap(setting, live[key])
  <2>1. /\ s \in versions[key] \/ Crowded(setting, {}, live[key], versions[key])
        /\ \A x \in versions[key] : SameId(s, x) => x.data = live[key].data
    BY <1>1, <1>5 DEF IInv, SavingAll, SavingOf, Saving
  <2>2. \A x \in versions[key] : x.time <= live[key].time
    BY <1>1, <1>5 DEF IInv, LiveIsNewest
  <2>3. \E x \in versions[key] : x.time = live[key].time
    <3>1. CASE s \in versions[key]
      BY <3>1, SnapFields
    <3>2. CASE Crowded(setting, {}, live[key], versions[key])
      <4> DEFINE A == Ahead(setting, {}, live[key], versions[key])
      <4>1. setting.limit \in Nat /\ setting.limit # 0 /\ Cardinality(A) >= setting.limit
        BY <1>1, <3>2, SettingFields DEF Crowded
      <4>2. A # {}
        <5> HIDE DEF A
        <5>1. ASSUME A = {} PROVE FALSE
          <6>1. Cardinality(A) = 0
            BY <5>1, FS_EmptySet
          <6>2. QED
            BY <4>1, <6>1
        <5>2. QED
          BY <5>1
      <4>3. QED
        BY <4>2 DEF Ahead
    <3>3. QED
      BY <2>1, <3>1, <3>2
  <2>4. NewestHolds(setting, versions'[key], prior'[key])
    BY <2>1, <2>2, <2>3 DEF NewestHolds
  <2>5. QED
    BY <1>1, <1>2, <1>3, <2>4, UndoFrame
<1>6. QED
  BY <1>4, <1>5

LEMMA WriteKeepsUndo ==
    ASSUME IInv, UNCHANGED setting, UndoInv, ~KeepsTime, NEW t \in Threads,
           \/ UploadLands(t) \/ DeleteLands(t) \/ CopyLands(t) \/ MoveLands(t) \/ RestoreLands(t)
    PROVE  UndoInv'
<1> DEFINE o == op[t]
<1>1. Typed /\ Busy(t) /\ pc[t] = "write" /\ o.key \in Keys /\ o.from \in Keys
  BY OpFields DEF IInv, UploadLands, DeleteLands, CopyLands, MoveLands, RestoreLands, Busy
<1>2. /\ live \in [Keys -> Object \cup {None}] /\ prior \in [Keys -> Object \cup {None}]
  BY <1>1 DEF Typed, TypeOK
<1>3. ASSUME NEW how \in {"done", "failed", "missing"}, Abandon(t, how)
      PROVE  UndoInv'
  BY <1>1, <1>3, AbandonKeepsUndo
<1>4. ASSUME NEW object, Change(o.key, object), Settle(t, "done"), UNCHANGED history
      PROVE  UndoInv'
  <2>1. /\ prior'[o.key] = live[o.key]
        /\ \A k \in Keys : k # o.key => live'[k] = live[k] /\ prior'[k] = prior[k]
    BY <1>1, <1>2, <1>4 DEF Change
  <2>2. QED
    BY <1>1, <1>4, <2>1, LandKeepsUndo DEF history, Uses
<1>5. CASE UploadLands(t)
  BY <1>4, <1>5 DEF UploadLands
<1>6. CASE DeleteLands(t)
  <2>1. CASE live[o.key] = None
    BY <1>1, <1>6, <2>1, SettleKeepsUndo DEF DeleteLands, history
  <2>2. CASE live[o.key] # None
    BY <1>4, <1>6, <2>2 DEF DeleteLands
  <2>3. QED
    BY <2>1, <2>2
<1>7. CASE CopyLands(t)
  BY <1>3, <1>4, <1>7 DEF CopyLands
<1>8. CASE MoveLands(t)
  <2>1. CASE o.from = o.key \/ live[o.from] = None
    <3>1. Abandon(t, "done") \/ Abandon(t, "failed")
      BY <1>8, <2>1 DEF MoveLands
    <3>2. QED
      BY <1>3, <3>1
  <2>2. CASE o.from # o.key /\ live[o.from] # None
    <3>1. PICK moved :
            /\ live' = [live EXCEPT ![o.from] = None, ![o.key] = moved]
            /\ prior' = [prior EXCEPT ![o.from] = None, ![o.key] = live[o.key]]
            /\ Settle(t, "done") /\ UNCHANGED history
      BY <1>8, <2>2 DEF MoveLands
    <3>2. /\ prior'[o.key] = live[o.key] /\ prior'[o.from] = None
          /\ \A k \in Keys : k \notin {o.key, o.from} =>
                live'[k] = live[k] /\ prior'[k] = prior[k]
      BY <1>1, <1>2, <2>2, <3>1
    <3>3. \A k \in Keys \ Uses(o) : prior'[k] = prior[k]
      BY <3>2 DEF Uses
    <3>4. QED
      BY <1>1, <3>1, <3>2, <3>3, LandKeepsUndo DEF history
  <2>3. QED
    BY <2>1, <2>2
<1>9. CASE RestoreLands(t)
  BY <1>3, <1>4, <1>9 DEF RestoreLands
<1>10. QED
  BY <1>5, <1>6, <1>7, <1>8, <1>9

LEMMA StepKeepsUndo ==
    ASSUME IInv, UndoInv, ~KeepsTime, [Next]_vars
    PROVE  UndoInv'
<1>1. CASE UNCHANGED vars
  BY <1>1 DEF vars, bucket, history, UndoInv, PriorIsNewest, UndoKnowsPrior, UndoKnows,
              Undoing, Replacing
<1>2. ASSUME NEW t \in Threads, Step(t), UNCHANGED setting PROVE UndoInv'
  <2>1. CASE Fail(t)
    BY <1>2, <2>1, AbandonKeepsUndo DEF Fail, Busy
  <2>2. QED
    BY <1>2, <2>1, BeginKeepsUndo, GoOnKeepsUndo, HistoryKeepsUndo, WriteKeepsUndo DEF Step
<1>3. QED
  BY <1>1, <1>2 DEF Next

\* An undo copies the version it picked, of the time of what the last change replaced.
LEMMA UndoLands ==
    ASSUME IInv, UndoInv, NEW t \in Threads, op[t].kind = "undo", RestoreLands(t),
           outcome'[t] = "done"
    PROVE  LET k == op[t].key
               was == prior[k]
           IN  \/ was = None
               \/ live'[k].data = was.data
               \/ op[t].id.time = was.time /\ ~SameId(op[t].id, SnapshotOf(was))
               \/ live[k] # None /\ SameId(op[t].id, SnapshotOf(live[k]))
<1> DEFINE k == op[t].key
<1>1. Typed /\ Busy(t) /\ k \in Keys /\ Undoing(t)
  BY OpFields DEF IInv, RestoreLands, Busy, Undoing
<1>2. ~Abandon(t, "missing")
  BY <1>1 DEF Abandon, Settle, Typed, TypeOK
<1>3. PICK s \in Stored(k, op[t].id) : Change(k, Stamped(s.data))
  BY <1>2 DEF RestoreLands
<1>4. live'[k].data = s.data
  BY <1>1, <1>3 DEF Change, Stamped, Typed, TypeOK
<1>5. KnowsPrior(setting, op[t].id, versions[k], prior[k], live[k])
  BY <1>1 DEF UndoInv, UndoKnowsPrior, UndoKnows
<1>6. s \in versions[k] /\ SameId(s, op[t].id)
  BY DEF Stored
<1>7. QED
  BY <1>4, <1>5, <1>6, SnapFields DEF KnowsPrior

\* restore(key) brings back what the last change of the key replaced, for any limit and
\* ETags and whatever was undone, pruned or failed before, if changes of a key do not
\* overlap and moves stamp what they move. Where the versions of one tick are several it
\* may pick another of these, or save the object it replaces over the one it picked.
THEOREM UndoRestoresPrior ==
    ASSUME ~Overlap, ~KeepsTime
    PROVE  Spec => UndoBringsBackPrior
<1>1. Init => UndoInv
  BY DEF Init, UndoInv, PriorIsNewest, UndoKnowsPrior, Undoing
<1>2. IInv /\ UndoInv /\ [Next]_vars => UndoInv'
  BY StepKeepsUndo
<1>3. IInv /\ UndoInv /\ [Next]_vars =>
        [\A t \in Threads : op[t].kind = "undo" /\ RestoreLands(t) /\ outcome'[t] = "done"
           => LET k == op[t].key
                  was == prior[k]
              IN  \/ was = None
                  \/ live'[k].data = was.data
                  \/ op[t].id.time = was.time /\ ~SameId(op[t].id, SnapshotOf(was))
                  \/ live[k] # None /\ SameId(op[t].id, SnapshotOf(live[k]))]_vars
  BY UndoLands
<1>4. Spec => []IInv
  BY Inductive DEF Disciplined
<1>5. QED
  BY <1>1, <1>2, <1>3, <1>4, PTL DEF Spec, UndoBringsBackPrior
=============================================================================
