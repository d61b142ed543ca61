-------------------------------- MODULE Sync --------------------------------
(***************************************************************************)
(* sync (internal/sync.ts): walk both buckets, upload what is new or       *)
(* changed, then delete what the source no longer has. And transfer        *)
(* (internal/transfer.ts), which walks the source alone, copies every key  *)
(* or those the destination does not have, and deletes nothing. Other      *)
(* writers change the source meanwhile, calls fail, and the process may    *)
(* stop at any point and run again.                                        *)
(*                                                                         *)
(* Keys are numbers in listing order. Contents are numbers too: 0 is no    *)
(* object, 1 what only the destination holds, and each change of the       *)
(* source writes a higher one.                                             *)
(***************************************************************************)
EXTENDS BulkPool, FiniteSets

CONSTANTS
    TransformKey,  \* the caller's mapping of source to destination keys
    MaxEdits,      \* bound: changes of the source
    MaxRuns        \* bound: calls of sync

ASSUME TransformAssumption ==
    /\ Items = Slots
    /\ TransformKey \in [Items -> Items]
    /\ \A j, k \in Items : TransformKey[j] = TransformKey[k] => j = k
ASSUME BoundsAssumption == MaxEdits \in Nat /\ MaxRuns \in Nat

VARIABLES
    source, dest,  \* the content at each key
    latest,        \* the highest content the source has held
    phase,
    options,       \* how to compare, prune and stopOnError, the same for every call
    dryRun,        \* option of this call
    aborted,       \* its signal has aborted
    cursor,        \* the last key the walk under way has listed
    walked,        \* the source walk's contents
    indexed,       \* the destination walk's
    skipped,       \* keys found up to date
    stream,        \* the content each worker is passing on; Vacant or 0 before its download
    late,          \* requests that go on though their calls have rejected
    done,          \* progress reported
    result,
    runs,
    quiet          \* nothing but this call has changed a bucket since it began

buckets == <<source, dest, latest, late, quiet>>
plan == <<dryRun, walked, indexed>>
progress == <<skipped, done, result>>
vars == <<options, poolVars, buckets, plan, progress, phase, aborted, cursor, stream, runs>>

Keys == Items
Contents == 0 .. (2 + MaxEdits)
Nothing == [k \in Keys |-> 0]
NoResult == [status |-> "none"]

\* A transfer either overwrites or asks for every key whether it is there.
Compare == {"etag", "size", "overwrite", "exists"}
Options == {o \in [compare : Compare, prune : BOOLEAN, stop : BOOLEAN] :
               o.compare \in {"overwrite", "exists"} => ~o.prune}
IsTransfer == options.compare \in {"overwrite", "exists"}

\* exists() has said that the key is not there.
Vacant == -1

\* The keys it lists; what failed is told apart by phase.
Failure == [in : {"upload", "prune"}, key : Keys]
Results ==
    [status : {"running", "ok"}, uploaded : SUBSET Keys, deleted : SUBSET Keys,
     errors : SUBSET Failure]
        \cup [status : {"none", "rejected", "plan"}]

TypeOK ==
    /\ PoolTypeOK
    /\ source \in [Keys -> Contents] /\ dest \in [Keys -> Contents]
    /\ latest \in Contents
    /\ phase \in {"idle", "walkSource", "walkDest", "upload", "prune"}
    /\ options \in Options
    /\ dryRun \in BOOLEAN /\ aborted \in BOOLEAN
    /\ cursor \in Keys \cup {0}
    /\ walked \in [Keys -> Contents] /\ indexed \in [Keys -> Contents]
    /\ skipped \in SUBSET Keys
    /\ stream \in [Slots -> Contents \cup {Vacant}]
    /\ late \in SUBSET [key : Keys, content : Contents]
    /\ done \in Nat
    /\ result \in Results
    /\ runs \in 0 .. MaxRuns
    /\ quiet \in BOOLEAN

Init ==
    /\ PoolInit
    /\ source \in [Keys -> {0, 2}] /\ dest \in [Keys -> {0, 1, 2}]
    /\ latest = 2
    /\ phase = "idle"
    /\ options \in Options
    /\ dryRun = FALSE /\ aborted = FALSE
    /\ cursor = 0
    /\ walked = Nothing /\ indexed = Nothing
    /\ skipped = {}
    /\ stream = [w \in Slots |-> 0]
    /\ late = {}
    /\ done = 0
    /\ result = NoResult
    /\ runs = 0
    /\ quiet = FALSE

\* A set of keys as the list of them in listing order: the only element of this set.
InOrder(keys) ==
    {list \in [1 .. Cardinality(keys) -> keys] :
        /\ \A i, j \in 1 .. Cardinality(keys) : i < j => list[i] < list[j]
        /\ \A k \in keys : \E i \in 1 .. Cardinality(keys) : list[i] = k}

Sources == {k \in Keys : walked[k] # 0}
Wanted == {TransformKey[k] : k \in Sources}
Extraneous == {d \in Keys : indexed[d] # 0 /\ d \notin Wanted}

Total == Cardinality(Sources) + IF options.prune THEN Cardinality(Extraneous) ELSE 0

Size(c) == c % 2

\* Slip: the destination is asked for the source's key.
UnchangedUnmapped(k) ==
    ~IsTransfer /\ indexed[k] # 0 /\ IF options.compare = "size" THEN Size(walked[k]) = Size(indexed[k])
                      ELSE walked[k] = indexed[k]

\* compare. Etags are contents here: both sides use one scheme, and every object has one.
Unchanged(k) ==
    LET existing == indexed[TransformKey[k]]
    IN  ~IsTransfer /\ existing # 0 /\ IF options.compare = "size" THEN Size(walked[k]) = Size(existing)
                        ELSE walked[k] = existing

(***************************************************************************)
(* The rest of the world.                                                  *)
(***************************************************************************)


\* Someone writes an object of the source, or deletes it.
Edit(k) ==
    /\ latest < 2 + MaxEdits
    /\ latest' = latest + 1
    /\ \/ source' = [source EXCEPT ![k] = latest']
       \/ source[k] # 0 /\ source' = [source EXCEPT ![k] = 0]
    /\ quiet' = FALSE
    /\ UNCHANGED <<poolVars, dest, late, plan, progress, phase, aborted, cursor, stream, runs>>

\* A request that its caller has given up reaches the destination.
LateLands ==
    \E r \in late :
        /\ late' = late \ {r}
        /\ dest' = [dest EXCEPT ![r.key] = r.content]
        /\ quiet' = FALSE
        /\ UNCHANGED <<poolVars, source, latest, plan, progress, phase, aborted, cursor,
                       stream, runs>>

Abort ==
    /\ phase # "idle" /\ ~aborted
    /\ aborted' = TRUE
    /\ UNCHANGED <<poolVars, buckets, plan, progress, phase, cursor, stream, runs>>

(***************************************************************************)
(* One call. When it ends its local state goes.                            *)
(***************************************************************************)
Forget ==
    /\ phase' = "idle"
    /\ Call(<<>>, FALSE)
    /\ walked' = Nothing /\ indexed' = Nothing
    /\ skipped' = {}
    /\ stream' = [w \in Slots |-> 0]
    /\ cursor' = 0 /\ dryRun' = FALSE /\ aborted' = FALSE

Finish(r, reported) ==
    /\ Forget
    /\ result' = r
    /\ done' = reported
    /\ UNCHANGED <<buckets, runs>>

Start ==
    /\ phase = "idle" /\ runs < MaxRuns
    /\ runs' = runs + 1
    /\ phase' = "walkSource"
    /\ dryRun' \in BOOLEAN /\ (IsTransfer => ~dryRun')
    /\ result' = NoResult /\ done' = 0
    /\ quiet' = (late = {})
    /\ UNCHANGED <<poolVars, source, dest, latest, late, walked, indexed, skipped,
                   aborted, cursor, stream>>

Reject == Finish([status |-> "rejected"], 0)

\* A list call fails, or finds the signal aborted: the whole call rejects.
WalkFails == phase \in {"walkSource", "walkDest"} /\ Reject

\* What a paged walk finds beyond its cursor.
AtEnd(bucket) == \A k \in Keys : k > cursor => bucket[k] = 0
Page(bucket) == {k \in Keys : /\ k > cursor /\ bucket[k] # 0
                              /\ \A x \in Keys : x > cursor /\ bucket[x] # 0 => k <= x}

\* One page of the source walk, of one key: the next one that is there by now. After
\* the last one sync walks the destination.
ListSource ==
    /\ phase = "walkSource" /\ ~aborted
    /\ IF AtEnd(source) THEN ~IsTransfer /\ phase' = "walkDest" /\ cursor' = 0 /\ UNCHANGED walked
       ELSE \E k \in Page(source) : /\ walked' = [walked EXCEPT ![k] = source[k]]
                                    /\ cursor' = k
                                    /\ UNCHANGED phase
    /\ UNCHANGED <<poolVars, buckets, dryRun, indexed, progress, aborted, stream, runs>>

ListDest ==
    /\ phase = "walkDest" /\ ~aborted
    /\ \E k \in Page(dest) : indexed' = [indexed EXCEPT ![k] = dest[k]] /\ cursor' = k
    /\ UNCHANGED <<poolVars, buckets, dryRun, walked, progress, phase, aborted, stream, runs>>

WalksDone ==
    IF IsTransfer THEN phase = "walkSource" /\ AtEnd(source)
                  ELSE phase = "walkDest" /\ AtEnd(dest)

\* The walks are done: the plan is made, and returned or carried out.
BeginUploads ==
    /\ WalksDone /\ ~aborted
    /\ IF dryRun THEN Finish([status |-> "plan"], 0)
       ELSE /\ phase' = "upload"
            /\ \E list \in InOrder(Sources) : Call(list, options.stop)
            /\ result' = [status |-> "running", uploaded |-> {}, deleted |-> {}, errors |-> {}]
            /\ cursor' = 0
            /\ UNCHANGED <<buckets, plan, skipped, done, aborted, stream, runs>>

(***************************************************************************)
(* The upload phase: each worker skips its key or streams it across.       *)
(***************************************************************************)
\* Slip: a skipped key is not reported.
SkipSilently(w) ==
    /\ phase = "upload"
    /\ TakeAndPass(w)
    /\ LET k == batch[index + 1]
       IN  Unchanged(k) /\ skipped' = skipped \cup {k}
    /\ UNCHANGED <<buckets, plan, done, result, phase, aborted, cursor, stream, runs>>

Skip(w) ==
    /\ phase = "upload"
    /\ TakeAndPass(w)
    /\ LET k == batch[index + 1]
       IN  Unchanged(k) /\ skipped' = skipped \cup {k}
    /\ done' = done + 1
    /\ UNCHANGED <<buckets, plan, result, phase, aborted, cursor, stream, runs>>

BeginKey(w) ==
    /\ phase = "upload"
    /\ Take(w)
    /\ ~Unchanged(batch[index + 1])
    /\ UNCHANGED <<buckets, plan, progress, phase, aborted, cursor, stream, runs>>

\* transfer without overwrite: the destination has something under the key, or not.
Asks(w) ==
    /\ phase = "upload" /\ at[w] # 0 /\ stream[w] = 0
    /\ options.compare = "exists" /\ ~aborted

CopyExists(w) ==
    /\ Asks(w) /\ dest[TransformKey[batch[at[w]]]] # 0
    /\ skipped' = skipped \cup {batch[at[w]]}
    /\ done' = done + 1
    /\ SettleSlot(w, "done")
    /\ UNCHANGED <<buckets, plan, result, phase, aborted, cursor, stream, runs>>

CopyMissing(w) ==
    /\ Asks(w) /\ dest[TransformKey[batch[at[w]]]] = 0
    /\ stream' = [stream EXCEPT ![w] = Vacant]
    /\ UNCHANGED <<poolVars, buckets, plan, progress, phase, aborted, cursor, runs>>

\* The download answers with what is there by now.
Download(w) ==
    /\ phase = "upload" /\ at[w] # 0
    /\ stream[w] = IF options.compare = "exists" THEN Vacant ELSE 0
    /\ ~aborted /\ source[batch[at[w]]] # 0
    /\ stream' = [stream EXCEPT ![w] = source[batch[at[w]]]]
    /\ UNCHANGED <<poolVars, buckets, plan, progress, phase, aborted, cursor, runs>>

\* It fails, or exists() did: the key is gone, the call was aborted, or the provider
\* says so.
DownloadFails(w) ==
    /\ phase = "upload" /\ at[w] # 0 /\ stream[w] <= 0
    /\ SettleSlot(w, "failed")
    /\ stream' = [stream EXCEPT ![w] = 0]
    /\ UNCHANGED <<buckets, plan, progress, phase, aborted, cursor, runs>>

Write(key, content) == dest' = [dest EXCEPT ![key] = content] /\ UNCHANGED late

Upload(w) ==
    /\ phase = "upload" /\ stream[w] > 0 /\ ~aborted
    /\ Write(TransformKey[batch[at[w]]], stream[w])
    /\ done' = done + 1
    /\ SettleSlot(w, "done")
    /\ stream' = [stream EXCEPT ![w] = 0]
    /\ UNCHANGED <<source, latest, quiet, plan, skipped, result, phase, aborted, cursor, runs>>

\* A request whose call rejects took effect, did not, or may still.
LosesTrack(key, content) ==
    \/ UNCHANGED <<dest, late>>
    \/ Write(key, content)
    \/ late = {} /\ late' = {[key |-> key, content |-> content]} /\ UNCHANGED dest

UploadFails(w) ==
    /\ phase = "upload" /\ stream[w] > 0
    /\ LosesTrack(TransformKey[batch[at[w]]], stream[w])
    /\ SettleSlot(w, "failed")
    /\ stream' = [stream EXCEPT ![w] = 0]
    /\ UNCHANGED <<source, latest, quiet, plan, progress, phase, aborted, cursor, runs>>

Failures(where) == {[in |-> where, key |-> k] : k \in Ended("failed")}

\* Slip: an upload failure does not keep the prune from running.
UploadsReturnRegardless ==
    /\ phase = "upload" /\ Drained
    /\ LET r == [result EXCEPT !.uploaded = Ended("done") \ skipped, !.errors = Failures("upload")]
       IN  IF options.prune /\ Extraneous # {}
             THEN /\ phase' = "prune"
                  /\ \E list \in InOrder(Extraneous) : Call(list, options.stop)
                  /\ result' = r
                  /\ UNCHANGED <<buckets, plan, skipped, done, aborted, cursor, stream, runs>>
             ELSE Finish([r EXCEPT !.status = "ok"], done)

UploadsReturn ==
    /\ phase = "upload" /\ Drained
    /\ LET r == [result EXCEPT !.uploaded = Ended("done") \ skipped, !.errors = Failures("upload")]
       IN  IF options.prune /\ Extraneous # {} /\ ~Bailed
             THEN /\ phase' = "prune"
                  /\ \E list \in InOrder(Extraneous) : Call(list, options.stop)
                  /\ result' = r
                  /\ UNCHANGED <<buckets, plan, skipped, done, aborted, cursor, stream, runs>>
             ELSE Finish([r EXCEPT !.status = "ok"], done)

(***************************************************************************)
(* The prune phase. Its deletes carry no signal.                           *)
(***************************************************************************)
BeginDelete(w) ==
    /\ phase = "prune"
    /\ Take(w)
    /\ UNCHANGED <<buckets, plan, progress, phase, aborted, cursor, stream, runs>>

Delete(w) ==
    /\ phase = "prune" /\ at[w] # 0
    /\ Write(batch[at[w]], 0)
    /\ SettleSlot(w, "done")
    /\ UNCHANGED <<source, latest, quiet, plan, progress, phase, aborted, cursor, stream, runs>>

DeleteFails(w) ==
    /\ phase = "prune" /\ at[w] # 0
    /\ LosesTrack(batch[at[w]], 0)
    /\ SettleSlot(w, "failed")
    /\ UNCHANGED <<source, latest, quiet, plan, progress, phase, aborted, cursor, stream, runs>>

PruneReturns ==
    /\ phase = "prune" /\ Drained
    /\ Finish([status |-> "ok", uploaded |-> result.uploaded, deleted |-> Ended("done"),
               errors |-> result.errors \cup Failures("prune")],
              done + Cardinality(Ended("done")))

\* The process stops; a request under way may still take effect.
Crash ==
    /\ phase # "idle"
    /\ Forget
    /\ result' = NoResult /\ done' = 0
    /\ \/ UNCHANGED late
       \/ /\ late = {}
          /\ \E w \in Slots : at[w] # 0 /\
                \/ stream[w] > 0 /\ late' = {[key |-> TransformKey[batch[at[w]]], content |-> stream[w]]}
                \/ phase = "prune" /\ late' = {[key |-> batch[at[w]], content |-> 0]}
    /\ UNCHANGED <<source, dest, latest, quiet, runs>>

Worker(w) ==
    \/ Skip(w) \/ BeginKey(w) \/ CopyExists(w) \/ CopyMissing(w) \/ Download(w) \/ DownloadFails(w)
    \/ Upload(w) \/ UploadFails(w)
    \/ BeginDelete(w) \/ Delete(w) \/ DeleteFails(w)

Proceed ==
    /\ \/ WalkFails \/ ListSource \/ ListDest \/ BeginUploads \/ UploadsReturn \/ PruneReturns
       \/ \E w \in Slots : Worker(w)
    /\ UNCHANGED options

World ==
    /\ (\E k \in Keys : Edit(k)) \/ LateLands \/ Abort \/ Start \/ Crash
    /\ UNCHANGED options

Next == Proceed \/ World

Spec == Init /\ [][Next]_vars

\* Each call of an adapter settles, and then the call that made it goes on.
FairSpec == Spec /\ WF_vars(Proceed)

(***************************************************************************)
(* Properties.                                                             *)
(***************************************************************************)

\* What became of a walked key's upload allows a prune.
Accounted(k) ==
    \/ k \in result.uploaded \cup skipped
    \/ ~options.stop /\ [in |-> "upload", key |-> k] \in result.errors

Spares(w) ==
    /\ Delete(w) \/ DeleteFails(w) =>
          batch[at[w]] \notin Wanted /\ \A k \in Sources : Accounted(k)
    /\ (Upload(w) \/ UploadFails(w)) /\ options.compare = "exists" /\ quiet =>
          dest[TransformKey[batch[at[w]]]] = 0

\* Only what the source did not have when it was walked is deleted, after every upload
\* has settled, and under stopOnError only if each of them succeeded: the destination
\* is never trimmed against a half-applied source.  And a transfer without overwrite
\* replaces nothing, unless others write between its question and its upload.
DestSpared == [][\A w \in Slots : Spares(w)]_vars

Mirrored(k) ==
    LET copy == dest[TransformKey[k]]
    IN  /\ copy # 0
        /\ \/ copy = source[k]
           \/ options.compare = "size" /\ Size(copy) = Size(source[k])
           \/ options.compare = "exists"

\* A call that reports no errors leaves a mirror, where nothing else changed a bucket
\* meanwhile: also after an earlier call failed, was aborted or died anywhere.  After a
\* transfer without overwrite each key is there, with what it held or with a copy.
MirrorWhenQuiet ==
    phase = "idle" /\ result.status = "ok" /\ result.errors = {} /\ quiet =>
        /\ \A k \in Keys : source[k] # 0 => Mirrored(k)
        /\ options.prune => \A k \in Keys : dest[TransformKey[k]] # 0 => source[k] # 0

\* Progress never passes the total that it reports, and a call that was not cut short
\* has reported every key that is not among its errors.
CountsAddUp ==
    [][phase # "idle" /\ phase' = "idle" /\ result'.status = "ok" =>
          /\ done' = Cardinality(result'.uploaded) + Cardinality(skipped) + Cardinality(result'.deleted)
          /\ done' + Cardinality(result'.errors) = Total
                \/ (options.stop /\ result'.errors # {} /\ done' < Total)]_vars

\* Every call ends.
SyncReturns == phase # "idle" ~> phase = "idle"
=============================================================================
