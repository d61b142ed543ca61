----------------------------- MODULE SyncProofs -----------------------------
(***************************************************************************)
(* For any number of keys, workers, edits and calls: every item of a bulk  *)
(* call is run once, a prune spares what the source had, and a quiet sync  *)
(* without errors leaves a mirror.                                         *)
(*                                                                         *)
(* The argument follows one call through its phases. Walks: what is behind *)
(* the cursor agrees with the bucket. Uploads: the slots that are done     *)
(* have been copied, those not yet settled are as the walk saw them.       *)
(* Prune: the slots that are done are gone from the destination.           *)
(***************************************************************************)
EXTENDS Sync, FiniteSetTheorems, SequenceTheorems, WellFoundedInduction, TLAPS

(***************************************************************************)
(* The pool.                                                               *)
(***************************************************************************)
PoolInv == PoolTypeOK /\ OncePerItem

LEMMA CallStartsPool ==
    ASSUME NEW list \in Seq(Items), Len(list) <= MaxItems, NEW s \in BOOLEAN, Call(list, s)
    PROVE  PoolInv'
<1>1. PoolTypeOK'
  BY PoolAssumption DEF Call, PoolTypeOK, Slots, Outcomes
<1>2. OncePerItem'
  BY PoolAssumption DEF Call, OncePerItem, Slots
<1>3. QED
  BY <1>1, <1>2 DEF PoolInv

LEMMA TakeKeepsPool ==
    ASSUME PoolInv, NEW w \in Slots, Take(w)
    PROVE  PoolInv'
<1>1. index + 1 \in 1 .. Len(batch) /\ Len(batch) \in 0 .. MaxItems /\ at[w] = 0
  BY PoolAssumption DEF Take, Free, PoolInv, PoolTypeOK
<1>2. index + 1 \in Slots
  BY <1>1, PoolAssumption DEF Slots
<1>3. PoolTypeOK'
  BY <1>1, <1>2 DEF Take, PoolInv, PoolTypeOK, Outcomes
<1>4. \A v \in Slots : at[v] <= index
  BY <1>2, PoolAssumption DEF PoolInv, PoolTypeOK, OncePerItem, Slots
<1>5. OncePerItem'
  BY <1>1, <1>2, <1>4, PoolAssumption DEF Take, PoolInv, PoolTypeOK, OncePerItem, Slots
<1>6. QED
  BY <1>3, <1>5 DEF PoolInv

LEMMA PassKeepsPool ==
    ASSUME PoolInv, NEW w \in Slots, TakeAndPass(w)
    PROVE  PoolInv'
<1>1. index + 1 \in 1 .. Len(batch) /\ Len(batch) \in 0 .. MaxItems
  BY PoolAssumption DEF TakeAndPass, Free, PoolInv, PoolTypeOK
<1>2. index + 1 \in Slots
  BY <1>1, PoolAssumption DEF Slots
<1>3. PoolTypeOK'
  BY <1>1, <1>2 DEF TakeAndPass, PoolInv, PoolTypeOK, Outcomes
<1>4. \A v \in Slots : at[v] <= index
  BY <1>2, PoolAssumption DEF PoolInv, PoolTypeOK, OncePerItem, Slots
<1>5. OncePerItem'
  BY <1>1, <1>2, <1>4, PoolAssumption DEF TakeAndPass, PoolInv, PoolTypeOK, OncePerItem, Slots
<1>6. QED
  BY <1>3, <1>5 DEF PoolInv

LEMMA SettleKeepsPool ==
    ASSUME PoolInv, NEW w \in Slots, NEW how \in {"done", "failed"}, SettleSlot(w, how)
    PROVE  PoolInv'
<1>1. at[w] \in 1 .. Len(batch) /\ Len(batch) \in 0 .. MaxItems
  BY PoolAssumption DEF SettleSlot, PoolInv, PoolTypeOK
<1>2. at[w] \in Slots /\ at[w] <= index
  BY <1>1, PoolAssumption DEF Slots, PoolInv, PoolTypeOK, OncePerItem
<1>3. PoolTypeOK'
  BY <1>1, <1>2 DEF SettleSlot, PoolInv, PoolTypeOK, Outcomes
<1>4. OncePerItem'
  BY <1>1, <1>2, PoolAssumption DEF SettleSlot, PoolInv, PoolTypeOK, OncePerItem, Slots
<1>5. QED
  BY <1>3, <1>4 DEF PoolInv

\* A drained call that has not bailed out has run every item to its end.
LEMMA DrainedSettles ==
    ASSUME PoolInv, Drained, ~Bailed, NEW i \in 1 .. Len(batch)
    PROVE  outcome[i] \in {"done", "failed"}
<1>1. i \in Slots /\ index = Len(batch) /\ i <= index
  BY PoolAssumption DEF PoolInv, PoolTypeOK, Drained, Slots
<1>2. outcome[i] # "waiting"
  BY <1>1 DEF PoolInv, OncePerItem
<1>3. outcome[i] # "running"
  BY <1>1 DEF PoolInv, OncePerItem, Drained, Slots
<1>4. outcome[i] \in Outcomes
  BY <1>1 DEF PoolInv, PoolTypeOK
<1>5. QED
  BY <1>2, <1>3, <1>4 DEF Outcomes

LEMMA OrderedList ==
    ASSUME NEW keys \in SUBSET Keys, NEW list \in InOrder(keys)
    PROVE  /\ list \in Seq(Items)
           /\ Len(list) <= MaxItems
           /\ \A i \in 1 .. Len(list) : list[i] \in keys
           /\ \A i, j \in 1 .. Len(list) : list[i] = list[j] => i = j
           /\ \A k \in keys : \E i \in 1 .. Len(list) : list[i] = k
<1>1. Keys = 1 .. MaxItems
  BY TransformAssumption DEF Keys, Slots
<1>2. IsFiniteSet(Keys) /\ Cardinality(Keys) = MaxItems
  BY <1>1, PoolAssumption, FS_Interval
<1>3. Cardinality(keys) \in Nat /\ Cardinality(keys) <= MaxItems
  BY <1>2, FS_Subset, FS_CardinalityType
<1>4. list \in [1 .. Cardinality(keys) -> keys]
  BY DEF InOrder
<1>5. list \in Seq(Items) /\ Len(list) = Cardinality(keys)
  BY <1>3, <1>4 DEF Keys
<1>6. \A i, j \in 1 .. Len(list) : i < j => list[i] # list[j]
  <2>1. \A i, j \in 1 .. Len(list) : i < j => list[i] < list[j]
    BY <1>5 DEF InOrder
  <2>2. \A i \in 1 .. Len(list) : list[i] \in Int
    <3>1. \A i \in 1 .. Len(list) : list[i] \in Keys
      BY <1>4, <1>5
    <3>2. \A k \in Keys : k \in Int
      BY <1>1, PoolAssumption
    <3>3. QED
      BY <3>1, <3>2
  <2>3. QED
    BY <2>1, <2>2
<1>7. \A i, j \in 1 .. Len(list) : list[i] = list[j] => i = j
  BY <1>3, <1>5, <1>6
<1>8. QED
  BY <1>3, <1>4, <1>5, <1>7 DEF InOrder

(***************************************************************************)
(* Typing, and what each phase has of its own.                             *)
(***************************************************************************)
Busy == phase \in {"upload", "prune"}

RunningResult ==
    [status : {"running"}, uploaded : SUBSET Keys, deleted : SUBSET Keys, errors : SUBSET Failure]

Phased ==
    /\ Busy => result \in RunningResult /\ stop = options.stop
    /\ \A w \in Slots : stream[w] # 0 => phase = "upload" /\ at[w] # 0
    /\ phase = "idle" => walked = Nothing /\ indexed = Nothing /\ cursor = 0
    /\ phase = "walkSource" => indexed = Nothing

Typed == TypeOK /\ OncePerItem /\ Phased

LEMMA PoolOfTyped == Typed => PoolInv
BY DEF Typed, TypeOK, PoolInv

LEMMA ZeroTyped == Nothing \in [Keys -> Contents] /\ 0 \in Contents
BY BoundsAssumption DEF Nothing, Contents

LEMMA EmptyCall ==
    ASSUME Call(<<>>, FALSE)
    PROVE  PoolInv' /\ batch' = <<>>
<1>1. <<>> \in Seq(Items) /\ Len(<<>>) <= MaxItems /\ FALSE \in BOOLEAN
  BY PoolAssumption
<1>2. PoolInv'
  BY <1>1, CallStartsPool
<1>3. QED
  BY <1>2 DEF Call

\* A call's end.
LEMMA ForgetTyped ==
    ASSUME Typed, Forget, UNCHANGED <<source, dest, latest, quiet, options, runs>>,
           late' \in SUBSET [key : Keys, content : Contents],
           result' \in Results, done' \in Nat
    PROVE  Typed'
<1>1. PoolInv'
  BY EmptyCall DEF Forget
<1>2. TypeOK'
  BY <1>1, ZeroTyped DEF Typed, TypeOK, Forget, PoolInv
<1>3. Phased'
  BY DEF Phased, Busy, Forget
<1>4. QED
  BY <1>1, <1>2, <1>3 DEF Typed, PoolInv

LEMMA FinishTyped ==
    ASSUME Typed, NEW r \in Results, NEW d \in Nat, Finish(r, d), UNCHANGED options
    PROVE  Typed'
BY ForgetTyped DEF Finish, buckets, Typed, TypeOK

LEMMA EndedTyped == ASSUME Typed, NEW how PROVE Ended(how) \in SUBSET Keys
BY DEF Ended, Keys, Typed, TypeOK, PoolTypeOK

LEMMA FailuresTyped ==
    ASSUME Typed, NEW where \in {"upload", "prune"}
    PROVE  Failures(where) \in SUBSET Failure
BY EndedTyped DEF Failures, Failure

\* The call goes on to a bulk call.
LEMMA BeginPoolTyped ==
    ASSUME Typed, NEW keys \in SUBSET Keys, NEW list \in InOrder(keys), Call(list, options.stop),
           phase' \in {"upload", "prune"}, result' \in RunningResult, cursor' \in Keys \cup {0},
           \A w \in Slots : stream[w] = 0,
           UNCHANGED <<options, buckets, plan, skipped, done, aborted, stream, runs>>
    PROVE  Typed'
<1>1. options.stop \in BOOLEAN
  BY DEF Typed, TypeOK, Options
<1>2. PoolInv'
  BY <1>1, OrderedList, CallStartsPool
<1>3. result' \in Results
  BY DEF Results, RunningResult
<1>4. TypeOK'
  BY <1>2, <1>3 DEF Typed, TypeOK, buckets, plan, PoolInv
<1>5. Phased'
  BY DEF Phased, Busy, Call
<1>6. QED
  BY <1>2, <1>4, <1>5 DEF Typed, PoolInv

LEMMA InitTyped == Init => Typed
<1> SUFFICES ASSUME Init PROVE Typed
  OBVIOUS
<1>1. PoolTypeOK /\ OncePerItem
  <2>1. <<>> \in Seq(Items) /\ Len(<<>>) = 0
    OBVIOUS
  <2>2. PoolTypeOK
    <3>1. batch \in Seq(Items) /\ Len(batch) = 0 /\ Len(batch) <= MaxItems
      BY <2>1, PoolAssumption DEF Init, PoolInit
    <3>2. index \in 0 .. Len(batch) /\ at \in [Slots -> 0 .. Len(batch)]
      BY <3>1 DEF Init, PoolInit
    <3>3. stop \in BOOLEAN /\ outcome \in [Slots -> Outcomes]
      BY DEF Init, PoolInit, Outcomes
    <3>4. QED
      BY <3>1, <3>2, <3>3 DEF PoolTypeOK
  <2>3. OncePerItem
    BY PoolAssumption DEF Init, PoolInit, OncePerItem, Slots
  <2>4. QED
    BY <2>2, <2>3
<1>2. TypeOK
  <2>1. source \in [Keys -> Contents] /\ dest \in [Keys -> Contents] /\ latest \in Contents
    BY BoundsAssumption DEF Init, Contents
  <2>2. NoResult \in Results
    BY DEF NoResult, Results
  <2>3. stream \in [Slots -> Contents \cup {Vacant}] /\ runs \in 0 .. MaxRuns
    BY ZeroTyped, BoundsAssumption DEF Init
  <2>4. QED
    BY <1>1, <2>1, <2>2, <2>3, ZeroTyped DEF Init, TypeOK
<1>3. Phased
  BY DEF Init, Phased, Busy
<1>4. QED
  BY <1>1, <1>2, <1>3 DEF Typed

LEMMA WalkTyped ==
    ASSUME Typed, UNCHANGED options, WalkFails \/ ListSource \/ ListDest \/ BeginUploads
    PROVE  Typed'
<1>1. CASE WalkFails
  <2>1. [status |-> "rejected"] \in Results
    BY DEF Results
  <2>2. QED
    BY <1>1, <2>1, FinishTyped DEF WalkFails, Reject
<1>2. CASE ListSource
  <2>1. TypeOK'
    <3>1. cursor' \in Keys \cup {0} /\ walked' \in [Keys -> Contents]
      BY <1>2 DEF ListSource, Page, Typed, TypeOK
    <3>2. PoolTypeOK'
      BY <1>2 DEF ListSource, poolVars, PoolTypeOK, Workers, Typed, TypeOK
    <3>3. phase' \in {"walkSource", "walkDest"}
      BY <1>2 DEF ListSource
    <3>4. QED
      BY <1>2, <3>1, <3>2, <3>3 DEF ListSource, buckets, progress, Typed, TypeOK
  <2>2. OncePerItem'
    BY <1>2 DEF ListSource, poolVars, OncePerItem, Typed
  <2>3. Phased'
    BY <1>2 DEF ListSource, poolVars, Phased, Busy, Typed
  <2>4. QED
    BY <2>1, <2>2, <2>3 DEF Typed
<1>3. CASE ListDest
  <2>1. TypeOK'
    <3>1. cursor' \in Keys \cup {0} /\ indexed' \in [Keys -> Contents]
      BY <1>3 DEF ListDest, Page, Typed, TypeOK
    <3>2. PoolTypeOK'
      BY <1>3 DEF ListDest, poolVars, PoolTypeOK, Typed, TypeOK
    <3>3. QED
      BY <1>3, <3>1, <3>2 DEF ListDest, buckets, progress, Typed, TypeOK
  <2>2. OncePerItem'
    BY <1>3 DEF ListDest, poolVars, OncePerItem, Typed
  <2>3. Phased'
    BY <1>3 DEF ListDest, poolVars, Phased, Busy, Typed
  <2>4. QED
    BY <2>1, <2>2, <2>3 DEF Typed
<1>4. CASE BeginUploads
  <2>1. CASE dryRun
    <3>1. [status |-> "plan"] \in Results
      BY DEF Results
    <3>2. QED
      BY <1>4, <2>1, <3>1, FinishTyped DEF BeginUploads
  <2>2. CASE ~dryRun
    <3>1. PICK list \in InOrder(Sources) : Call(list, options.stop)
      BY <1>4, <2>2 DEF BeginUploads
    <3>2. Sources \in SUBSET Keys
      BY DEF Sources
    <3>3. result' \in RunningResult
      BY <1>4, <2>2 DEF BeginUploads, RunningResult
    <3>4. \A w \in Slots : stream[w] = 0
      BY <1>4 DEF BeginUploads, WalksDone, Typed, Phased
    <3>5. QED
      BY <1>4, <2>2, <3>1, <3>2, <3>3, <3>4, BeginPoolTyped DEF BeginUploads
  <2>3. QED
    BY <2>1, <2>2
<1>5. QED
  BY <1>1, <1>2, <1>3, <1>4

LEMMA ReturnTyped ==
    ASSUME Typed, UNCHANGED options, UploadsReturn \/ PruneReturns
    PROVE  Typed'
<1>1. CASE UploadsReturn
  <2> DEFINE r == [result EXCEPT !.uploaded = Ended("done") \ skipped,
                              !.errors = Failures("upload")]
  <2>1. result \in RunningResult
    BY <1>1 DEF UploadsReturn, Typed, Phased, Busy
  <2>2. r \in RunningResult
    BY <2>1, EndedTyped, FailuresTyped DEF RunningResult
  <2>3. [r EXCEPT !.status = "ok"] \in Results
    BY <2>2 DEF RunningResult, Results
  <2> HIDE DEF r
  <2>4. CASE Finish([r EXCEPT !.status = "ok"], done)
    <3>1. done \in Nat
      BY DEF Typed, TypeOK
    <3>2. QED
      BY <2>3, <2>4, <3>1, FinishTyped
  <2>5. CASE /\ phase' = "prune"
             /\ \E list \in InOrder(Extraneous) : Call(list, options.stop)
             /\ result' = r
             /\ UNCHANGED <<buckets, plan, skipped, done, aborted, cursor, stream, runs>>
    <3>1. PICK list \in InOrder(Extraneous) : Call(list, options.stop)
      BY <2>5
    <3>2. Extraneous \in SUBSET Keys
      BY DEF Extraneous
    <3>3. \A w \in Slots : stream[w] = 0
      BY <1>1 DEF UploadsReturn, Drained, Typed, Phased
    <3>4. cursor \in Keys \cup {0}
      BY DEF Typed, TypeOK
    <3>5. QED
      BY <2>2, <2>5, <3>1, <3>2, <3>3, <3>4, BeginPoolTyped
  <2>6. QED
    BY <1>1, <2>4, <2>5 DEF UploadsReturn, r
<1>2. CASE PruneReturns
  <2> DEFINE r == [status |-> "ok", uploaded |-> result.uploaded, deleted |-> Ended("done"),
                   errors |-> result.errors \cup Failures("prune")]
  <2>1. result \in RunningResult
    BY <1>2 DEF PruneReturns, Typed, Phased, Busy
  <2>2. r \in Results
    BY <2>1, EndedTyped, FailuresTyped DEF RunningResult, Results
  <2>3. done + Cardinality(Ended("done")) \in Nat
    <3>1. IsFiniteSet(Ended("done"))
      BY EndedTyped, FS_Interval, FS_Subset, PoolAssumption, TransformAssumption DEF Keys, Slots
    <3>2. done \in Nat
      BY DEF Typed, TypeOK
    <3>3. QED
      BY <3>1, <3>2, FS_CardinalityType
  <2> HIDE DEF r
  <2>4. QED
    BY <1>2, <2>2, <2>3, FinishTyped DEF PruneReturns, r
<1>3. QED
  BY <1>1, <1>2

\* A worker's step that changes neither the plan nor the phase.
LEMMA WorkerTyped ==
    ASSUME Typed, NEW w \in Slots, Worker(w), UNCHANGED options
    PROVE  Typed'
<1>1. PoolInv /\ PoolInv'
  <2>1. \/ Take(w) \/ TakeAndPass(w) \/ SettleSlot(w, "done") \/ SettleSlot(w, "failed")
        \/ UNCHANGED poolVars
    BY DEF Worker, Skip, BeginKey, CopyExists, CopyMissing, Asks, Download, DownloadFails,
       Upload, UploadFails, BeginDelete, Delete, DeleteFails
  <2>2. CASE UNCHANGED poolVars
    BY <2>2, PoolOfTyped DEF poolVars, PoolInv, PoolTypeOK, OncePerItem
  <2>3. QED
    BY <2>1, <2>2, PoolOfTyped, TakeKeepsPool, PassKeepsPool, SettleKeepsPool
<1>2. UNCHANGED <<source, latest, quiet, dryRun, walked, indexed, result, phase, aborted, cursor,
                  runs, stop>>
  BY DEF Worker, Skip, BeginKey, CopyExists, CopyMissing, Asks, Download, DownloadFails, Upload,
     UploadFails, BeginDelete, Delete, DeleteFails, buckets, plan, progress, Take, TakeAndPass, SettleSlot, poolVars
<1>3. at[w] # 0 => batch[at[w]] \in Keys /\ TransformKey[batch[at[w]]] \in Keys
  BY TransformAssumption DEF Typed, TypeOK, PoolTypeOK, Keys
<1>4. /\ stream[w] \in Contents \cup {Vacant} /\ (stream[w] > 0 => stream[w] \in Contents)
      /\ \A k \in Keys : source[k] \in Contents
  BY DEF Typed, TypeOK, Vacant
<1>5. done' \in Nat
  BY DEF Worker, Skip, BeginKey, CopyExists, CopyMissing, Asks, Download, DownloadFails, Upload,
     UploadFails, BeginDelete, Delete, DeleteFails, progress, Typed, TypeOK
<1>6. skipped' \in SUBSET Keys
  <2>1. CASE Skip(w)
    <3>1. batch[index + 1] \in Keys
      BY <2>1 DEF Skip, TakeAndPass, Free, Typed, TypeOK, PoolTypeOK, Keys
    <3>2. QED
      BY <2>1, <3>1 DEF Skip, Typed, TypeOK
  <2>2. CASE CopyExists(w)
    BY <1>3, <2>2 DEF CopyExists, Asks, Typed, TypeOK
  <2>3. QED
    BY <2>1, <2>2 DEF Worker, BeginKey, CopyMissing, Download, DownloadFails, Upload,
       UploadFails, BeginDelete, Delete, DeleteFails, progress, Typed, TypeOK
<1>7. stream' \in [Slots -> Contents \cup {Vacant}]
  BY <1>3, <1>4, ZeroTyped
     DEF Worker, Skip, BeginKey, CopyExists, CopyMissing, Asks, Download, DownloadFails, Upload,
     UploadFails, BeginDelete, Delete, DeleteFails, Typed, TypeOK
<1>8. dest' \in [Keys -> Contents] /\ late' \in SUBSET [key : Keys, content : Contents]
  <2>1. CASE Upload(w) \/ UploadFails(w)
    BY <1>3, <1>4, <2>1 DEF Upload, UploadFails, SettleSlot, Write, LosesTrack, Typed, TypeOK
  <2>2. CASE Delete(w) \/ DeleteFails(w)
    BY <1>3, <2>2, ZeroTyped DEF Delete, DeleteFails, Write, LosesTrack, Typed, TypeOK
  <2>3. QED
    BY <2>1, <2>2 DEF Worker, Skip, BeginKey, CopyExists, CopyMissing, Asks, Download,
       DownloadFails, BeginDelete, buckets,
                      Typed, TypeOK
<1>9. TypeOK'
  BY <1>1, <1>2, <1>5, <1>6, <1>7, <1>8 DEF Typed, TypeOK, PoolInv
<1>10. \A v \in Slots : stream'[v] # 0 => phase' = "upload" /\ at'[v] # 0
  BY DEF Worker, Skip, BeginKey, CopyExists, CopyMissing, Asks, Download, DownloadFails, Upload,
     UploadFails, BeginDelete, Delete, DeleteFails, Typed, TypeOK, PoolTypeOK, Phased, Take, TakeAndPass, SettleSlot,
         Free, poolVars
<1>11. Phased'
  BY <1>2, <1>10 DEF Phased, Busy, Typed
<1>12. QED
  BY <1>1, <1>9, <1>11 DEF Typed, PoolInv

LEMMA WorldTyped ==
    ASSUME Typed, World
    PROVE  Typed'
<1>1. CASE Crash
  <2>1. \A w \in Slots : at[w] # 0 =>
            /\ batch[at[w]] \in Keys /\ TransformKey[batch[at[w]]] \in Keys
            /\ stream[w] > 0 => stream[w] \in Contents
    BY TransformAssumption DEF Typed, TypeOK, PoolTypeOK, Keys, Vacant
  <2>2. late' \in SUBSET [key : Keys, content : Contents]
    BY <1>1, <2>1, ZeroTyped DEF Crash, Typed, TypeOK
  <2>3. result' \in Results /\ done' \in Nat
    BY <1>1 DEF Crash, NoResult, Results
  <2>4. QED
    BY <1>1, <2>2, <2>3, ForgetTyped DEF Crash, World
<1>2. CASE Start
  <2>1. PoolTypeOK' /\ OncePerItem' /\ NoResult \in Results
    BY <1>2 DEF Start, poolVars, Typed, TypeOK, PoolTypeOK, OncePerItem, NoResult, Results
  <2>2. runs' \in 0 .. MaxRuns
    BY <1>2, BoundsAssumption DEF Start, Typed, TypeOK
  <2>3. TypeOK'
    BY <1>2, <2>1, <2>2 DEF Start, World, Typed, TypeOK
  <2>4. Phased'
    BY <1>2 DEF Start, World, Phased, Busy, Typed
  <2>5. QED
    BY <2>1, <2>3, <2>4 DEF Typed
<1>3. CASE (\E k \in Keys : Edit(k)) \/ LateLands \/ Abort
  <2>1. UNCHANGED <<poolVars, options, plan, progress, phase, cursor, stream, runs>>
    BY <1>3 DEF Edit, LateLands, Abort, World
  <2>2. /\ source' \in [Keys -> Contents] /\ dest' \in [Keys -> Contents] /\ latest' \in Contents
        /\ late' \in SUBSET [key : Keys, content : Contents] /\ aborted' \in BOOLEAN
        /\ quiet' \in BOOLEAN
    <3>1. CASE \E k \in Keys : Edit(k)
      <4>1. latest' \in Contents
        BY <3>1, BoundsAssumption DEF Edit, Typed, TypeOK, Contents
      <4>2. source' \in [Keys -> Contents]
        <5>1. PICK k \in Keys : Edit(k)
          BY <3>1
        <5>2. PICK c \in Contents : source' = [source EXCEPT ![k] = c]
          BY <4>1, <5>1, ZeroTyped DEF Edit
        <5>3. QED
          BY <5>2 DEF Typed, TypeOK
      <4>3. QED
        BY <3>1, <4>1, <4>2 DEF Edit, Typed, TypeOK
    <3>2. CASE LateLands
      BY <3>2 DEF LateLands, Typed, TypeOK
    <3>3. CASE Abort
      BY <3>3 DEF Abort, buckets, Typed, TypeOK
    <3>4. QED
      BY <1>3, <3>1, <3>2, <3>3
  <2>3. TypeOK'
    BY <2>1, <2>2 DEF poolVars, plan, progress, Typed, TypeOK, PoolTypeOK
  <2>4. OncePerItem' /\ Phased'
    BY <2>1 DEF poolVars, plan, progress, Typed, OncePerItem, Phased, Busy
  <2>5. QED
    BY <2>3, <2>4 DEF Typed
<1>4. QED
  BY <1>1, <1>2, <1>3 DEF World

LEMMA NextTyped == Typed /\ [Next]_vars => Typed'
<1>1. ASSUME Typed, Proceed PROVE Typed'
  BY <1>1, WalkTyped, ReturnTyped, WorkerTyped DEF Proceed
<1>2. ASSUME Typed, UNCHANGED vars PROVE Typed'
  <2>1. TypeOK'
    BY <1>2 DEF vars, poolVars, buckets, plan, progress, Typed, TypeOK, PoolTypeOK
  <2>2. OncePerItem' /\ Phased'
    BY <1>2 DEF vars, poolVars, buckets, plan, progress, Typed, OncePerItem, Phased, Busy
  <2>3. QED
    BY <2>1, <2>2 DEF Typed
<1>3. QED
  BY <1>1, <1>2, WorldTyped DEF Next

LEMMA AlwaysTyped == Spec => []Typed
BY InitTyped, NextTyped, PTL DEF Spec

\* The state of sync is well typed, for any number of keys, workers, edits and calls.
THEOREM SyncTyped == Spec => []TypeOK
<1>1. Typed => TypeOK
  BY DEF Typed
<1>2. QED
  BY <1>1, AlwaysTyped, PTL

\* Workers that share an index run every item once: none twice, none left out.
THEOREM EveryItemOnce == Spec => []OncePerItem
<1>1. Typed => OncePerItem
  BY DEF Typed
<1>2. QED
  BY <1>1, AlwaysTyped, PTL

(***************************************************************************)
(* A prune deletes nothing that the source had.                            *)
(***************************************************************************)
Lists(list, keys) ==
    /\ \A i \in 1 .. Len(list) : list[i] \in keys
    /\ \A i, j \in 1 .. Len(list) : list[i] = list[j] => i = j
    /\ \A k \in keys : \E i \in 1 .. Len(list) : list[i] = k

Listing ==
    /\ phase = "upload" => Lists(batch, Sources)
    /\ phase = "prune" => Lists(batch, Extraneous)

PruneJustified == phase = "prune" => \A k \in Sources : Accounted(k)

Planned == Typed /\ Listing /\ PruneJustified

LEMMA CallLists ==
    ASSUME NEW keys \in SUBSET Keys, NEW list \in InOrder(keys), NEW s, Call(list, s)
    PROVE  Lists(batch', keys)
BY OrderedList DEF Lists, Call

LEMMA FinishIdle == ASSUME NEW r, NEW d, Finish(r, d) PROVE phase' = "idle"
BY DEF Finish, Forget

\* When the uploads are over and have not bailed out, each has succeeded or is an error.
LEMMA UploadsAccounted ==
    ASSUME Planned, phase = "upload", Drained, ~Bailed, NEW k \in Sources,
           result' = [result EXCEPT !.uploaded = Ended("done") \ skipped, !.errors = Failures("upload")],
           UNCHANGED <<skipped, options>>
    PROVE  Accounted(k)'
<1>1. result \in RunningResult /\ stop = options.stop
  BY DEF Planned, Typed, Phased, Busy
<1>2. result'.uploaded = Ended("done") \ skipped /\ result'.errors = Failures("upload")
  BY <1>1 DEF RunningResult
<1>3. PICK i \in 1 .. Len(batch) : batch[i] = k
  BY DEF Planned, Listing, Lists
<1>4. i \in Slots /\ outcome[i] \in {"done", "failed"}
  BY DrainedSettles, PoolOfTyped, PoolAssumption DEF Planned, Typed, TypeOK, PoolTypeOK, Slots
<1>5. CASE outcome[i] = "done"
  BY <1>2, <1>3, <1>5 DEF Accounted, Ended
<1>6. CASE outcome[i] = "failed"
  <2>1. ~stop
    BY <1>4, <1>6 DEF Bailed
  <2>2. ~options'.stop
    BY <1>1, <2>1
  <2>3. k \in Ended("failed")
    BY <1>3, <1>6 DEF Ended
  <2>4. [in |-> "upload", key |-> k] \in result'.errors
    BY <1>2, <2>3 DEF Failures
  <2>5. QED
    BY <2>2, <2>4 DEF Accounted
<1>7. QED
  BY <1>4, <1>5, <1>6

LEMMA WorkerFrame ==
    ASSUME NEW w \in Slots, Worker(w)
    PROVE  /\ UNCHANGED <<source, latest, quiet, dryRun, walked, indexed, result, phase,
                        batch, stop>>
           /\ phase = "prune" => UNCHANGED skipped
BY DEF Worker, Skip, BeginKey, CopyExists, CopyMissing, Asks, Download, DownloadFails, Upload,
   UploadFails, BeginDelete, Delete, DeleteFails, buckets, plan, progress, Take, TakeAndPass, SettleSlot, poolVars

LEMMA NextPlanned == Planned /\ [Next]_vars => Planned'
<1> SUFFICES ASSUME Planned, [Next]_vars, Typed' PROVE Listing' /\ PruneJustified'
  BY NextTyped DEF Planned
<1>1. CASE phase' \notin {"upload", "prune"}
  BY <1>1 DEF Listing, PruneJustified
<1>2. CASE UNCHANGED <<phase, batch, walked, indexed, options, result, skipped>>
  BY <1>2 DEF Planned, Listing, PruneJustified, Lists, Sources, Extraneous, Wanted, Accounted
<1>3. CASE \E w \in Slots : Worker(w) /\ UNCHANGED options
  BY <1>3, WorkerFrame
     DEF Planned, Listing, PruneJustified, Lists, Sources, Extraneous, Wanted, Accounted
<1>4. CASE BeginUploads
  <2>1. CASE dryRun
    BY <1>1, <1>4, <2>1, FinishIdle DEF BeginUploads
  <2>2. CASE ~dryRun
    <3>1. Sources \in SUBSET Keys /\ Sources' = Sources /\ phase' = "upload"
      BY <1>4, <2>2 DEF BeginUploads, plan, Sources
    <3>2. Lists(batch', Sources)
      BY <1>4, <2>2, <3>1, CallLists DEF BeginUploads
    <3>3. QED
      BY <3>1, <3>2 DEF Listing, PruneJustified
  <2>3. QED
    BY <2>1, <2>2
<1>5. CASE UploadsReturn
  <2>1. CASE phase' = "prune"
    <3>1. /\ \E list \in InOrder(Extraneous) : Call(list, options.stop)
          /\ result' = [result EXCEPT !.uploaded = Ended("done") \ skipped, !.errors = Failures("upload")]
          /\ ~Bailed /\ Drained /\ phase = "upload"
          /\ UNCHANGED <<plan, skipped>>
      BY <1>5, <2>1, FinishIdle DEF UploadsReturn
    <3>2. UNCHANGED options
      BY <1>5 DEF Next, Proceed, World, vars
    <3>3. Extraneous \in SUBSET Keys /\ Extraneous' = Extraneous /\ Sources' = Sources
      BY <3>1 DEF Extraneous, Wanted, Sources, plan
    <3>4. Lists(batch', Extraneous)
      BY <3>1, <3>3, CallLists
    <3>5. \A k \in Sources : Accounted(k)'
      BY <3>1, <3>2, UploadsAccounted
    <3>6. QED
      BY <2>1, <3>3, <3>4, <3>5 DEF Listing, PruneJustified
  <2>2. QED
    BY <1>1, <1>5, <2>1, FinishIdle DEF UploadsReturn
<1>6. CASE WalkFails \/ ListSource \/ ListDest \/ PruneReturns \/ Crash \/ Start
  <2>1. phase' \notin {"upload", "prune"}
    BY <1>6, FinishIdle DEF WalkFails, Reject, ListSource, ListDest, PruneReturns, Crash, Forget,
       Start
  <2>2. QED
    BY <1>1, <2>1
<1>7. CASE World /\ ((\E k \in Keys : Edit(k)) \/ LateLands \/ Abort)
  BY <1>2, <1>7 DEF World, Edit, LateLands, Abort, poolVars, plan, progress
<1>8. QED
  BY <1>2, <1>3, <1>4, <1>5, <1>6, <1>7 DEF Next, Proceed, World, vars, poolVars, plan, progress

LEMMA AlwaysPlanned == Spec => []Planned
<1>1. Init => Planned
  BY InitTyped DEF Init, Planned, Listing, PruneJustified
<1>2. QED
  BY <1>1, NextPlanned, PTL DEF Spec

LEMMA DeletesSpare ==
    ASSUME Planned, NEW w \in Slots, Delete(w) \/ DeleteFails(w)
    PROVE  batch[at[w]] \notin Wanted /\ \A k \in Sources : Accounted(k)
<1>1. phase = "prune" /\ at[w] \in 1 .. Len(batch)
  BY DEF Delete, DeleteFails, Planned, Typed, TypeOK, PoolTypeOK
<1>2. batch[at[w]] \in Extraneous
  BY <1>1 DEF Planned, Listing, Lists
<1>3. \A k \in Sources : Accounted(k)
  BY <1>1 DEF Planned, PruneJustified
<1>4. QED
  BY <1>2, <1>3 DEF Extraneous

(***************************************************************************)
(* A quiet call without errors leaves a mirror.                            *)
(***************************************************************************)
WalkedSource == phase = "walkSource" =>
    \A k \in Keys : walked[k] = IF k <= cursor THEN source[k] ELSE 0

WalkedDest == phase = "walkDest" =>
    \A d \in Keys : indexed[d] = IF d <= cursor THEN dest[d] ELSE 0

PlanIsTrue == phase \in {"walkDest", "upload", "prune"} => walked = source

Target(i) == TransformKey[batch[i]]

\* What a transfer without overwrite has asked for is still not there.
AskedFirst == options.compare = "exists" =>
    \A w \in Slots : stream[w] # 0 => dest[Target(at[w])] = 0

Uploading == phase = "upload" =>
    /\ \A i \in 1 .. Len(batch) : outcome[i] = "done" => Mirrored(batch[i])
    /\ \A w \in Slots : stream[w] > 0 => stream[w] = source[batch[at[w]]]
    /\ AskedFirst
    /\ ~IsTransfer =>
          /\ \A d \in Keys \ Wanted : dest[d] = indexed[d]
          /\ \A i \in 1 .. Len(batch) :
                outcome[i] \in {"waiting", "running"} => dest[Target(i)] = indexed[Target(i)]

Pruning == phase = "prune" =>
    /\ result.errors = {} => \A k \in Sources : Mirrored(k)
    /\ \A d \in Keys : d \notin Wanted \cup Extraneous => dest[d] = 0
    /\ \A i \in 1 .. Len(batch) : outcome[i] = "done" => dest[batch[i]] = 0

Quiet == quiet => WalkedSource /\ WalkedDest /\ PlanIsTrue /\ Uploading /\ Pruning /\ MirrorWhenQuiet

\* Only the listed keys' targets are wanted, each by one slot.
LEMMA TargetsApart ==
    ASSUME Planned, phase = "upload"
    PROVE  /\ \A i \in 1 .. Len(batch) : batch[i] \in Keys /\ Target(i) \in Wanted
           /\ \A i, j \in 1 .. Len(batch) : Target(i) = Target(j) => i = j
BY TransformAssumption DEF Planned, Listing, Lists, Target, Wanted, Sources, Keys

LEMMA KeysAreNumbers == \A k \in Keys : k \in Nat /\ k > 0
BY TransformAssumption, PoolAssumption DEF Keys, Slots

\* Where nothing of what it speaks of changes, the argument stands.
LEMMA QuietFrame ==
    ASSUME Quiet, quiet' => quiet,
           UNCHANGED <<source, dest, options, poolVars, walked, indexed, phase, cursor, stream,
           result>>
    PROVE  Quiet'
BY DEF Quiet, WalkedSource, WalkedDest, PlanIsTrue, Uploading, AskedFirst, IsTransfer, Pruning,
       MirrorWhenQuiet, Mirrored, Target, Wanted, Sources, Extraneous, poolVars

\* A call that ends without an "ok" claims nothing.
LEMMA QuietIdle ==
    ASSUME phase' = "idle", result'.status # "ok"
    PROVE  Quiet'
BY DEF Quiet, WalkedSource, WalkedDest, PlanIsTrue, Uploading, Pruning, MirrorWhenQuiet

LEMMA QuietSource ==
    ASSUME Planned, Quiet, ListSource, UNCHANGED options
    PROVE  Quiet'
<1> SUFFICES ASSUME quiet' PROVE WalkedSource' /\ WalkedDest' /\ PlanIsTrue'
  BY DEF ListSource, Quiet, Uploading, Pruning, MirrorWhenQuiet
<1>1. quiet /\ WalkedSource /\ phase = "walkSource" /\ UNCHANGED <<source, dest, indexed>>
  BY DEF ListSource, Quiet, buckets
<1>2. /\ walked \in [Keys -> Contents] /\ source \in [Keys -> Contents]
      /\ cursor \in Nat /\ indexed = Nothing
  BY <1>1, KeysAreNumbers DEF Planned, Typed, TypeOK, Phased
<1>3. CASE AtEnd(source)
  <2>1. phase' = "walkDest" /\ cursor' = 0 /\ walked' = walked
    BY <1>3 DEF ListSource
  <2>2. \A k \in Keys : walked[k] = source[k]
    BY <1>1, <1>2, <1>3, KeysAreNumbers DEF WalkedSource, AtEnd
  <2>3. walked' = source'
    BY <1>1, <1>2, <2>1, <2>2
  <2>4. WalkedDest'
    BY <1>1, <1>2, <2>1, KeysAreNumbers DEF WalkedDest, Nothing
  <2>5. QED
    BY <2>1, <2>3, <2>4 DEF WalkedSource, PlanIsTrue
<1>4. ASSUME NEW k \in Page(source), walked' = [walked EXCEPT ![k] = source[k]], cursor' = k,
             UNCHANGED phase
      PROVE  WalkedSource' /\ WalkedDest' /\ PlanIsTrue'
  <2>1. k \in Keys /\ k > cursor /\ \A x \in Keys : source[x] # 0 /\ x > cursor => k <= x
    BY DEF Page
  <2>2. \A x \in Keys : walked'[x] = IF x <= k THEN source[x] ELSE 0
    BY <1>1, <1>2, <1>4, <2>1, KeysAreNumbers DEF WalkedSource
  <2>3. QED
    BY <1>1, <1>4, <2>2 DEF WalkedSource, WalkedDest, PlanIsTrue
<1>5. QED
  BY <1>3, <1>4 DEF ListSource

LEMMA QuietDest ==
    ASSUME Planned, Quiet, ListDest, UNCHANGED options
    PROVE  Quiet'
<1> SUFFICES ASSUME quiet' PROVE WalkedDest' /\ PlanIsTrue'
  BY DEF ListDest, Quiet, WalkedSource, Uploading, Pruning, MirrorWhenQuiet
<1>1. WalkedDest /\ PlanIsTrue /\ phase = "walkDest" /\ UNCHANGED <<phase, source, dest, walked>>
  BY DEF ListDest, Quiet, buckets
<1>2. indexed \in [Keys -> Contents] /\ cursor \in Nat
  BY KeysAreNumbers DEF Planned, Typed, TypeOK
<1>3. PICK k \in Page(dest) : indexed' = [indexed EXCEPT ![k] = dest[k]] /\ cursor' = k
  BY DEF ListDest
<1>4. k \in Keys /\ k > cursor /\ \A x \in Keys : dest[x] # 0 /\ x > cursor => k <= x
  BY DEF Page
<1>5. \A d \in Keys : dest[d] # 0 \/ dest[d] = 0
  OBVIOUS
<1>6. \A d \in Keys : indexed'[d] = IF d <= k THEN dest[d] ELSE 0
  BY <1>1, <1>2, <1>3, <1>4, KeysAreNumbers DEF WalkedDest
<1>7. QED
  BY <1>1, <1>3, <1>6 DEF WalkedDest, PlanIsTrue

LEMMA QuietBegin ==
    ASSUME Planned, Quiet, BeginUploads, UNCHANGED options
    PROVE  Quiet'
<1>1. CASE dryRun
  BY <1>1, QuietIdle DEF BeginUploads, Finish, Forget
<1>2. CASE ~dryRun
  <2> SUFFICES ASSUME quiet' PROVE PlanIsTrue' /\ Uploading'
    BY <1>2 DEF BeginUploads, Quiet, WalkedSource, WalkedDest, Pruning, MirrorWhenQuiet
  <2>1. /\ quiet /\ WalkedSource /\ WalkedDest /\ PlanIsTrue /\ phase' = "upload" /\ WalksDone
        /\ UNCHANGED <<source, dest, walked, indexed, stream>>
    BY <1>2 DEF BeginUploads, Quiet, buckets, plan
  <2>2. ~IsTransfer => \A d \in Keys : dest[d] = indexed[d]
    BY <2>1, KeysAreNumbers DEF WalkedDest, WalksDone, AtEnd, Planned, Typed, TypeOK
  <2>3. PlanIsTrue'
    <3>1. CASE IsTransfer
      <4>1. \A k \in Keys : walked[k] = source[k]
        BY <2>1, <3>1, KeysAreNumbers DEF WalkedSource, WalksDone, AtEnd, Planned, Typed, TypeOK
      <4>2. walked = source
        BY <4>1 DEF Planned, Typed, TypeOK
      <4>3. QED
        BY <2>1, <4>2 DEF PlanIsTrue
    <3>2. CASE ~IsTransfer
      BY <2>1, <3>2 DEF PlanIsTrue, WalksDone
    <3>3. QED
      BY <3>1, <3>2
  <2>4. \A i \in Slots : outcome'[i] = "waiting"
    BY <1>2 DEF BeginUploads, Call
  <2>5. Planned'
    BY NextPlanned DEF Next, Proceed
  <2>6. \A i \in 1 .. Len(batch') : i \in Slots /\ Target(i)' \in Keys
    <3>1. Len(batch') <= MaxItems /\ Len(batch') \in Nat /\ \A i \in 1 .. Len(batch') : batch'[i] \in Items
      BY <2>5 DEF Planned, Typed, TypeOK, PoolTypeOK
    <3>2. \A k \in Items : TransformKey'[k] \in Keys
      BY TransformAssumption DEF Keys
    <3>3. QED
      BY <3>1, <3>2, PoolAssumption DEF Slots, Target
  <2>7. \A w \in Slots : stream'[w] = 0
    BY <2>1 DEF WalksDone, Planned, Typed, Phased
  <2>8. Uploading'
    BY <2>1, <2>2, <2>4, <2>6, <2>7 DEF Uploading, AskedFirst, IsTransfer
  <2>9. QED
    BY <2>3, <2>8
<1>3. QED
  BY <1>1, <1>2

\* The upload phase, told by what a worker's step does to its slot j and to the slot's
\* target; done says that the slot ends well.
LEMMA QuietSlot ==
    ASSUME Planned, Quiet, phase = "upload", quiet, Planned',
           NEW w \in Slots, Worker(w), UNCHANGED options,
           NEW j \in 1 .. Len(batch),
           \A i \in 1 .. Len(batch) : i # j => outcome'[i] = outcome[i],
           \A d \in Keys : d # Target(j) => dest'[d] = dest[d],
           outcome'[j] = "done" => Mirrored(batch[j])',
           outcome'[j] = "running" /\ ~IsTransfer => dest'[Target(j)] = indexed[Target(j)],
           outcome'[j] # "waiting",
           \A v \in Slots : stream'[v] > 0 => stream'[v] = source[batch[at'[v]]],
           options.compare = "exists" =>
              \A v \in Slots : stream'[v] # 0 => dest'[Target(at'[v])] = 0
    PROVE  Uploading'
<1>1. UNCHANGED <<source, walked, indexed, phase, batch, quiet>>
  BY WorkerFrame
<1>2. Uploading
  BY DEF Quiet
<1>3. \A i \in 1 .. Len(batch) : Target(i)' = Target(i)
  BY <1>1 DEF Target
<1>4. Wanted' = Wanted
  BY <1>1 DEF Wanted, Sources
<1>5. ~IsTransfer => \A d \in Keys \ Wanted : dest'[d] = indexed'[d]
  BY <1>1, <1>2, TargetsApart DEF Uploading
<1>6. ASSUME NEW i \in 1 .. Len(batch), i # j, outcome[i] = "done"
      PROVE  Mirrored(batch[i])'
  <2>1. Target(i) # Target(j) /\ Target(i) \in Keys
    BY <1>6, TargetsApart, TransformAssumption DEF Target, Keys
  <2>2. dest'[Target(i)] = dest[Target(i)]
    BY <2>1
  <2>3. Mirrored(batch[i])
    BY <1>2, <1>6 DEF Uploading
  <2>4. QED
    BY <1>1, <2>2, <2>3 DEF Mirrored, Target
<1>7. ASSUME ~IsTransfer, NEW i \in 1 .. Len(batch), i # j, outcome[i] \in {"waiting", "running"}
      PROVE  dest'[Target(i)] = indexed[Target(i)]
  <2>1. Target(i) # Target(j) /\ Target(i) \in Keys
    BY <1>7, TargetsApart, TransformAssumption DEF Target, Keys
  <2>2. QED
    BY <1>2, <1>7, <2>1 DEF Uploading
<1>8. AskedFirst'
  BY <1>1 DEF AskedFirst, Target
<1>9. IsTransfer' = IsTransfer
  BY DEF IsTransfer
<1>10. QED
  BY <1>1, <1>3, <1>4, <1>5, <1>6, <1>7, <1>8, <1>9 DEF Uploading

LEMMA SlotTaken ==
    ASSUME Planned, NEW w \in Slots, Take(w) \/ TakeAndPass(w)
    PROVE  /\ index + 1 \in 1 .. Len(batch) /\ index + 1 \in Slots /\ index + 1 # 0
           /\ outcome[index + 1] = "waiting"
<1>1. index + 1 \in 1 .. Len(batch) /\ Len(batch) <= MaxItems /\ index \in Nat
  BY DEF Take, TakeAndPass, Free, Planned, Typed, TypeOK, PoolTypeOK
<1>2. index + 1 \in Slots
  BY <1>1, PoolAssumption DEF Slots
<1>3. QED
  BY <1>1, <1>2 DEF Planned, Typed, OncePerItem

LEMMA SlotHeld ==
    ASSUME Planned, NEW w \in Slots, at[w] # 0
    PROVE  /\ at[w] \in 1 .. Len(batch) /\ at[w] \in Slots
           /\ outcome[at[w]] = "running"
           /\ \A v \in Slots : v # w => at[v] # at[w]
<1>1. at[w] \in 1 .. Len(batch) /\ Len(batch) <= MaxItems
  BY DEF Planned, Typed, TypeOK, PoolTypeOK
<1>2. at[w] \in Slots
  BY <1>1, PoolAssumption DEF Slots
<1>3. QED
  BY <1>1, <1>2 DEF Planned, Typed, OncePerItem

LEMMA QuietUpload ==
    ASSUME Planned, Quiet, NEW w \in Slots, Worker(w), UNCHANGED options, phase = "upload", quiet,
           Planned'
    PROVE  Uploading'
<1>1. UNCHANGED <<source, walked, indexed, phase, batch, quiet>>
  BY WorkerFrame
<1>2. Uploading /\ AskedFirst /\ walked = source
  BY DEF Quiet, PlanIsTrue, Uploading
<1>3. /\ dest \in [Keys -> Contents] /\ stream \in [Slots -> Contents \cup {Vacant}] /\ at \in [Slots -> 0 .. Len(batch)]
      /\ outcome \in [Slots -> Outcomes]
  BY DEF Planned, Typed, TypeOK, PoolTypeOK
<1>4. \A i \in 1 .. Len(batch) : i \in Slots /\ batch[i] \in Keys /\ Target(i) \in Keys
  <2>1. Len(batch) <= MaxItems /\ Len(batch) \in Nat /\ \A i \in 1 .. Len(batch) : batch[i] \in Items
    BY DEF Planned, Typed, TypeOK, PoolTypeOK
  <2>2. \A k \in Items : TransformKey[k] \in Keys
    BY TransformAssumption DEF Keys
  <2>3. QED
    BY <2>1, <2>2, PoolAssumption DEF Keys, Slots, Target
<1>5. \A v \in Slots : /\ stream[v] > 0 => stream[v] = source[batch[at[v]]]
                       /\ stream[v] # 0 => at[v] # 0
  BY <1>2 DEF Uploading, Planned, Typed, Phased
<1>15. options.compare = "exists" =>
          \A v \in Slots : stream[v] # 0 => dest[Target(at[v])] = 0
  BY <1>2 DEF AskedFirst
<1>6. CASE Skip(w)
  <2>1. PICK j \in 1 .. Len(batch) :
            /\ j = index + 1 /\ outcome[j] = "waiting" /\ outcome' = [outcome EXCEPT ![j] = "done"]
    BY <1>6, SlotTaken DEF Skip, TakeAndPass
  <2>2. UNCHANGED <<dest, at, stream>>
    BY <1>6 DEF Skip, TakeAndPass, buckets
  <2>3. Unchanged(batch[j]) /\ dest[Target(j)] = indexed[Target(j)] /\ ~IsTransfer
    BY <1>2, <1>6, <2>1 DEF Skip, Uploading, Unchanged
  <2>4. Mirrored(batch[j])
    BY <1>2, <2>3 DEF Unchanged, Mirrored, Target
  <2>5. Mirrored(batch[j])'
    BY <1>1, <2>2, <2>4 DEF Mirrored
  <2>6. outcome'[j] = "done" /\ \A i \in 1 .. Len(batch) : i # j => outcome'[i] = outcome[i]
    BY <1>3, <1>4, <2>1
  <2>7. /\ \A v \in Slots : stream'[v] > 0 => stream'[v] = source[batch[at'[v]]]
        /\ options.compare # "exists"
    BY <1>5, <2>2, <2>3 DEF IsTransfer
  <2>8. QED
    BY <2>2, <2>5, <2>6, <2>7, QuietSlot
<1>7. CASE BeginKey(w)
  <2>1. PICK j \in 1 .. Len(batch) :
            /\ outcome[j] = "waiting" /\ outcome' = [outcome EXCEPT ![j] = "running"]
            /\ at' = [at EXCEPT ![w] = j] /\ at[w] = 0
    BY <1>7, SlotTaken DEF BeginKey, Take, Free
  <2>2. UNCHANGED <<dest, stream>>
    BY <1>7 DEF BeginKey, buckets
  <2>3. ~IsTransfer => dest'[Target(j)] = indexed[Target(j)]
    BY <1>2, <2>1, <2>2 DEF Uploading
  <2>4. stream[w] = 0
    BY <1>5, <2>1
  <2>5. /\ \A v \in Slots : stream'[v] > 0 => stream'[v] = source[batch[at'[v]]]
        /\ options.compare = "exists" =>
              \A v \in Slots : stream'[v] # 0 => dest'[Target(at'[v])] = 0
    BY <1>3, <1>5, <1>15, <2>1, <2>2, <2>4
  <2>6. outcome'[j] = "running" /\ \A i \in 1 .. Len(batch) : i # j => outcome'[i] = outcome[i]
    BY <1>3, <1>4, <2>1
  <2>7. QED
    BY <2>2, <2>3, <2>5, <2>6, QuietSlot
<1>8. CASE Download(w)
  <2>1. PICK j \in 1 .. Len(batch) :
            /\ j = at[w] /\ outcome[j] = "running"
            /\ UNCHANGED <<dest, outcome, at>> /\ stream' = [stream EXCEPT ![w] = source[batch[j]]]
    BY <1>8, SlotHeld DEF Download, buckets, poolVars
  <2>2. ~IsTransfer => dest'[Target(j)] = indexed[Target(j)]
    BY <1>2, <2>1 DEF Uploading
  <2>3. \A v \in Slots : stream'[v] > 0 => stream'[v] = source[batch[at'[v]]]
    BY <1>3, <1>5, <2>1
  <2>4. options.compare = "exists" =>
              \A v \in Slots : stream'[v] # 0 => dest'[Target(at'[v])] = 0
    BY <1>3, <1>8, <1>15, <2>1 DEF Download, Vacant
  <2>5. QED
    BY <1>1, <1>4, <2>1, <2>2, <2>3, <2>4, QuietSlot
<1>16. CASE CopyMissing(w)
  <2>1. PICK j \in 1 .. Len(batch) :
            /\ j = at[w] /\ outcome[j] = "running" /\ dest[Target(j)] = 0
            /\ UNCHANGED <<dest, outcome, at>> /\ stream' = [stream EXCEPT ![w] = Vacant]
    BY <1>16, SlotHeld DEF CopyMissing, Asks, buckets, poolVars, Target
  <2>2. ~IsTransfer => dest'[Target(j)] = indexed[Target(j)]
    BY <1>2, <2>1 DEF Uploading
  <2>3. \A v \in Slots : stream'[v] > 0 => stream'[v] = source[batch[at'[v]]]
    BY <1>3, <1>5, <2>1 DEF Vacant
  <2>4. options.compare = "exists" =>
              \A v \in Slots : stream'[v] # 0 => dest'[Target(at'[v])] = 0
    BY <1>3, <1>15, <2>1
  <2>5. QED
    BY <1>1, <1>4, <2>1, <2>2, <2>3, <2>4, QuietSlot
<1>17. CASE CopyExists(w)
  <2>1. PICK j \in 1 .. Len(batch) :
            /\ j = at[w] /\ outcome[j] = "running" /\ dest[Target(j)] # 0
            /\ outcome' = [outcome EXCEPT ![j] = "done"] /\ at' = [at EXCEPT ![w] = 0]
            /\ UNCHANGED <<dest, stream>> /\ stream[w] = 0 /\ options.compare = "exists"
    BY <1>17, SlotHeld DEF CopyExists, Asks, buckets, SettleSlot, Target
  <2>2. outcome'[j] = "done" /\ \A i \in 1 .. Len(batch) : i # j => outcome'[i] = outcome[i]
    BY <1>3, <1>4, <2>1
  <2>3. Mirrored(batch[j])'
    BY <1>1, <2>1 DEF Mirrored, Target
  <2>4. \A v \in Slots : stream'[v] > 0 => stream'[v] = source[batch[at'[v]]]
    BY <1>3, <1>5, <2>1
  <2>5. \A v \in Slots : stream'[v] # 0 => dest'[Target(at'[v])] = 0
    BY <1>3, <1>15, <2>1
  <2>6. QED
    BY <2>1, <2>2, <2>3, <2>4, <2>5, QuietSlot
<1>9. ASSUME at[w] # 0, NEW how \in {"done", "failed"}, SettleSlot(w, how),
             stream' = [stream EXCEPT ![w] = 0],
             \A d \in Keys : d # Target(at[w]) => dest'[d] = dest[d],
             how = "done" => stream[w] > 0 /\ dest'[Target(at[w])] = stream[w]
      PROVE  Uploading'
  <2>1. PICK j \in 1 .. Len(batch) :
            /\ j = at[w] /\ outcome[j] = "running"
            /\ outcome' = [outcome EXCEPT ![j] = how] /\ at' = [at EXCEPT ![w] = 0]
    BY <1>9, SlotHeld DEF SettleSlot
  <2>2. outcome'[j] = how /\ \A i \in 1 .. Len(batch) : i # j => outcome'[i] = outcome[i]
    BY <1>3, <1>4, <2>1
  <2>3. ASSUME how = "done" PROVE Mirrored(batch[j])'
    <3>1. dest'[TransformKey[batch[j]]] = source[batch[j]] /\ source[batch[j]] # 0
      BY <1>5, <1>9, <2>1, <2>3 DEF Target
    <3>2. QED
      BY <1>1, <3>1 DEF Mirrored
  <2>4. \A v \in Slots : stream'[v] > 0 => stream'[v] = source[batch[at'[v]]]
    BY <1>3, <1>5, <1>9, <2>1
  <2>5. \A d \in Keys : d # Target(j) => dest'[d] = dest[d]
    BY <1>9, <2>1
  <2>6. options.compare = "exists" =>
              \A v \in Slots : stream'[v] # 0 => dest'[Target(at'[v])] = 0
    <3> SUFFICES ASSUME options.compare = "exists", NEW v \in Slots, stream'[v] # 0
                 PROVE  dest'[Target(at'[v])] = 0
      OBVIOUS
    <3>1. v # w /\ stream[v] # 0 /\ at'[v] = at[v]
      BY <1>3, <1>9, <2>1
    <3>2. at[v] \in 1 .. Len(batch) /\ at[v] # j
      BY <1>5, <2>1, <3>1, SlotHeld
    <3>3. Target(at[v]) # Target(j) /\ Target(at[v]) \in Keys
      BY <1>4, <3>2, TargetsApart
    <3>4. QED
      BY <1>15, <2>5, <3>1, <3>3
  <2>7. QED
    BY <2>2, <2>3, <2>4, <2>5, <2>6, QuietSlot
<1>10. CASE DownloadFails(w)
  <2>1. stream' = [stream EXCEPT ![w] = 0] /\ UNCHANGED dest
    BY <1>10 DEF DownloadFails, buckets
  <2>2. QED
    BY <1>9, <1>10, <2>1 DEF DownloadFails
<1>11. CASE Upload(w)
  <2>1. at[w] \in 1 .. Len(batch)
    BY <1>11, SlotHeld DEF Upload, SettleSlot
  <2>2. dest' = [dest EXCEPT ![Target(at[w])] = stream[w]]
    BY <1>11 DEF Upload, Write, Target
  <2>3. QED
    BY <1>3, <1>4, <1>9, <1>11, <2>1, <2>2 DEF Upload, SettleSlot
<1>12. CASE UploadFails(w)
  <2>1. \A d \in Keys : d # Target(at[w]) => dest'[d] = dest[d]
    BY <1>3, <1>12 DEF UploadFails, LosesTrack, Write, Target
  <2>2. QED
    BY <1>9, <1>12, <2>1 DEF UploadFails, SettleSlot
<1>13. QED
  BY <1>6, <1>7, <1>8, <1>10, <1>11, <1>12, <1>16, <1>17 DEF Worker, BeginDelete, Delete,
     DeleteFails

LEMMA QuietPrune ==
    ASSUME Planned, Quiet, NEW w \in Slots, Worker(w), UNCHANGED options, phase = "prune", quiet
    PROVE  Pruning'
<1>1. UNCHANGED <<source, walked, indexed, result, phase, batch, quiet>>
  BY WorkerFrame
<1>2. Pruning /\ Lists(batch, Extraneous)
  BY DEF Quiet, Planned, Listing
<1>3. Sources' = Sources /\ Wanted' = Wanted /\ Extraneous' = Extraneous
  BY <1>1 DEF Sources, Wanted, Extraneous
<1>4. /\ dest \in [Keys -> Contents] /\ outcome \in [Slots -> Outcomes]
      /\ \A i \in 1 .. Len(batch) : i \in Slots
  BY PoolAssumption DEF Planned, Typed, TypeOK, PoolTypeOK, Slots
<1>5. CASE BeginDelete(w)
  <2>1. UNCHANGED dest /\ outcome' = [outcome EXCEPT ![index + 1] = "running"]
    BY <1>5 DEF BeginDelete, Take, buckets
  <2>2. index + 1 \in Slots
    BY <1>5, SlotTaken DEF BeginDelete
  <2>3. \A i \in 1 .. Len(batch) : outcome'[i] = "done" => outcome[i] = "done"
    BY <1>4, <2>1, <2>2
  <2>4. QED
    BY <1>1, <1>2, <1>3, <2>1, <2>3 DEF Pruning, Mirrored
<1>6. CASE Delete(w) \/ DeleteFails(w)
  <2> DEFINE j == at[w]
  <2>1. j \in 1 .. Len(batch) /\ j \in Slots /\ batch[j] \in Extraneous
    BY <1>2, <1>6, SlotHeld DEF Delete, DeleteFails, Lists
  <2>2. \/ /\ dest' = [dest EXCEPT ![batch[j]] = 0]
           /\ \E how \in {"done", "failed"} : outcome' = [outcome EXCEPT ![j] = how]
        \/ UNCHANGED dest /\ outcome' = [outcome EXCEPT ![j] = "failed"]
    BY <1>6 DEF Delete, DeleteFails, SettleSlot, LosesTrack, Write
  <2> HIDE DEF j
  <2>3. \A d \in Keys : d # batch[j] => dest'[d] = dest[d]
    BY <1>4, <2>2
  <2>4. \A i \in 1 .. Len(batch) : outcome'[i] = "done" => dest'[batch[i]] = 0
    <3> SUFFICES ASSUME NEW i \in 1 .. Len(batch), outcome'[i] = "done" PROVE dest'[batch[i]] = 0
      OBVIOUS
    <3>1. batch[i] \in Keys /\ batch[j] \in Keys /\ (batch[i] = batch[j] => i = j)
      BY <1>2, <2>1 DEF Lists, Extraneous
    <3>2. CASE i = j
      BY <1>4, <2>1, <2>2, <3>1, <3>2
    <3>3. CASE i # j
      <4>1. outcome[i] = "done"
        BY <1>4, <2>1, <2>2, <3>3
      <4>2. dest[batch[i]] = 0
        BY <1>1, <1>2, <4>1 DEF Pruning
      <4>3. QED
        BY <2>3, <3>1, <3>3, <4>2
    <3>4. QED
      BY <3>2, <3>3
  <2>5. \A k \in Sources : TransformKey[k] \in Wanted /\ TransformKey[k] \in Keys
    BY TransformAssumption DEF Sources, Wanted, Keys
  <2>6. \A k \in Sources : Mirrored(k) => Mirrored(k)'
    <3>1. \A k \in Sources : dest'[TransformKey[k]] = dest[TransformKey[k]]
      BY <2>1, <2>3, <2>5 DEF Extraneous
    <3>2. QED
      BY <1>1, <3>1 DEF Mirrored
  <2>7. QED
    BY <1>1, <1>2, <1>3, <2>1, <2>3, <2>4, <2>6 DEF Pruning
<1>7. QED
  BY <1>5, <1>6 DEF Worker, Skip, BeginKey, CopyExists, CopyMissing, Asks, Download,
     DownloadFails, Upload, UploadFails

LEMMA PruneIsSync == Typed /\ options.prune => ~IsTransfer
BY DEF Typed, TypeOK, Options, IsTransfer

\* The end of the uploads, in a call without errors so far.
LEMMA UploadsMirror ==
    ASSUME Planned, Quiet, quiet, phase = "upload", Drained, Failures("upload") = {}
    PROVE  /\ ~Bailed
           /\ \A k \in Sources : Mirrored(k)
           /\ options.prune => \A d \in Keys \ Wanted : dest[d] = indexed[d]
           /\ walked = source
<1>1. \A i \in 1 .. Len(batch) : outcome[i] # "failed"
  BY DEF Failures, Ended
<1>2. \A i \in Slots : i > Len(batch) => outcome[i] # "failed"
  BY PoolAssumption DEF Planned, Typed, TypeOK, PoolTypeOK, OncePerItem, Slots
<1>3. ~Bailed
  BY <1>1, <1>2, PoolAssumption DEF Bailed, Slots, Planned, Typed, TypeOK, PoolTypeOK
<1>4. \A i \in 1 .. Len(batch) : outcome[i] = "done"
  BY <1>1, <1>3, DrainedSettles, PoolOfTyped DEF Planned
<1>5. options.prune => ~IsTransfer
  BY PruneIsSync DEF Planned
<1>6. QED
  BY <1>3, <1>4, <1>5 DEF Quiet, Uploading, PlanIsTrue, Planned, Listing, Lists

\* What a mirror says of the destination, in terms of the plan.
LEMMA NothingExtra ==
    ASSUME walked = source, \A d \in Keys \ Wanted : dest[d] = 0
    PROVE  \A k \in Keys : dest[TransformKey[k]] # 0 => source[k] # 0
BY TransformAssumption DEF Wanted, Sources, Keys

LEMMA QuietReturn ==
    ASSUME Planned, Quiet, UploadsReturn \/ PruneReturns, UNCHANGED options
    PROVE  Quiet'
<1>1. result \in RunningResult
  BY DEF UploadsReturn, PruneReturns, Planned, Typed, Phased, Busy
<1>2. ASSUME NEW r, NEW n, Finish(r, n), phase' = "idle",
             quiet /\ r.status = "ok" /\ r.errors = {} =>
                /\ walked = source
                /\ \A k \in Sources : Mirrored(k)
                /\ options.prune => \A d \in Keys \ Wanted : dest[d] = 0
      PROVE  Quiet'
  <2>1. UNCHANGED <<source, dest, quiet>> /\ result' = r
    BY <1>2 DEF Finish, buckets
  <2>2. SUFFICES ASSUME quiet, r.status = "ok", r.errors = {} PROVE MirrorWhenQuiet'
    BY <1>2, <2>1 DEF Quiet, WalkedSource, WalkedDest, PlanIsTrue, Uploading, Pruning,
       MirrorWhenQuiet
  <2>3. \A k \in Keys : source[k] # 0 => Mirrored(k)
    BY <1>2, <2>2 DEF Sources
  <2>4. \A k \in Keys : source'[k] # 0 => Mirrored(k)'
    BY <2>1, <2>3 DEF Mirrored
  <2>5. options.prune => \A k \in Keys : dest[TransformKey[k]] # 0 => source[k] # 0
    BY <1>2, <2>2, NothingExtra
  <2>6. QED
    BY <2>1, <2>4, <2>5 DEF MirrorWhenQuiet
<1>3. CASE UploadsReturn
  <2> DEFINE r == [result EXCEPT !.uploaded = Ended("done") \ skipped,
                              !.errors = Failures("upload")]
  <2>1. r.errors = Failures("upload") /\ [r EXCEPT !.status = "ok"].errors = Failures("upload")
    BY <1>1 DEF RunningResult
  <2>2. Drained /\ phase = "upload"
    BY <1>3 DEF UploadsReturn
  <2>3. CASE options.prune /\ Extraneous # {} /\ ~Bailed
    <3>1. /\ phase' = "prune" /\ result' = r
          /\ UNCHANGED <<source, dest, quiet, walked, indexed>>
          /\ \E list \in InOrder(Extraneous) : Call(list, options.stop)
      BY <1>3, <2>3 DEF UploadsReturn, buckets, plan
    <3> HIDE DEF r
    <3>2. SUFFICES ASSUME quiet PROVE PlanIsTrue' /\ Pruning'
      BY <3>1 DEF Quiet, WalkedSource, WalkedDest, Uploading, MirrorWhenQuiet
    <3>3. walked = source /\ \A d \in Keys \ Wanted : dest[d] = indexed[d]
      BY <2>2, <2>3, <3>2, PruneIsSync DEF Quiet, PlanIsTrue, Uploading, Planned
    <3>4. Sources' = Sources /\ Wanted' = Wanted /\ Extraneous' = Extraneous
      BY <3>1 DEF Sources, Wanted, Extraneous
    <3>5. result'.errors = {} => \A k \in Sources : Mirrored(k)'
      <4>1. result'.errors = {} => \A k \in Sources : Mirrored(k)
        BY <2>1, <2>2, <3>1, <3>2, UploadsMirror
      <4>2. QED
        BY <3>1, <4>1 DEF Mirrored
    <3>6. \A d \in Keys : d \notin Wanted \cup Extraneous => dest[d] = 0
      BY <3>3 DEF Extraneous
    <3>7. \A i \in 1 .. Len(batch') : outcome'[i] # "done"
      <4>1. Planned'
        BY <1>3, NextPlanned DEF Next, Proceed
      <4>2. \A i \in 1 .. Len(batch') : i \in Slots
        BY <4>1, PoolAssumption DEF Planned, Typed, TypeOK, PoolTypeOK, Slots
      <4>3. QED
        BY <3>1, <4>2 DEF Call
    <3>8. QED
      BY <3>1, <3>3, <3>4, <3>5, <3>6, <3>7 DEF PlanIsTrue, Pruning
  <2>4. CASE ~(options.prune /\ Extraneous # {} /\ ~Bailed)
    <3>1. Finish([r EXCEPT !.status = "ok"], done)
      BY <1>3, <2>4 DEF UploadsReturn
    <3>2. phase' = "idle"
      BY <3>1, FinishIdle
    <3>3. ASSUME quiet, Failures("upload") = {}
          PROVE  /\ walked = source
                 /\ \A k \in Sources : Mirrored(k)
                 /\ options.prune => \A d \in Keys \ Wanted : dest[d] = 0
      <4>1. /\ ~Bailed /\ walked = source /\ \A k \in Sources : Mirrored(k)
            /\ options.prune => \A d \in Keys \ Wanted : dest[d] = indexed[d]
        BY <2>2, <3>3, UploadsMirror
      <4>2. options.prune => Extraneous = {}
        BY <2>4, <4>1
      <4>3. QED
        BY <4>1, <4>2 DEF Extraneous
    <3> HIDE DEF r
    <3>4. QED
      BY <1>2, <2>1, <3>1, <3>2, <3>3
  <2>5. QED
    BY <2>3, <2>4
<1>4. CASE PruneReturns
  <2> DEFINE r == [status |-> "ok", uploaded |-> result.uploaded, deleted |-> Ended("done"),
                   errors |-> result.errors \cup Failures("prune")]
  <2>1. Finish(r, done + Cardinality(Ended("done"))) /\ Drained /\ phase = "prune"
    BY <1>4 DEF PruneReturns
  <2>2. phase' = "idle"
    BY <2>1, FinishIdle
  <2>3. ASSUME quiet, result.errors = {}, Failures("prune") = {}
        PROVE  /\ walked = source
               /\ \A k \in Sources : Mirrored(k)
               /\ \A d \in Keys \ Wanted : dest[d] = 0
    <3>1. Pruning /\ walked = source
      BY <2>1, <2>3 DEF Quiet, PlanIsTrue
    <3>2. \A i \in 1 .. Len(batch) : outcome[i] # "failed"
      <4>1. Ended("failed") = {}
        BY <2>3 DEF Failures
      <4>2. QED
        BY <4>1 DEF Ended
    <3>3. \A i \in Slots : i > Len(batch) => outcome[i] # "failed"
      BY PoolAssumption DEF Planned, Typed, TypeOK, PoolTypeOK, OncePerItem, Slots
    <3>4. ~Bailed
      BY <3>2, <3>3, PoolAssumption DEF Bailed, Slots, Planned, Typed, TypeOK, PoolTypeOK
    <3>5. \A i \in 1 .. Len(batch) : outcome[i] = "done"
      BY <2>1, <3>2, <3>4, DrainedSettles, PoolOfTyped DEF Planned
    <3>6. \A d \in Extraneous : dest[d] = 0
      BY <2>1, <3>1, <3>5 DEF Pruning, Planned, Listing, Lists
    <3>7. QED
      BY <2>1, <2>3, <3>1, <3>6 DEF Pruning
  <2>4. r.errors = result.errors \cup Failures("prune")
    OBVIOUS
  <2> HIDE DEF r
  <2>5. QED
    BY <1>2, <2>1, <2>2, <2>3, <2>4
<1>5. QED
  BY <1>3, <1>4

LEMMA QuietWorld ==
    ASSUME Planned, Quiet, World
    PROVE  Quiet'
<1>1. CASE (\E k \in Keys : Edit(k)) \/ LateLands
  <2>1. quiet' = FALSE
    BY <1>1 DEF Edit, LateLands
  <2>2. QED
    BY <2>1 DEF Quiet
<1>2. CASE Abort
  BY <1>2, QuietFrame DEF World, Abort, buckets, plan, progress
<1>3. CASE Start
  <2>1. /\ phase' = "walkSource" /\ cursor' = 0 /\ walked' = Nothing
    BY <1>3 DEF Start, Planned, Typed, Phased
  <2>2. WalkedSource'
    BY <2>1, KeysAreNumbers DEF WalkedSource, Nothing
  <2>3. QED
    BY <2>1, <2>2 DEF Quiet, WalkedDest, PlanIsTrue, Uploading, Pruning, MirrorWhenQuiet
<1>4. CASE Crash
  <2>1. phase' = "idle" /\ result'.status # "ok"
    BY <1>4 DEF Crash, Forget, NoResult
  <2>2. QED
    BY <2>1, QuietIdle
<1>5. QED
  BY <1>1, <1>2, <1>3, <1>4 DEF World

LEMMA NextQuiet == Planned /\ Quiet /\ [Next]_vars => Quiet'
<1> SUFFICES ASSUME Planned, Quiet, [Next]_vars PROVE Quiet'
  OBVIOUS
<1>1. Planned'
  BY NextPlanned
<1>2. CASE World
  BY <1>2, QuietWorld
<1>3. CASE UNCHANGED vars
  BY <1>3, QuietFrame DEF vars, poolVars, buckets, plan, progress
<1>4. CASE Proceed
  <2>1. UNCHANGED options
    BY <1>4 DEF Proceed
  <2>2. CASE WalkFails
    <3>1. phase' = "idle" /\ result'.status # "ok"
      BY <2>2 DEF WalkFails, Reject, Finish, Forget
    <3>2. QED
      BY <3>1, QuietIdle
  <2>3. CASE ListSource \/ ListDest \/ BeginUploads \/ UploadsReturn \/ PruneReturns
    BY <2>1, <2>3, QuietSource, QuietDest, QuietBegin, QuietReturn
  <2>4. ASSUME NEW w \in Slots, Worker(w) PROVE Quiet'
    <3>1. UNCHANGED <<source, walked, indexed, phase, quiet>> /\ phase \in {"upload", "prune"}
      BY <2>4, WorkerFrame
         DEF Worker, Skip, BeginKey, CopyExists, CopyMissing, Asks, Download, DownloadFails,
         Upload, UploadFails, BeginDelete, Delete, DeleteFails
    <3>2. SUFFICES ASSUME quiet PROVE PlanIsTrue' /\ Uploading' /\ Pruning'
      BY <3>1 DEF Quiet, WalkedSource, WalkedDest, MirrorWhenQuiet
    <3>3. PlanIsTrue'
      BY <3>1, <3>2 DEF Quiet, PlanIsTrue
    <3>4. CASE phase = "upload"
      BY <1>1, <2>1, <2>4, <3>1, <3>2, <3>3, <3>4, QuietUpload DEF Pruning
    <3>5. CASE phase = "prune"
      BY <2>1, <2>4, <3>1, <3>2, <3>3, <3>5, QuietPrune DEF Uploading
    <3>6. QED
      BY <3>1, <3>4, <3>5
  <2>5. QED
    BY <1>4, <2>2, <2>3, <2>4 DEF Proceed
<1>5. QED
  BY <1>2, <1>3, <1>4 DEF Next

LEMMA AlwaysQuiet == Spec => []Quiet
<1>1. Init => Quiet
  BY DEF Init, Quiet
<1>2. QED
  BY <1>1, NextQuiet, AlwaysPlanned, PTL DEF Spec

\* Nobody else changes the buckets during a call, it reports no errors: the destination
\* mirrors the source, whatever the calls before did.
THEOREM SyncMirrors == Spec => []MirrorWhenQuiet
<1>1. Quiet => MirrorWhenQuiet
  BY DEF Quiet, MirrorWhenQuiet
<1>2. QED
  BY <1>1, AlwaysQuiet, PTL

\* The destination is never trimmed of what the walked source maps to, nor before every
\* upload has settled, nor, under stopOnError, after one has failed; and a transfer
\* without overwrite replaces nothing, where nobody else writes.
THEOREM SyncSpares == Spec => DestSpared
<1>1. ASSUME Planned, Quiet, NEW w \in Slots PROVE Spares(w)
  <2>1. ASSUME Upload(w) \/ UploadFails(w), options.compare = "exists", quiet
        PROVE  dest[TransformKey[batch[at[w]]]] = 0
    <3>1. phase = "upload" /\ stream[w] > 0
      BY <2>1 DEF Upload, UploadFails
    <3>2. stream[w] # 0
      <4>1. stream[w] \in Contents \cup {Vacant}
        BY <1>1 DEF Planned, Typed, TypeOK
      <4>2. stream[w] \in Int
        BY <4>1, BoundsAssumption DEF Contents, Vacant
      <4>3. QED
        BY <3>1, <4>2
    <3>3. AskedFirst
      BY <1>1, <2>1, <3>1 DEF Quiet, Uploading
    <3>4. QED
      BY <2>1, <3>2, <3>3 DEF AskedFirst, Target
  <2>2. QED
    BY <1>1, <2>1, DeletesSpare DEF Spares
<1>2. Planned /\ Quiet /\ [Next]_vars => [\A w \in Slots : Spares(w)]_vars
  BY <1>1
<1>3. QED
  BY <1>2, AlwaysPlanned, AlwaysQuiet, PTL DEF DestSpared, Spec

(***************************************************************************)
(* The counts. What has been reported is what is done; what is done, what  *)
(* has failed and what is left are the slots of the plan.                  *)
(***************************************************************************)
Counted ==
    /\ IF Busy THEN result.deleted = {} ELSE skipped = {}
    /\ phase \in {"walkSource", "walkDest"} => done = 0
    /\ phase = "upload" => skipped \subseteq Ended("done") /\ done = Cardinality(Ended("done"))
    /\ phase = "prune" =>
          /\ options.prune
          /\ done = Cardinality(result.uploaded) + Cardinality(skipped)
          /\ IsFiniteSet(result.errors) /\ result.errors \subseteq [in : {"upload"}, key : Keys]
          /\ done + Cardinality(result.errors) = Cardinality(Sources)

LEMMA KeysCount ==
    ASSUME NEW S \in SUBSET Keys
    PROVE  IsFiniteSet(S) /\ Cardinality(S) \in Nat
<1>1. IsFiniteSet(Keys)
  BY PoolAssumption, TransformAssumption, FS_Interval DEF Keys, Slots
<1>2. QED
  BY <1>1, FS_Subset, FS_CardinalityType

LEMMA ApartCount ==
    ASSUME NEW S, NEW T, IsFiniteSet(S), IsFiniteSet(T), S \cap T = {}
    PROVE  Cardinality(S \cup T) = Cardinality(S) + Cardinality(T)
<1>1. Cardinality(S \cup T) = Cardinality(S) + Cardinality(T) - Cardinality({})
  BY FS_Union
<1>2. Cardinality({}) = 0 /\ Cardinality(S) \in Nat /\ Cardinality(T) \in Nat
  BY FS_EmptySet, FS_CardinalityType
<1>3. QED
  BY <1>1, <1>2

\* A failure for each key that failed.
LEMMA FailureCount ==
    ASSUME Typed, NEW where
    PROVE  /\ IsFiniteSet(Failures(where))
           /\ Cardinality(Failures(where)) = Cardinality(Ended("failed"))
<1> DEFINE S == Ended("failed")
           f == [k \in S |-> [in |-> where, key |-> k]]
<1>1. IsFiniteSet(S)
  BY EndedTyped, KeysCount
<1>2. f \in Bijection(S, Failures(where))
  <2>1. f \in [S -> Failures(where)]
    BY DEF Failures
  <2>2. \A a, b \in S : f[a] = f[b] => a = b
    <3>1. \A a \in S : f[a].key = a
      OBVIOUS
    <3>2. QED
      BY <3>1
  <2>3. \A t \in Failures(where) : \E a \in S : f[a] = t
    BY DEF Failures
  <2> HIDE DEF f, S
  <2>4. QED
    BY <2>1, <2>2, <2>3 DEF Bijection, Injection, Surjection, IsInjective
<1>3. ExistsBijection(S, Failures(where))
  BY <1>2 DEF ExistsBijection
<1>4. QED
  BY <1>1, <1>3, FS_Bijection

\* What ended one way has not ended another way, for no key is listed twice.
LEMMA EndedApart ==
    ASSUME Typed, NEW keys, Lists(batch, keys)
    PROVE  /\ Ended("done") \cap Ended("failed") = {}
           /\ Ended("done") \cup Ended("failed") \subseteq keys
BY DEF Ended, Lists

LEMMA AllEnded ==
    ASSUME Typed, NEW keys \in SUBSET Keys, Lists(batch, keys), Drained, ~Bailed
    PROVE  Cardinality(Ended("done")) + Cardinality(Ended("failed")) = Cardinality(keys)
<1>1. Ended("done") \cup Ended("failed") = keys
  <2>1. \A i \in 1 .. Len(batch) : outcome[i] \in {"done", "failed"}
    BY DrainedSettles, PoolOfTyped
  <2>2. keys \subseteq Ended("done") \cup Ended("failed")
    BY <2>1 DEF Lists, Ended
  <2>3. QED
    BY <2>2, EndedApart
<1>2. QED
  BY <1>1, EndedApart, EndedTyped, KeysCount, ApartCount

\* A call that bailed out has a failure, so that not all is done.
LEMMA BailedEarly ==
    ASSUME Typed, NEW keys \in SUBSET Keys, Lists(batch, keys), Bailed
    PROVE  /\ stop /\ Ended("failed") # {}
           /\ Cardinality(Ended("done")) < Cardinality(keys)
<1>1. PICK i \in Slots : outcome[i] = "failed"
  BY DEF Bailed
<1>2. i \in 1 .. Len(batch)
  BY <1>1, PoolAssumption DEF Typed, TypeOK, PoolTypeOK, OncePerItem, Slots
<1>3. batch[i] \in Ended("failed")
  BY <1>1, <1>2 DEF Ended
<1>4. batch[i] \in keys /\ batch[i] \notin Ended("done") /\ Ended("done") \subseteq keys
  BY <1>2, <1>3, EndedApart DEF Lists
<1>5. Ended("done") \in SUBSET keys /\ Ended("done") # keys /\ IsFiniteSet(keys)
  BY <1>4, KeysCount
<1>6. Cardinality(Ended("done")) <= Cardinality(keys)
      /\ Cardinality(Ended("done")) # Cardinality(keys)
  BY <1>5, FS_Subset
<1>7. Cardinality(Ended("done")) \in Nat /\ Cardinality(keys) \in Nat
  BY <1>5, KeysCount
<1>8. QED
  BY <1>3, <1>6, <1>7 DEF Bailed

\* A slot taken, one passed over, one settled: what is done, and how much that is.
LEMMA TakeEnds ==
    ASSUME Typed, NEW w \in Slots, Take(w)
    PROVE  Ended("done")' = Ended("done")
<1>1. outcome[index + 1] = "waiting" /\ index + 1 \in Slots
  BY PoolAssumption DEF Take, Free, Typed, TypeOK, PoolTypeOK, OncePerItem, Slots
<1>2. batch' = batch /\ \A i \in 1 .. Len(batch) : outcome'[i] = "done" <=> outcome[i] = "done"
  BY <1>1, PoolAssumption DEF Take, Typed, TypeOK, PoolTypeOK, Slots
<1>3. QED
  BY <1>2 DEF Ended

LEMMA PassEnds ==
    ASSUME Typed, NEW keys \in SUBSET Keys, Lists(batch, keys), NEW w \in Slots, TakeAndPass(w)
    PROVE  /\ Ended("done")' = Ended("done") \cup {batch[index + 1]}
           /\ Cardinality(Ended("done"))' = Cardinality(Ended("done")) + 1
<1>1. outcome[index + 1] = "waiting" /\ index + 1 \in Slots /\ index + 1 \in 1 .. Len(batch)
  BY PoolAssumption DEF TakeAndPass, Free, Typed, TypeOK, PoolTypeOK, OncePerItem, Slots
<1>2. /\ batch' = batch
      /\ \A i \in 1 .. Len(batch) :
            outcome'[i] = "done" <=> outcome[i] = "done" \/ i = index + 1
  BY <1>1, PoolAssumption DEF TakeAndPass, Typed, TypeOK, PoolTypeOK, Slots
<1>3. Ended("done")' = Ended("done") \cup {batch[index + 1]}
  BY <1>1, <1>2 DEF Ended
<1>4. batch[index + 1] \notin Ended("done")
  BY <1>1 DEF Ended, Lists
<1>5. IsFiniteSet(Ended("done"))
  BY EndedTyped, KeysCount
<1>6. QED
  BY <1>3, <1>4, <1>5, FS_AddElement

LEMMA SettleEnds ==
    ASSUME Typed, NEW keys \in SUBSET Keys, Lists(batch, keys), NEW w \in Slots,
           NEW how \in {"done", "failed"}, SettleSlot(w, how)
    PROVE  IF how = "done"
           THEN /\ Ended("done")' = Ended("done") \cup {batch[at[w]]}
                /\ Cardinality(Ended("done"))' = Cardinality(Ended("done")) + 1
           ELSE Ended("done")' = Ended("done")
<1>1. at[w] \in 1 .. Len(batch) /\ at[w] \in Slots /\ outcome[at[w]] = "running"
  BY PoolAssumption DEF SettleSlot, Typed, TypeOK, PoolTypeOK, OncePerItem, Slots
<1>2. /\ batch' = batch
      /\ \A i \in 1 .. Len(batch) :
            outcome'[i] = "done" <=> outcome[i] = "done" \/ (i = at[w] /\ how = "done")
  BY <1>1, PoolAssumption DEF SettleSlot, Typed, TypeOK, PoolTypeOK, Slots
<1>3. CASE how = "failed"
  BY <1>2, <1>3 DEF Ended
<1>4. CASE how = "done"
  <2>1. Ended("done")' = Ended("done") \cup {batch[at[w]]}
    BY <1>1, <1>2, <1>4 DEF Ended
  <2>2. batch[at[w]] \notin Ended("done")
    BY <1>1 DEF Ended, Lists
  <2>3. IsFiniteSet(Ended("done"))
    BY EndedTyped, KeysCount
  <2>4. QED
    BY <1>4, <2>1, <2>2, <2>3, FS_AddElement
<1>5. QED
  BY <1>3, <1>4

LEMMA CountUpload ==
    ASSUME Planned, Counted, phase = "upload", NEW w \in Slots, Worker(w)
    PROVE  (skipped \subseteq Ended("done") /\ done = Cardinality(Ended("done")))'
<1>1. Sources \in SUBSET Keys /\ Lists(batch, Sources) /\ Typed
  BY DEF Sources, Planned, Listing
<1>2. skipped \subseteq Ended("done") /\ done = Cardinality(Ended("done"))
  BY DEF Counted
<1>3. CASE Skip(w)
  <2>1. TakeAndPass(w) /\ skipped' = skipped \cup {batch[index + 1]} /\ done' = done + 1
    BY <1>3 DEF Skip
  <2>2. QED
    BY <1>1, <1>2, <2>1, PassEnds
<1>4. CASE BeginKey(w)
  <2>1. Take(w) /\ UNCHANGED <<skipped, done>>
    BY <1>4 DEF BeginKey, progress
  <2>2. QED
    BY <1>1, <1>2, <2>1, TakeEnds
<1>5. CASE CopyExists(w)
  <2>1. SettleSlot(w, "done") /\ skipped' = skipped \cup {batch[at[w]]} /\ done' = done + 1
    BY <1>5 DEF CopyExists
  <2>2. QED
    BY <1>1, <1>2, <2>1, SettleEnds
<1>6. CASE Upload(w)
  <2>1. SettleSlot(w, "done") /\ skipped' = skipped /\ done' = done + 1
    BY <1>6 DEF Upload
  <2>2. QED
    BY <1>1, <1>2, <2>1, SettleEnds
<1>7. CASE DownloadFails(w) \/ UploadFails(w)
  <2>1. SettleSlot(w, "failed") /\ UNCHANGED <<skipped, done>>
    BY <1>7 DEF DownloadFails, UploadFails, progress
  <2>2. QED
    BY <1>1, <1>2, <2>1, SettleEnds
<1>8. CASE CopyMissing(w) \/ Download(w)
  <2>1. UNCHANGED <<batch, outcome, skipped, done>>
    BY <1>8 DEF CopyMissing, Download, poolVars, progress
  <2>2. QED
    BY <1>2, <2>1 DEF Ended
<1>9. QED
  BY <1>3, <1>4, <1>5, <1>6, <1>7, <1>8 DEF Worker, BeginDelete, Delete, DeleteFails

LEMMA CountPrune ==
    ASSUME Planned, Counted, phase = "prune", NEW w \in Slots, Worker(w), UNCHANGED options
    PROVE  Counted'
<1>1. UNCHANGED <<done, skipped, result, walked, phase>>
  BY DEF Worker, Skip, BeginKey, CopyExists, CopyMissing, Asks, Download, DownloadFails, Upload,
     UploadFails, BeginDelete, Delete, DeleteFails, plan, progress
<1>2. QED
  BY <1>1 DEF Counted, Busy, Sources

\* The uploads are over: what they add up to.
LEMMA UploadsAddUp ==
    ASSUME Planned, Counted, phase = "upload", Drained
    PROVE  LET uploaded == Ended("done") \ skipped
               errors == Failures("upload")
           IN  /\ done = Cardinality(uploaded) + Cardinality(skipped)
               /\ IsFiniteSet(errors) /\ errors \subseteq [in : {"upload"}, key : Keys]
               /\ ~Bailed => done + Cardinality(errors) = Cardinality(Sources)
               /\ Bailed => options.stop /\ errors # {} /\ done < Cardinality(Sources)
<1>1. Sources \in SUBSET Keys /\ Lists(batch, Sources) /\ Typed
  BY DEF Sources, Planned, Listing
<1>2. skipped \subseteq Ended("done") /\ done = Cardinality(Ended("done"))
  BY DEF Counted
<1>3. done = Cardinality(Ended("done") \ skipped) + Cardinality(skipped)
  <2>1. IsFiniteSet(skipped) /\ IsFiniteSet(Ended("done") \ skipped)
    BY <1>1, <1>2, EndedTyped, KeysCount
  <2>2. (Ended("done") \ skipped) \cup skipped = Ended("done")
    BY <1>2
  <2>3. (Ended("done") \ skipped) \cap skipped = {}
    OBVIOUS
  <2>4. QED
    BY <1>2, <2>1, <2>2, <2>3, ApartCount
<1>4. /\ IsFiniteSet(Failures("upload"))
      /\ Cardinality(Failures("upload")) = Cardinality(Ended("failed"))
  BY <1>1, FailureCount
<1>5. Failures("upload") \subseteq [in : {"upload"}, key : Keys]
  BY <1>1, EndedTyped DEF Failures
<1>6. ~Bailed => done + Cardinality(Failures("upload")) = Cardinality(Sources)
  BY <1>1, <1>2, <1>4, AllEnded
<1>7. Bailed => /\ options.stop /\ Failures("upload") # {}
                /\ done < Cardinality(Sources)
  <2>1. stop = options.stop
    BY <1>1 DEF Typed, Phased, Busy
  <2>2. Ended("failed") # {} => Failures("upload") # {}
    BY DEF Failures
  <2>3. QED
    BY <1>1, <1>2, <2>1, <2>2, BailedEarly
<1>8. QED
  BY <1>3, <1>4, <1>5, <1>6, <1>7

LEMMA NextCounted == Planned /\ Counted /\ [Next]_vars => Counted'
<1> SUFFICES ASSUME Planned, Counted, [Next]_vars, Typed' PROVE Counted'
  BY NextTyped DEF Planned
<1>1. CASE phase' \notin {"upload", "prune"} /\ skipped' = {} /\ (phase' # "idle" => done' = 0)
  BY <1>1 DEF Counted, Busy
<1>2. CASE UNCHANGED <<phase, batch, outcome, walked, options, result, skipped, done>>
  BY <1>2 DEF Counted, Busy, Ended, Sources
<1>3. CASE \E w \in Slots : Worker(w) /\ UNCHANGED options
  <2>1. PICK w \in Slots : Worker(w)
    BY <1>3
  <2>2. UNCHANGED <<result, phase>> /\ phase \in {"upload", "prune"}
    BY <2>1, WorkerFrame
       DEF Worker, Skip, BeginKey, CopyExists, CopyMissing, Asks, Download, DownloadFails,
       Upload, UploadFails, BeginDelete, Delete, DeleteFails
  <2>3. CASE phase = "upload"
    BY <2>1, <2>2, <2>3, CountUpload DEF Counted, Busy
  <2>4. CASE phase = "prune"
    BY <1>3, <2>1, <2>4, CountPrune
  <2>5. QED
    BY <2>2, <2>3, <2>4
<1>4. CASE BeginUploads
  <2>1. CASE dryRun
    BY <1>1, <1>4, <2>1 DEF BeginUploads, Finish, Forget
  <2>2. CASE ~dryRun
    <3>1. /\ phase' = "upload" /\ result'.deleted = {} /\ UNCHANGED <<skipped, done>>
          /\ outcome' = [i \in Slots |-> "waiting"]
          /\ \E list \in InOrder(Sources) : batch' = list
      BY <1>4, <2>2 DEF BeginUploads, Call
    <3>2. Ended("done")' = {}
      <4>1. \A i \in 1 .. Len(batch') : i \in Slots
        BY PoolAssumption DEF Typed, TypeOK, PoolTypeOK, Slots
      <4>2. QED
        BY <3>1, <4>1 DEF Ended
    <3>3. skipped = {} /\ done = 0
      BY <1>4 DEF BeginUploads, WalksDone, Counted, Busy
    <3>4. QED
      BY <3>1, <3>2, <3>3, FS_EmptySet DEF Counted, Busy
  <2>3. QED
    BY <2>1, <2>2
<1>5. CASE UploadsReturn
  <2>1. CASE phase' = "prune"
    <3>1. /\ result' = [result EXCEPT !.uploaded = Ended("done") \ skipped,
                                     !.errors = Failures("upload")]
          /\ options.prune /\ ~Bailed /\ Drained /\ phase = "upload"
          /\ UNCHANGED <<plan, skipped, done>>
      BY <1>5, <2>1, FinishIdle DEF UploadsReturn
    <3>2. UNCHANGED options
      BY <1>5 DEF Next, Proceed, World, vars
    <3>3. result \in RunningResult /\ result.deleted = {}
      BY <3>1 DEF Planned, Typed, Phased, Busy, Counted
    <3>4. /\ result'.deleted = {} /\ result'.uploaded = Ended("done") \ skipped
          /\ result'.errors = Failures("upload")
      BY <3>1, <3>3 DEF RunningResult
    <3>5. Sources' = Sources
      BY <3>1 DEF Sources, plan
    <3>6. QED
      BY <2>1, <3>1, <3>2, <3>4, <3>5, UploadsAddUp DEF Counted, Busy
  <2>2. QED
    BY <1>1, <1>5, <2>1 DEF UploadsReturn, Finish, Forget
<1>6. CASE WalkFails \/ ListSource \/ ListDest \/ PruneReturns \/ Crash \/ Start
  <2>1. CASE WalkFails \/ PruneReturns \/ Crash
    BY <1>1, <2>1 DEF WalkFails, Reject, PruneReturns, Crash, Finish, Forget
  <2>2. CASE ListSource \/ ListDest \/ Start
    BY <1>1, <2>2 DEF ListSource, ListDest, Start, progress, Counted, Busy
  <2>3. QED
    BY <1>6, <2>1, <2>2
<1>7. CASE World /\ ((\E k \in Keys : Edit(k)) \/ LateLands \/ Abort)
  BY <1>2, <1>7 DEF World, Edit, LateLands, Abort, poolVars, plan, progress
<1>8. QED
  BY <1>2, <1>3, <1>4, <1>5, <1>6, <1>7 DEF Next, Proceed, World, vars, poolVars, plan, progress

LEMMA AlwaysCounted == Spec => []Counted
<1>1. Init => Counted
  BY DEF Init, Counted, Busy
<1>2. QED
  BY <1>1, NextCounted, AlwaysPlanned, PTL DEF Spec

SumsUp ==
    /\ done' = Cardinality(result'.uploaded) + Cardinality(skipped) + Cardinality(result'.deleted)
    /\ done' + Cardinality(result'.errors) = Total
          \/ (options.stop /\ result'.errors # {} /\ done' < Total)

\* Nothing was to be deleted, or the call bailed out.
LEMMA UploadsSum ==
    ASSUME Planned, Counted, UploadsReturn, phase' = "idle"
    PROVE  SumsUp
<1>1. /\ phase = "upload" /\ Drained
      /\ result' = [[result EXCEPT !.uploaded = Ended("done") \ skipped,
                                   !.errors = Failures("upload")] EXCEPT !.status = "ok"]
      /\ done' = done
      /\ ~options.prune \/ Extraneous = {} \/ Bailed
  BY DEF UploadsReturn, Finish
<1>2. result \in RunningResult /\ result.deleted = {}
  BY <1>1 DEF Planned, Typed, Phased, Busy, Counted
<1>3. /\ result'.uploaded = Ended("done") \ skipped /\ result'.errors = Failures("upload")
      /\ result'.deleted = {}
  BY <1>1, <1>2 DEF RunningResult
<1>4. Cardinality({}) = 0
  BY FS_EmptySet
<1>5. /\ Cardinality(Sources) \in Nat /\ Cardinality(Extraneous) \in Nat
      /\ Extraneous = {} => Cardinality(Extraneous) = 0
  BY <1>4, KeysCount DEF Sources, Extraneous
<1>6. done \in Nat
  BY DEF Planned, Typed, TypeOK
<1>7. done' = Cardinality(result'.uploaded) + Cardinality(skipped) + Cardinality(result'.deleted)
  <2>1. Cardinality(Ended("done") \ skipped) \in Nat /\ Cardinality(skipped) \in Nat
    BY EndedTyped, KeysCount DEF Planned, Typed, TypeOK
  <2>2. done = Cardinality(Ended("done") \ skipped) + Cardinality(skipped)
    BY <1>1, UploadsAddUp
  <2>3. Cardinality(result'.deleted) = 0
    BY <1>3, <1>4
  <2>4. QED
    BY <1>1, <1>3, <2>1, <2>2, <2>3
<1>8. CASE Bailed
  BY <1>1, <1>3, <1>5, <1>6, <1>7, <1>8, UploadsAddUp DEF SumsUp, Total
<1>9. CASE ~Bailed
  BY <1>1, <1>3, <1>5, <1>7, <1>9, UploadsAddUp DEF SumsUp, Total
<1>10. QED
  BY <1>8, <1>9

LEMMA PruneSums ==
    ASSUME Planned, Counted, PruneReturns
    PROVE  SumsUp
<1>1. /\ phase = "prune" /\ Drained /\ options.prune
      /\ result'.uploaded = result.uploaded /\ result'.deleted = Ended("done")
      /\ result'.errors = result.errors \cup Failures("prune")
      /\ done' = done + Cardinality(Ended("done"))
  BY DEF PruneReturns, Finish, Counted
<1>2. /\ done = Cardinality(result.uploaded) + Cardinality(skipped)
      /\ done + Cardinality(result.errors) = Cardinality(Sources)
  BY <1>1 DEF Counted
<1>3. Typed /\ Extraneous \in SUBSET Keys /\ Lists(batch, Extraneous)
  BY <1>1 DEF Extraneous, Planned, Listing
<1>4. Cardinality(result'.errors) = Cardinality(result.errors) + Cardinality(Ended("failed"))
  <2>1. /\ IsFiniteSet(Failures("prune"))
        /\ Cardinality(Failures("prune")) = Cardinality(Ended("failed"))
    BY <1>3, FailureCount
  <2>2. IsFiniteSet(result.errors) /\ result.errors \cap Failures("prune") = {}
    BY <1>1 DEF Counted, Failures
  <2>3. QED
    BY <1>1, <2>1, <2>2, ApartCount
<1>5. /\ done \in Nat /\ Cardinality(Ended("done")) \in Nat /\ Cardinality(Ended("failed")) \in Nat
      /\ Cardinality(result.errors) \in Nat
  BY <1>1, <1>3, EndedTyped, KeysCount, FS_CardinalityType DEF Typed, TypeOK, Counted
<1>6. Total = Cardinality(Sources) + Cardinality(Extraneous)
  BY <1>1 DEF Total
<1>7. /\ Cardinality(Sources) \in Nat /\ Cardinality(Extraneous) \in Nat
      /\ Cardinality(result.uploaded) \in Nat /\ Cardinality(skipped) \in Nat
  <2>1. result.uploaded \in SUBSET Keys /\ skipped \in SUBSET Keys
    BY <1>1, <1>3 DEF Typed, TypeOK, Phased, Busy, RunningResult
  <2>2. QED
    BY <1>3, <2>1, KeysCount DEF Sources
<1>8. done' = Cardinality(result'.uploaded) + Cardinality(skipped) + Cardinality(result'.deleted)
  BY <1>1, <1>2, <1>5, <1>7
<1>9. CASE ~Bailed
  <2>1. Cardinality(Ended("done")) + Cardinality(Ended("failed")) = Cardinality(Extraneous)
    BY <1>1, <1>3, <1>9, AllEnded
  <2>2. QED
    BY <1>1, <1>2, <1>4, <1>5, <1>6, <1>7, <1>8, <2>1 DEF SumsUp
<1>10. CASE Bailed
  <2>1. /\ stop /\ Ended("failed") # {}
        /\ Cardinality(Ended("done")) < Cardinality(Extraneous)
    BY <1>3, <1>10, BailedEarly
  <2>2. options.stop /\ result'.errors # {}
    BY <1>1, <1>3, <2>1 DEF Typed, Phased, Busy, Failures
  <2>3. done' < Total
    BY <1>1, <1>2, <1>5, <1>6, <1>7, <2>1
  <2>4. QED
    BY <1>8, <2>2, <2>3 DEF SumsUp
<1>11. QED
  BY <1>9, <1>10

\* What progress has reported when a call ends is what the result says was uploaded,
\* skipped and deleted; with the errors that is the total, unless stopOnError cut the
\* call short at a failure.
THEOREM ProgressAddsUp == Spec => CountsAddUp
<1> DEFINE Ends == phase # "idle" /\ phase' = "idle" /\ result'.status = "ok"
<1>1. ASSUME Planned, Counted, Next, Ends PROVE SumsUp
  <2>1. \/ UploadsReturn \/ PruneReturns
    <3>1. CASE World
      BY <1>1, <3>1 DEF World, Edit, LateLands, Abort, Start, Crash, NoResult
    <3>2. CASE \E w \in Slots : Worker(w)
      BY <1>1, <3>2, WorkerFrame
    <3>3. CASE WalkFails \/ ListSource \/ ListDest \/ BeginUploads
      BY <1>1, <3>3 DEF WalkFails, Reject, Finish, ListSource, ListDest, BeginUploads
    <3>4. QED
      BY <1>1, <3>1, <3>2, <3>3 DEF Next, Proceed
  <2>2. QED
    BY <1>1, <2>1, UploadsSum, PruneSums
<1>2. Planned /\ Counted /\ [Next]_vars => [Ends => SumsUp]_vars
  BY <1>1
<1>3. QED
  BY <1>2, AlwaysPlanned, AlwaysCounted, PTL DEF CountsAddUp, SumsUp, Spec

(***************************************************************************)
(* Downloads.  The slices, and a body that is read again: its history is a *)
(* recursive function, for which induction shows that it is defined.       *)
(***************************************************************************)

Fetch == INSTANCE Downloads

Ranges(a) == {Fetch!WholeFile} \cup
             {range \in [start : Int, end : Int] : ~Fetch!RangeRefused(a, range)}

Orders == {"one", "meta", "names", "body", "together"}

Sound(a) ==
    /\ a.ends \in {"inclusive", "counted", "exclusive", "cut", "none"}
    /\ a.stream.order \in Orders /\ a.blob.order \in Orders
    /\ a.streamPart.order \in Orders /\ a.blobPart.order \in Orders

LEMMA Counts == \A S : Fetch!Cardinality(S) = Cardinality(S)
    BY Zenon DEF Fetch!Cardinality, Cardinality

\* What the adapters have in common.
LEMMA ReaderFacts ==
    ASSUME NEW a \in Fetch!Readers
    PROVE  Sound(a)
<1> USE DEF Fetch!Reads, Fetch!Plan, Orders, Sound
<1>1. Sound(Fetch!BoxReads)
    BY DEF Fetch!BoxReads
<1>2. Sound(Fetch!DropboxReads)
    BY DEF Fetch!DropboxReads
<1>3. Sound(Fetch!DriveReads)
    BY DEF Fetch!DriveReads
<1>4. Sound(Fetch!PocketBaseReads)
    BY DEF Fetch!PocketBaseReads
<1>5. Sound(Fetch!CloudinaryReads)
    BY DEF Fetch!CloudinaryReads
<1>6. Sound(Fetch!UploadThingReads)
    BY DEF Fetch!UploadThingReads
<1>7. Sound(Fetch!VercelReads)
    BY DEF Fetch!VercelReads
<1>8. Sound(Fetch!S3Reads)
    BY DEF Fetch!S3Reads
<1>9. Sound(Fetch!GcsReads)
    BY DEF Fetch!GcsReads
<1>10. Sound(Fetch!FirebaseReads)
    BY DEF Fetch!FirebaseReads
<1>11. Sound(Fetch!R2Reads)
    BY DEF Fetch!R2Reads
<1>12. Sound(Fetch!AzureReads)
    BY DEF Fetch!AzureReads
<1>13. Sound(Fetch!BunReads)
    BY DEF Fetch!BunReads
<1>14. Sound(Fetch!MemoryReads)
    BY DEF Fetch!MemoryReads
<1>15. Sound(Fetch!FsReads)
    BY DEF Fetch!FsReads
<1>16. Sound(Fetch!SftpReads)
    BY DEF Fetch!SftpReads
<1>17. Sound(Fetch!FtpReads)
    BY DEF Fetch!FtpReads
<1>18. Sound(Fetch!OneDriveReads)
    BY DEF Fetch!OneDriveReads
<1>19. Sound(Fetch!VercelPrivateReads)
    BY DEF Fetch!VercelPrivateReads
<1>20. Sound(Fetch!SupabaseReads)
    BY DEF Fetch!SupabaseReads
<1>21. Sound(Fetch!ConvexReads)
    BY DEF Fetch!ConvexReads
<1>22. Sound(Fetch!NetlifyReads)
    BY DEF Fetch!NetlifyReads
<1>23. Sound(Fetch!BunnyReads)
    BY DEF Fetch!BunnyReads
<1>24. Sound(Fetch!AppwriteReads)
    BY DEF Fetch!AppwriteReads
<1>99. QED
    BY <1>1, <1>2, <1>3, <1>4, <1>5, <1>6, <1>7, <1>8, <1>9, <1>10, <1>11, <1>12, <1>13,
       <1>14, <1>15, <1>16, <1>17, <1>18, <1>19, <1>20, <1>21, <1>22, <1>23, <1>24
    DEF Fetch!Readers, Fetch!Rangers, Fetch!Fetchers

\* The slice is an interval of the bytes, and rangedSize() its length.
LEMMA SliceSize ==
    ASSUME NEW object \in [version : Nat, len : Nat], NEW range \in [start : Int, end : Int],
           \/ range = Fetch!WholeFile
           \/ range.start >= 0 /\ (range.end = -1 \/ range.end >= range.start)
    PROVE  /\ Fetch!Slice(object, range) \in SUBSET Nat
           /\ Cardinality(Fetch!Slice(object, range)) =
                 IF range = Fetch!WholeFile THEN object.len
                 ELSE Fetch!RangedSize(object.len, range)
<1>1. object.len \in Nat /\ range.start \in Int /\ range.end \in Int
    OBVIOUS
<1>2. CASE range = Fetch!WholeFile
    <2>1. Fetch!Slice(object, range) = 0 .. object.len - 1
        BY <1>2 DEF Fetch!Slice, Fetch!Positions
    <2>2. Cardinality(0 .. object.len - 1) = object.len
        BY <1>1, FS_Interval
    <2>3. QED
        BY <1>1, <1>2, <2>1, <2>2
<1>3. CASE range # Fetch!WholeFile
    <2> DEFINE last == IF range.end = -1 \/ range.end > object.len - 1 THEN object.len - 1
                                                                     ELSE range.end
    <2>1. Fetch!Slice(object, range) = range.start .. last
        BY <1>1, <1>3 DEF Fetch!Slice, Fetch!Onward, Fetch!Positions, Fetch!Open
    <2>2. Cardinality(range.start .. last) =
            IF range.start > last THEN 0 ELSE last - range.start + 1
        <3>1. last \in Int
            BY <1>1
        <3> HIDE DEF last
        <3>2. QED
            BY <1>1, <3>1, FS_Interval
    <2>3. Fetch!RangedSize(object.len, range) = IF last - range.start + 1 < 0 THEN 0
                                                ELSE last - range.start + 1
        BY DEF Fetch!RangedSize, Fetch!Open
    <2>4. QED
        BY <1>1, <1>3, <2>1, <2>2, <2>3
<1>4. QED
    BY <1>2, <1>3

\* However an adapter says where a range ends, the bytes are those of the slice.
LEMMA BytesAreTheSlice ==
    ASSUME NEW a, a.ends \in {"inclusive", "counted", "exclusive", "cut"},
           NEW object \in [version : Nat, len : Nat], NEW range \in [start : Int, end : Int],
           range.start >= 0 /\ (range.end = -1 \/ range.end >= range.start)
    PROVE  Fetch!BytesOf(a, object, range) = Fetch!Slice(object, range)
<1>1. object.len \in Nat /\ range.start \in Nat /\ range.end \in Int
    OBVIOUS
<1>2. range # Fetch!WholeFile
    BY DEF Fetch!WholeFile
<1>3. CASE range.end = -1
    BY <1>2, <1>3 DEF Fetch!BytesOf, Fetch!Slice, Fetch!Open, Fetch!Onward, Fetch!Positions
<1>4. CASE range.end # -1
    <2> DEFINE onward == Fetch!Onward(object, range)
    <2>1. onward = range.start .. object.len - 1
        BY <1>1 DEF Fetch!Onward, Fetch!Positions
    <2>2. Fetch!Slice(object, range) = {n \in onward : n <= range.end}
        BY <1>1, <1>2, <1>4 DEF Fetch!Slice, Fetch!Open
    <2>3. CASE a.ends = "inclusive"
        BY <1>2, <1>4, <2>2, <2>3 DEF Fetch!BytesOf, Fetch!Open
    <2>4. CASE a.ends = "counted"
        <3>1. Fetch!BytesOf(a, object, range) =
                {n \in onward : n - range.start < range.end - range.start + 1}
            BY <1>2, <1>4, <2>4 DEF Fetch!BytesOf, Fetch!Open
        <3>2. QED
            BY <1>1, <2>1, <2>2, <3>1
    <2>5. CASE a.ends = "exclusive"
        <3>1. Fetch!BytesOf(a, object, range) = {n \in onward : n < range.end + 1}
            BY <1>2, <1>4, <2>5 DEF Fetch!BytesOf, Fetch!Open
        <3>2. QED
            BY <1>1, <2>1, <2>2, <3>1
    <2>6. CASE a.ends = "cut"
        <3>1. Fetch!BytesOf(a, object, range) =
                {n \in onward : Fetch!Cardinality({m \in onward : m < n})
                                  < range.end - range.start + 1}
            BY <1>2, <1>4, <2>6 DEF Fetch!BytesOf, Fetch!Open
        <3>2. ASSUME NEW n \in onward
              PROVE  Fetch!Cardinality({m \in onward : m < n}) = n - range.start
            <4>1. n \in Int /\ n >= range.start /\ n - 1 \in Int
                BY <1>1, <2>1
            <4>2. {m \in onward : m < n} = range.start .. n - 1
                BY <1>1, <2>1, <4>1
            <4>3. Cardinality(range.start .. n - 1) =
                    IF range.start > n - 1 THEN 0 ELSE n - 1 - range.start + 1
                BY <1>1, <4>1, FS_Interval
            <4>4. QED
                <5>1. range.start > n - 1 <=> n = range.start
                    BY <1>1, <4>1
                <5>2. n - 1 - range.start + 1 = n - range.start
                    BY <1>1, <4>1
                <5>3. n = range.start => n - range.start = 0
                    BY <1>1
                <5>4. Fetch!Cardinality(range.start .. n - 1) = Cardinality(range.start .. n - 1)
                    BY Counts
                <5> HIDE DEF onward
                <5>5. QED
                    BY <4>2, <4>3, <5>1, <5>2, <5>3, <5>4
        <3>3. \A n \in onward : n - range.start < range.end - range.start + 1 <=> n <= range.end
            BY <1>1, <2>1
        <3> HIDE DEF onward
        <3>4. QED
            BY <2>2, <3>1, <3>2, <3>3
    <2>7. QED
        BY <2>3, <2>4, <2>5, <2>6
<1>5. QED
    BY <1>3, <1>4

\* Of an object that stays, however long it is, every adapter returns exactly the bytes of the
\* range that was asked for, whatever it is, and says how many they are; only a range past the
\* end may fail.
THEOREM SlicesAreExact ==
    ASSUME NEW a \in Fetch!Readers, NEW mode \in Fetch!Modes,
           NEW object \in [version : Nat \ {0}, len : Nat], NEW range \in Ranges(a),
           NEW reply \in Fetch!DownloadOf(a, mode, range, object, object)
    PROVE  IF reply.code = "ok"
             THEN /\ reply.bytes = Fetch!Slice(object, range)
                  /\ reply.size = Cardinality(reply.bytes)
                  /\ reply.of = object.version /\ reply.bytesOf = object.version
             ELSE range # Fetch!WholeFile /\ range.start >= object.len
<1> DEFINE calls == Fetch!PlanOf(a, mode, range)
           seen == [meta |-> object, body |-> object]
           bytes == Fetch!BytesOf(a, object, range)
           size == Fetch!SizeOf(calls, range, object, bytes)
           answer == [code |-> "ok", of |-> object.version, bytesOf |-> object.version,
                      bytes |-> bytes, size |-> size]
           error == Fetch!Fails("Provider")
<1>1. calls.order \in Orders
    BY ReaderFacts DEF Fetch!PlanOf, Sound
<1>2. reply \in Fetch!Downloaded(a, mode, range, seen, TRUE)
    <2>1. Fetch!Seen(calls, object, object) = {seen}
        <3> HIDE DEF calls
        <3>1. QED
            BY <1>1 DEF Fetch!Seen, Orders
    <2>2. QED
        BY <2>1 DEF Fetch!DownloadOf
<1>3. object # Fetch!NoObject
    BY DEF Fetch!NoObject
<1>4. \/ reply = answer
      \/ reply = error /\ range # Fetch!WholeFile /\ range.start >= object.len
    <2> HIDE DEF bytes, calls
    <2>1. QED
        BY <1>2, <1>3 DEF Fetch!Downloaded, bytes, calls
<1>5. object \in [version : Nat, len : Nat] /\ range \in [start : Int, end : Int]
    BY DEF Ranges, Fetch!WholeFile
<1>6. /\ a.ends \in {"inclusive", "counted", "exclusive", "cut", "none"}
      /\ range = Fetch!WholeFile \/ (/\ range.start >= 0
                                     /\ range.end = -1 \/ range.end >= range.start
                                     /\ a.ends # "none")
    BY <1>5, ReaderFacts DEF Sound, Ranges, Fetch!RangeRefused, Fetch!Open
<1>7. bytes = Fetch!Slice(object, range)
    <2>1. CASE range = Fetch!WholeFile
        BY <2>1 DEF Fetch!BytesOf, Fetch!Slice
    <2>2. CASE range # Fetch!WholeFile
        BY <1>5, <1>6, <2>2, BytesAreTheSlice
    <2>3. QED
        BY <2>1, <2>2
<1>8. size = Cardinality(bytes)
    <2>1. Cardinality(Fetch!Slice(object, range)) =
             IF range = Fetch!WholeFile THEN object.len
             ELSE Fetch!RangedSize(object.len, range)
        BY <1>5, <1>6, SliceSize
    <2>2. Fetch!Cardinality(bytes) = Cardinality(bytes)
        BY Counts
    <2> HIDE DEF bytes, calls
    <2>3. \/ size = Fetch!Cardinality(bytes)
          \/ size = IF range = Fetch!WholeFile THEN object.len
                    ELSE Fetch!RangedSize(object.len, range)
        BY <1>3 DEF Fetch!SizeOf
    <2> HIDE DEF size
    <2>4. QED
        BY <1>7, <2>1, <2>2, <2>3
<1>9. error.code # "ok"
    BY DEF Fetch!Fails
<1> HIDE DEF bytes, size, error
<1>10. QED
    BY <1>4, <1>7, <1>8, <1>9

\* Induction, in the form the provers can use: what holds at 0, and after a number holds
\* at the next, holds up to N.
LEMMA UpTo ==
    ASSUME NEW N \in Nat, NEW P, 0 \in P, \A n \in 1 .. N : n - 1 \in P => n \in P
    PROVE  \A n \in 0 .. N : n \in P
<1> DEFINE R == {p \in Nat \X Nat : p[1] < p[2]}
           T == {n \in 0 .. N : n \notin P}
<1>1. IsWellFoundedOn(R, Nat)
    BY NatLessThanWellFounded DEF OpToRel
<1>2. SUFFICES ASSUME T # {} PROVE FALSE
    OBVIOUS
<1>3. \E n \in T : \A m \in T : <<m, n>> \notin R
    <2>1. T \subseteq Nat
        OBVIOUS
    <2> HIDE DEF R, T
    <2>2. QED
        BY <1>1, <1>2, <2>1, WFMin
<1>4. PICK n \in T : \A m \in T : <<m, n>> \notin R
    <2> HIDE DEF R, T
    <2>1. QED
        BY <1>3
<1>5. n \in 1 .. N /\ n - 1 \in 0 .. N /\ <<n - 1, n>> \in R
    OBVIOUS
<1>6. n - 1 \in P /\ n \notin P
    <2> HIDE DEF R
    <2>1. QED
        BY <1>4, <1>5
<1>7. QED
    BY <1>5, <1>6

\* The states of a loop over 1 .. N: f[n] is the one after n turns.
Turns(S, N, base, step, f) ==
    /\ f \in [0 .. N -> S]
    /\ f = [n \in 0 .. N |-> IF n = 0 THEN base ELSE step[<<n, f[n - 1]>>]]

HasTurns(S, N, base, step) == \E f : Turns(S, N, base, step, f)

\* A loop that keeps its state in S has a state after each turn.
LEMMA LoopsTurn ==
    ASSUME NEW S, NEW N \in Nat, NEW base \in S, NEW step \in [(1 .. N) \X S -> S]
    PROVE  HasTurns(S, N, base, step)
<1> DEFINE To(k) == \E f \in [0 .. k -> S] :
                        /\ f[0] = base
                        /\ \A n \in 1 .. k : f[n] = step[<<n, f[n - 1]>>]
           P == {k \in 0 .. N : To(k)}
<1>1. 0 \in P
    <2> DEFINE f == [n \in 0 .. 0 |-> base]
    <2>1. f \in [0 .. 0 -> S] /\ f[0] = base /\ \A n \in 1 .. 0 : f[n] = step[<<n, f[n - 1]>>]
        OBVIOUS
    <2> HIDE DEF f
    <2>2. QED
        BY <2>1
<1>2. ASSUME NEW k \in 1 .. N, k - 1 \in P
      PROVE  k \in P
    <2>1. PICK f \in [0 .. k - 1 -> S] :
                  /\ f[0] = base
                  /\ \A n \in 1 .. k - 1 : f[n] = step[<<n, f[n - 1]>>]
        BY <1>2
    <2> DEFINE last == step[<<k, f[k - 1]>>]
               g == [n \in 0 .. k |-> IF n = k THEN last ELSE f[n]]
    <2>2. last \in S
        BY <2>1
    <2>3. g \in [0 .. k -> S] /\ \A n \in 0 .. k : g[n] = IF n = k THEN last ELSE f[n]
        <3> HIDE DEF last
        <3>1. QED
            BY <2>1, <2>2
    <2>4. g[0] = base
        BY <2>1, <2>3
    <2>5. ASSUME NEW n \in 1 .. k
          PROVE  g[n] = step[<<n, g[n - 1]>>]
        <3>1. n - 1 \in 0 .. k /\ n - 1 # k
            OBVIOUS
        <3> HIDE DEF g
        <3>2. g[n - 1] = f[n - 1]
            BY <2>3, <3>1
        <3>3. CASE n = k
            <4>1. g[k] = last /\ last = step[<<k, g[k - 1]>>]
                BY <2>3, <3>2, <3>3
            <4>2. QED
                BY <3>3, <4>1
        <3>4. CASE n # k
            BY <2>1, <2>3, <3>2, <3>4
        <3>5. QED
            BY <3>3, <3>4
    <2> HIDE DEF g
    <2>6. QED
        BY <2>3, <2>4, <2>5
<1>3. N \in P
    <2> HIDE DEF P
    <2>1. \A n \in 1 .. N : n - 1 \in P => n \in P
        BY <1>2
    <2>2. QED
        BY <1>1, <2>1, UpTo
<1>4. PICK f \in [0 .. N -> S] : /\ f[0] = base
                                 /\ \A n \in 1 .. N : f[n] = step[<<n, f[n - 1]>>]
    BY <1>3
<1>5. f = [n \in 0 .. N |-> IF n = 0 THEN base ELSE step[<<n, f[n - 1]>>]]
    BY <1>4
<1>6. QED
    BY <1>5 DEF HasTurns, Turns

Kinds == {"buffer", "stream", "lazy"}
ReadOutcomes == {"bytes", "error", "consumed"}
StoredFiles == [kind : Kinds, cached : BOOLEAN, pending : {"no", "failed"},
                consumed : BOOLEAN, fetched : Nat, got : Seq(ReadOutcomes)]

\* What one access does.
LEMMA OneAccess ==
    ASSUME NEW file \in StoredFiles, NEW access \in Fetch!Accesses
    PROVE  LET after == Fetch!Accessed(file, access)
           IN  \E what \in ReadOutcomes, more \in {0, 1}, cached \in BOOLEAN,
                  pending \in {"no", "failed"}, consumed \in BOOLEAN :
                  /\ after = [kind |-> file.kind, cached |-> cached, pending |-> pending,
                              consumed |-> consumed, fetched |-> file.fetched + more,
                              got |-> Append(file.got, what)]
                  /\ file.cached => /\ what = "bytes" /\ more = 0 /\ cached
                                    /\ pending = file.pending /\ consumed = file.consumed
                  /\ ~file.cached /\ file.pending = "failed" =>
                        /\ what = "error" /\ more = 0 /\ ~cached
                        /\ pending = "failed" /\ consumed = file.consumed
                  /\ /\ ~file.cached /\ file.pending = "no" /\ file.consumed
                     /\ file.kind = "stream"
                     =>
                        /\ what = "consumed" /\ more = 0 /\ ~cached
                        /\ pending = "no" /\ consumed
                  /\ ~file.cached /\ file.pending = "no" /\ ~file.consumed =>
                        /\ what = IF file.kind # "buffer" /\ access.fails THEN "error"
                                                                            ELSE "bytes"
                        /\ more = IF file.kind = "buffer" THEN 0 ELSE 1
                        /\ IF file.kind = "stream" /\ access.op = "stream"
                             THEN consumed /\ ~cached /\ pending = "no"
                             ELSE /\ ~consumed /\ cached = (what = "bytes")
                                  /\ pending = IF what = "error" THEN "failed" ELSE "no"
<1> DEFINE Result(cached, pending, consumed, more, what) ==
             [kind |-> file.kind, cached |-> cached, pending |-> pending,
              consumed |-> consumed, fetched |-> file.fetched + more,
              got |-> Append(file.got, what)]
<1>1. file = [kind |-> file.kind, cached |-> file.cached, pending |-> file.pending,
              consumed |-> file.consumed, fetched |-> file.fetched, got |-> file.got]
    BY DEF StoredFiles
<1>2. /\ file.kind \in Kinds /\ file.cached \in BOOLEAN /\ file.pending \in {"no", "failed"}
      /\ file.consumed \in BOOLEAN /\ file.fetched + 0 = file.fetched
      /\ access.op \in {"bytes", "stream"} /\ access.fails \in BOOLEAN
    BY DEF StoredFiles, Fetch!Accesses
<1>3. CASE file.cached
    <2>1. Fetch!Accessed(file, access) =
            Result(file.cached, file.pending, file.consumed, 0, "bytes")
        BY <1>1, <1>2, <1>3 DEF Fetch!Accessed, Fetch!ToBytes, Fetch!ToStream
    <2>2. QED
        BY <1>2, <1>3, <2>1 DEF ReadOutcomes
<1>4. CASE ~file.cached /\ file.pending = "failed"
    <2>1. Fetch!Accessed(file, access) =
            Result(file.cached, file.pending, file.consumed, 0, "error")
        BY <1>1, <1>2, <1>4 DEF Fetch!Accessed, Fetch!ToBytes, Fetch!ToStream
    <2>2. QED
        BY <1>2, <1>4, <2>1 DEF ReadOutcomes
<1>5. CASE ~file.cached /\ file.pending = "no" /\ file.consumed
    <2>1. CASE file.kind = "stream"
        <3>1. Fetch!Accessed(file, access) = Result(FALSE, "no", TRUE, 0, "consumed")
            BY <1>1, <1>2, <1>5, <2>1 DEF Fetch!Accessed, Fetch!ToBytes, Fetch!ToStream
        <3>2. QED
            BY <1>2, <1>5, <3>1 DEF ReadOutcomes
    <2>2. CASE file.kind = "buffer"
        <3>1. Fetch!Accessed(file, access) = Result(TRUE, "no", TRUE, 0, "bytes")
            BY <1>1, <1>2, <1>5, <2>2 DEF Fetch!Accessed, Fetch!ToBytes, Fetch!ToStream
        <3>2. QED
            BY <1>2, <1>5, <2>2, <3>1 DEF ReadOutcomes
    <2>3. CASE file.kind = "lazy"
        <3> DEFINE what == IF access.fails THEN "error" ELSE "bytes"
                   pending == IF access.fails THEN "failed" ELSE "no"
        <3>1. Fetch!Accessed(file, access) = Result(~access.fails, pending, TRUE, 1, what)
            BY <1>1, <1>2, <1>5, <2>3 DEF Fetch!Accessed, Fetch!ToBytes, Fetch!ToStream
        <3>2. /\ what \in ReadOutcomes /\ pending \in {"no", "failed"}
              /\ (~access.fails) \in BOOLEAN
            BY <1>2 DEF ReadOutcomes
        <3> HIDE DEF what, pending
        <3>3. QED
            BY <1>2, <1>5, <2>3, <3>1, <3>2
    <2>4. QED
        BY <1>2, <2>1, <2>2, <2>3 DEF Kinds
<1>6. CASE ~file.cached /\ file.pending = "no" /\ ~file.consumed
    <2> DEFINE what == IF file.kind # "buffer" /\ access.fails THEN "error" ELSE "bytes"
               given == file.kind = "stream" /\ access.op = "stream"
               cached == ~given /\ what = "bytes"
               pending == IF ~given /\ what = "error" THEN "failed" ELSE "no"
               more == IF file.kind = "buffer" THEN 0 ELSE 1
    <2>1. Fetch!Accessed(file, access) = Result(cached, pending, given, more, what)
        <3>1. CASE file.kind = "stream"
            BY <1>1, <1>2, <1>6, <3>1 DEF Fetch!Accessed, Fetch!ToBytes, Fetch!ToStream
        <3>2. CASE file.kind = "buffer"
            BY <1>1, <1>2, <1>6, <3>2 DEF Fetch!Accessed, Fetch!ToBytes, Fetch!ToStream
        <3>3. CASE file.kind = "lazy"
            BY <1>1, <1>2, <1>6, <3>3 DEF Fetch!Accessed, Fetch!ToBytes, Fetch!ToStream
        <3>4. QED
            BY <1>2, <3>1, <3>2, <3>3 DEF Kinds
    <2>2. /\ what \in ReadOutcomes /\ pending \in {"no", "failed"} /\ given \in BOOLEAN
          /\ more \in {0, 1} /\ cached \in BOOLEAN
        BY <1>2 DEF ReadOutcomes
    <2>3. QED
        BY <1>2, <1>6, <2>1, <2>2
<1>7. QED
    BY <1>2, <1>3, <1>4, <1>5, <1>6

\* A file with the what of its first access, given what that one was.
Read(file, kind, first) ==
    LET what == file.got[1]
        rest == {file.got[m] : m \in 2 .. Len(file.got)}
    IN  /\ file.kind = kind
        /\ file.fetched = IF kind = "buffer" THEN 0 ELSE 1
        /\ what \in {"bytes", "error"}
        /\ what = "error" => kind # "buffer" /\ first.fails
        /\ IF kind = "stream" /\ first.op = "stream"
             THEN /\ ~file.cached /\ file.pending = "no"
                  /\ file.consumed /\ rest \subseteq {"consumed"}
             ELSE /\ file.cached = (what = "bytes")
                  /\ file.pending = IF what = "error" THEN "failed" ELSE "no"
                  /\ rest \subseteq {what}

LEMMA OneAccessTyped ==
    ASSUME NEW file \in StoredFiles, NEW access \in Fetch!Accesses
    PROVE  LET after == Fetch!Accessed(file, access)
           IN  after \in StoredFiles /\ Len(after.got) = Len(file.got) + 1
<1> DEFINE after == Fetch!Accessed(file, access)
<1>1. PICK what \in ReadOutcomes, more \in {0, 1}, cached \in BOOLEAN,
           pending \in {"no", "failed"}, consumed \in BOOLEAN :
           after = [kind |-> file.kind, cached |-> cached, pending |-> pending,
                    consumed |-> consumed, fetched |-> file.fetched + more,
                    got |-> Append(file.got, what)]
    <2> HIDE DEF after
    <2>1. QED
        BY OneAccess DEF after
<1>2. /\ file.kind \in Kinds /\ file.fetched \in Nat /\ file.got \in Seq(ReadOutcomes)
    BY DEF StoredFiles
<1>3. /\ Append(file.got, what) \in Seq(ReadOutcomes)
      /\ Len(Append(file.got, what)) = Len(file.got) + 1
    BY <1>2
<1> HIDE DEF after
<1>4. QED
    BY <1>1, <1>2, <1>3 DEF StoredFiles, after

\* The first access settles what the others get.
LEMMA FirstAccess ==
    ASSUME NEW kind \in Kinds, NEW first \in Fetch!Accesses
    PROVE  Read(Fetch!Accessed(Fetch!FreshFile(kind), first), kind, first)
<1> DEFINE file == Fetch!FreshFile(kind)
           after == Fetch!Accessed(file, first)
<1>1. /\ file \in StoredFiles /\ file.kind = kind /\ ~file.cached /\ file.pending = "no"
      /\ ~file.consumed /\ file.fetched = 0 /\ file.got = <<>>
    BY DEF Fetch!FreshFile, StoredFiles
<1>2. first.op \in {"bytes", "stream"} /\ first.fails \in BOOLEAN
    BY DEF Fetch!Accesses
<1> HIDE DEF file
<1>3. PICK what \in ReadOutcomes, more \in {0, 1}, cached \in BOOLEAN,
           pending \in {"no", "failed"}, consumed \in BOOLEAN :
           /\ after = [kind |-> kind, cached |-> cached, pending |-> pending,
                       consumed |-> consumed, fetched |-> 0 + more,
                       got |-> Append(<<>>, what)]
           /\ what = IF kind # "buffer" /\ first.fails THEN "error" ELSE "bytes"
           /\ more = IF kind = "buffer" THEN 0 ELSE 1
           /\ IF kind = "stream" /\ first.op = "stream"
                THEN consumed /\ ~cached /\ pending = "no"
                ELSE /\ ~consumed /\ cached = (what = "bytes")
                     /\ pending = IF what = "error" THEN "failed" ELSE "no"
    <2>1. PICK what \in ReadOutcomes, more \in {0, 1}, cached \in BOOLEAN,
               pending \in {"no", "failed"}, consumed \in BOOLEAN :
               /\ after = [kind |-> file.kind, cached |-> cached, pending |-> pending,
                           consumed |-> consumed, fetched |-> file.fetched + more,
                           got |-> Append(file.got, what)]
               /\ ~file.cached /\ file.pending = "no" /\ ~file.consumed =>
                     /\ what = IF file.kind # "buffer" /\ first.fails THEN "error"
                                                                        ELSE "bytes"
                     /\ more = IF file.kind = "buffer" THEN 0 ELSE 1
                     /\ IF file.kind = "stream" /\ first.op = "stream"
                          THEN consumed /\ ~cached /\ pending = "no"
                          ELSE /\ ~consumed /\ cached = (what = "bytes")
                               /\ pending = IF what = "error" THEN "failed" ELSE "no"
        <3> HIDE DEF after
        <3>1. file \in StoredFiles
            BY <1>1
        <3>2. QED
            BY <3>1, OneAccess DEF after
    <2> HIDE DEF after
    <2>2. QED
        BY <1>1, <2>1
<1>4. Append(<<>>, what) = <<what>>
    OBVIOUS
<1>5. after.got[1] = what /\ Len(after.got) = 1
    BY <1>3, <1>4
<1>6. {after.got[m] : m \in 2 .. Len(after.got)} = {}
    <2>1. 2 .. 1 = {}
        OBVIOUS
    <2> HIDE DEF after
    <2>2. QED
        BY <1>5, <2>1
<1>7. /\ after.kind = kind /\ after.cached = cached /\ after.pending = pending
      /\ after.consumed = consumed /\ after.fetched = more
    BY <1>3
<1> HIDE DEF after
<1>8. QED
    BY <1>2, <1>3, <1>5, <1>6, <1>7 DEF Read, after, file

\* Every other access gets what the first one left.
LEMMA OtherAccess ==
    ASSUME NEW kind \in Kinds, NEW first \in Fetch!Accesses, NEW access \in Fetch!Accesses,
           NEW file \in StoredFiles, Len(file.got) >= 1, Read(file, kind, first)
    PROVE  Read(Fetch!Accessed(file, access), kind, first)
<1> DEFINE after == Fetch!Accessed(file, access)
           given == kind = "stream" /\ first.op = "stream"
           rest == {file.got[m] : m \in 2 .. Len(file.got)}
<1>1. /\ file.kind \in Kinds /\ file.fetched \in Nat /\ file.got \in Seq(ReadOutcomes)
      /\ file.cached \in BOOLEAN /\ file.consumed \in BOOLEAN
      /\ file.pending \in {"no", "failed"}
    BY DEF StoredFiles
<1>2. /\ file.kind = kind
      /\ file.fetched = IF kind = "buffer" THEN 0 ELSE 1
      /\ file.got[1] \in {"bytes", "error"}
      /\ file.got[1] = "error" => kind # "buffer" /\ first.fails
      /\ IF given
           THEN /\ ~file.cached /\ file.pending = "no"
                /\ file.consumed /\ rest \subseteq {"consumed"}
           ELSE /\ file.cached = (file.got[1] = "bytes")
                /\ file.pending = IF file.got[1] = "error" THEN "failed" ELSE "no"
                /\ rest \subseteq {file.got[1]}
    BY DEF Read
<1>3. PICK what \in ReadOutcomes :
           /\ after.got = Append(file.got, what)
           /\ after.kind = kind /\ after.cached = file.cached /\ after.pending = file.pending
           /\ after.consumed = file.consumed /\ after.fetched = file.fetched
           /\ what = IF given THEN "consumed" ELSE file.got[1]
    <2>1. PICK what \in ReadOutcomes, more \in {0, 1}, cached \in BOOLEAN,
               pending \in {"no", "failed"}, consumed \in BOOLEAN :
                  /\ after = [kind |-> file.kind, cached |-> cached, pending |-> pending,
                              consumed |-> consumed, fetched |-> file.fetched + more,
                              got |-> Append(file.got, what)]
                  /\ file.cached => /\ what = "bytes" /\ more = 0 /\ cached
                                    /\ pending = file.pending /\ consumed = file.consumed
                  /\ ~file.cached /\ file.pending = "failed" =>
                        /\ what = "error" /\ more = 0 /\ ~cached
                        /\ pending = "failed" /\ consumed = file.consumed
                  /\ /\ ~file.cached /\ file.pending = "no" /\ file.consumed
                     /\ file.kind = "stream"
                     =>
                        /\ what = "consumed" /\ more = 0 /\ ~cached
                        /\ pending = "no" /\ consumed
        <3> HIDE DEF after
        <3>1. QED
            BY OneAccess DEF after
    <2> HIDE DEF after, rest
    <2>2. CASE given
        <3>1. ~file.cached /\ file.pending = "no" /\ file.consumed /\ file.kind = "stream"
            BY <1>2, <2>2
        <3> HIDE DEF given
        <3>2. what = "consumed" /\ more = 0 /\ ~cached /\ pending = "no" /\ consumed
            BY <2>1, <3>1
        <3>3. QED
            BY <1>1, <1>2, <2>1, <2>2, <3>1, <3>2
    <2>3. CASE ~given
        <3>1. CASE file.got[1] = "bytes"
            BY <1>1, <1>2, <2>1, <2>3, <3>1
        <3>2. CASE file.got[1] = "error"
            BY <1>1, <1>2, <2>1, <2>3, <3>2
        <3>3. QED
            BY <1>2, <3>1, <3>2
    <2>4. QED
        BY <2>2, <2>3
<1>4. /\ after.got[1] = file.got[1]
      /\ \A m \in 2 .. Len(after.got) : m <= Len(file.got) \/ after.got[m] = what
      /\ \A m \in 2 .. Len(file.got) : after.got[m] = file.got[m]
    BY <1>1, <1>3
<1>5. {after.got[m] : m \in 2 .. Len(after.got)} \subseteq rest \cup {what}
    <2> SUFFICES ASSUME NEW m \in 2 .. Len(after.got)
                 PROVE  after.got[m] \in rest \cup {what}
        OBVIOUS
    <2>1. Len(file.got) \in Nat
        BY <1>1
    <2>2. CASE m <= Len(file.got)
        <3>1. m \in 2 .. Len(file.got)
            BY <2>1, <2>2
        <3> HIDE DEF after
        <3>2. QED
            BY <1>4, <3>1
    <2>3. CASE ~(m <= Len(file.got))
        <3> HIDE DEF after
        <3>1. QED
            BY <1>4, <2>3
    <2>4. QED
        BY <2>2, <2>3
<1> HIDE DEF rest
<1>6. {after.got[m] : m \in 2 .. Len(after.got)} \subseteq
         IF given THEN {"consumed"} ELSE {file.got[1]}
    <2> HIDE DEF after
    <2>1. QED
        BY <1>2, <1>3, <1>5
<1> HIDE DEF after
<1>7. QED
    BY <1>2, <1>3, <1>4, <1>6 DEF Read, after

\* However often a stored file is read, and in whichever way each time, its source is read once
\* (that of a buffer never); what came of it first, the bytes or the error, is what every later
\* read gets, but that a stream which was given away is not had again.
THEOREM OneReadHowever ==
    ASSUME NEW kind \in Kinds, NEW accesses \in Seq(Fetch!Accesses), accesses # <<>>
    PROVE  LET file == Fetch!After(kind, accesses)
               first == file.got[1]
               others == {file.got[m] : m \in 2 .. Len(accesses)}
           IN  /\ Len(file.got) = Len(accesses)
               /\ file.fetched = IF kind = "buffer" THEN 0 ELSE 1
               /\ first \in {"bytes", "error"}
               /\ first = "error" => kind # "buffer" /\ accesses[1].fails
               /\ others \subseteq IF kind = "stream" /\ accesses[1].op = "stream"
                                     THEN {"consumed"} ELSE {first}
<1> DEFINE S == StoredFiles
           N == Len(accesses)
           base == Fetch!FreshFile(kind)
           Turn(n, s) == Fetch!Accessed(s, accesses[n])
           step == [a \in (1 .. N) \X S |-> Turn(a[1], a[2])]
           after == Fetch!History(kind, accesses)
<1>1. N \in Nat /\ N >= 1 /\ \A n \in 1 .. N : accesses[n] \in Fetch!Accesses
    OBVIOUS
<1>2. base \in S /\ Len(base.got) = 0
    BY DEF StoredFiles, Fetch!FreshFile
<1>3. ASSUME NEW n \in 1 .. N, NEW s \in S
      PROVE  Turn(n, s) \in S /\ Len(Turn(n, s).got) = Len(s.got) + 1
    BY <1>1, OneAccessTyped
<1>4. step \in [(1 .. N) \X S -> S]
    <2> HIDE DEF S, Turn, N
    <2>1. QED
        BY <1>3
<1>5. PICK f : Turns(S, N, base, step, f)
    <2> HIDE DEF S, step, base, N
    <2>1. HasTurns(S, N, base, step)
        BY <1>1, <1>2, <1>4, LoopsTurn
    <2>2. QED
        BY <2>1 DEF HasTurns
<1>6. \A n \in 1 .. N : step[<<n, f[n - 1]>>] = Turn(n, f[n - 1])
    <2> HIDE DEF S, Turn
    <2>1. \A n \in 1 .. N : n - 1 \in 0 .. N /\ f[n - 1] \in S
        <3> HIDE DEF N, step, base
        <3>1. QED
            BY <1>1, <1>5 DEF Turns
    <2>2. QED
        BY <2>1
<1>7. f = [n \in 0 .. N |-> IF n = 0 THEN base ELSE Turn(n, f[n - 1])]
    <2> HIDE DEF Turn, step, base, S
    <2>1. \A n \in 0 .. N : n # 0 => n \in 1 .. N
        BY <1>1
    <2>2. QED
        BY <1>5, <1>6, <2>1 DEF Turns
<1>8. after = [n \in 0 .. N |-> IF n = 0 THEN base ELSE Turn(n, after[n - 1])]
    BY <1>7 DEF Fetch!History
<1> DEFINE Good(n) == /\ after[n] \in S /\ Len(after[n].got) = n
                      /\ n = 0 => after[n] = base
                      /\ n > 0 => Read(after[n], kind, accesses[1])
           P == {n \in 0 .. N : Good(n)}
<1>9. 0 \in P
    <2>1. after[0] = base
        <3> HIDE DEF after, Turn, base
        <3>1. QED
            BY <1>1, <1>8
    <2> HIDE DEF after, base, S
    <2>2. QED
        BY <1>1, <1>2, <2>1
<1>10. ASSUME NEW n \in 1 .. N, n - 1 \in P
       PROVE  n \in P
    <2>1. after[n] = Turn(n, after[n - 1])
        <3> HIDE DEF after, Turn, base
        <3>1. n \in 0 .. N /\ n # 0
            BY <1>1
        <3> HIDE DEF N
        <3>2. QED
            BY <1>8, <3>1
    <2> HIDE DEF after
    <2>2. Good(n - 1)
        BY <1>10
    <2>3. /\ after[n] \in S /\ Len(after[n].got) = n
        <3>1. after[n - 1] \in S /\ Len(after[n - 1].got) + 1 = n
            BY <2>2
        <3> HIDE DEF S, Turn, N
        <3>2. QED
            BY <1>3, <2>1, <3>1
    <2>4. Read(after[n], kind, accesses[1])
        <3>1. CASE n = 1
            <4>1. after[1] = Fetch!Accessed(base, accesses[1])
                BY <2>1, <2>2, <3>1
            <4>2. QED
                BY <1>1, <3>1, <4>1, FirstAccess
        <3>2. CASE n # 1
            <4>1. /\ after[n - 1] \in StoredFiles /\ Len(after[n - 1].got) >= 1
                  /\ Read(after[n - 1], kind, accesses[1])
                BY <2>2, <3>2
            <4>2. QED
                BY <1>1, <2>1, <4>1, OtherAccess
        <3>3. QED
            BY <3>1, <3>2
    <2>5. QED
        BY <2>3, <2>4
<1>11. N \in P
    <2> HIDE DEF P
    <2>1. \A n \in 0 .. N : n \in P
        BY <1>1, <1>9, <1>10, UpTo
    <2>2. QED
        BY <1>1, <2>1
<1>12. Good(N)
    BY <1>11
<1>13. Fetch!After(kind, accesses) = after[N]
    BY DEF Fetch!After
<1> HIDE DEF after
<1>14. Len(after[N].got) = N /\ Read(after[N], kind, accesses[1])
    BY <1>1, <1>12
<1>15. QED
    BY <1>13, <1>14 DEF Read

(***************************************************************************)
(* DeleteMany, which the deletions of sync() go through: key by key, for   *)
(* lists of any length and whatever the provider refuses or loses.         *)
(***************************************************************************)

Bulk == INSTANCE DeleteMany

\* The state of a provider that holds paths of P, and what the loop has so far.
ProviderOf(P) == [objects : SUBSET P, refused : SUBSET P, lost : SUBSET Nat, landed : BOOLEAN]
OutcomeOf(P) == [deleted : Seq(P), errors : Seq(P), world : ProviderOf(P), requests : Nat]

\* What one key's request does to the outcome so far.
LEMMA OneRequest ==
    ASSUME NEW P, NEW got \in OutcomeOf(P), NEW path \in P
    PROVE  LET next == Bulk!DeleteOne(got, path)
           IN  /\ next \in OutcomeOf(P)
               /\ next.requests = got.requests + 1
               /\ \/ /\ next.deleted = Append(got.deleted, path)
                     /\ next.errors = got.errors
                     /\ next.world.objects = got.world.objects \ {path}
                  \/ /\ next.deleted = got.deleted
                     /\ next.errors = Append(got.errors, path)
                     /\ next.world.objects \in {got.world.objects, got.world.objects \ {path}}
<1> DEFINE sent == Bulk!Sent(got, <<path>>)
           next == Bulk!DeleteOne(got, path)
           gone == IF Bulk!Fails(got) /\ ~got.world.landed THEN {}
                   ELSE {path} \ got.world.refused
           kept == got.world.objects \ gone
<1>1. /\ got.deleted \in Seq(P) /\ got.errors \in Seq(P) /\ got.requests \in Nat
      /\ got.world \in ProviderOf(P)
    BY DEF OutcomeOf
<1>2. kept \in SUBSET P
    BY <1>1 DEF ProviderOf
<1>3. Bulk!ToSet(<<path>>) = {path}
    BY DEF Bulk!ToSet
<1>4. sent = [got EXCEPT !.world.objects = kept, !.requests = @ + 1]
    BY <1>3 DEF Bulk!Sent
<1>5. [got.world EXCEPT !.objects = kept] \in ProviderOf(P)
    <2> HIDE DEF kept
    <2>1. QED
        BY <1>1, <1>2 DEF ProviderOf
<1>6. /\ sent \in OutcomeOf(P) /\ sent.requests = got.requests + 1
      /\ sent.deleted = got.deleted /\ sent.errors = got.errors
      /\ sent.world.objects = kept
    <2> HIDE DEF kept
    <2>1. [got EXCEPT !.world.objects = kept, !.requests = @ + 1] =
             [deleted |-> got.deleted, errors |-> got.errors,
              world |-> [got.world EXCEPT !.objects = kept], requests |-> got.requests + 1]
        <3> DEFINE w == [got.world EXCEPT !.objects = kept]
                   more == got.requests + 1
                   half == [got EXCEPT !.world = w]
        <3>1. [got EXCEPT !.world.objects = kept, !.requests = @ + 1] =
                 [half EXCEPT !.requests = more]
            OBVIOUS
        <3> HIDE DEF w, more
        <3>2. half = [deleted |-> got.deleted, errors |-> got.errors, world |-> w,
                      requests |-> got.requests]
            BY DEF OutcomeOf
        <3> HIDE DEF half
        <3>3. [half EXCEPT !.requests = more] =
                 [deleted |-> got.deleted, errors |-> got.errors, world |-> w,
                  requests |-> more]
            BY <3>2
        <3>4. QED
            BY <3>1, <3>3 DEF w, more
    <2>2. QED
        BY <1>1, <1>4, <1>5, <2>1 DEF OutcomeOf, ProviderOf
<1>7. Append(got.deleted, path) \in Seq(P) /\ Append(got.errors, path) \in Seq(P)
    BY <1>1
<1>8. CASE Bulk!Fails(got) \/ path \in got.world.refused
    <2>1. next = [sent EXCEPT !.errors = Append(@, path)]
        BY <1>8 DEF Bulk!DeleteOne
    <2>2. kept \in {got.world.objects, got.world.objects \ {path}}
        OBVIOUS
    <2> HIDE DEF sent, next, kept
    <2>3. QED
        BY <1>6, <1>7, <2>1, <2>2 DEF OutcomeOf, next
<1>9. CASE ~(Bulk!Fails(got) \/ path \in got.world.refused)
    <2>1. next = [sent EXCEPT !.deleted = Append(@, path)]
        BY <1>9 DEF Bulk!DeleteOne
    <2>2. kept = got.world.objects \ {path}
        BY <1>9
    <2> HIDE DEF sent, next, kept
    <2>3. QED
        BY <1>6, <1>7, <2>1, <2>2 DEF OutcomeOf, next
<1>10. QED
    BY <1>8, <1>9

\* The loop: one state after each turn.
OneTurn(halting, got, path) ==
    IF halting /\ got.errors # <<>> THEN got ELSE Bulk!DeleteOne(got, path)

LEMMA LoopFacts ==
    ASSUME NEW P, NEW paths \in Seq(P), NEW halting \in BOOLEAN, NEW world \in ProviderOf(P)
    PROVE  \E f \in [0 .. Len(paths) -> OutcomeOf(P)] :
               /\ f[0] = Bulk!Outcome(world)
               /\ \A n \in 1 .. Len(paths) : f[n] = OneTurn(halting, f[n - 1], paths[n])
               /\ Bulk!OneByOne(paths, halting, world) = f[Len(paths)]
<1> DEFINE N == Len(paths)
           S == OutcomeOf(P)
           base == Bulk!Outcome(world)
           step == [x \in (1 .. N) \X S |-> OneTurn(halting, x[2], paths[x[1]])]
           After == CHOOSE f : f = [n \in 0 .. N |->
                        IF n = 0 THEN base
                        ELSE IF halting /\ f[n - 1].errors # <<>> THEN f[n - 1]
                        ELSE Bulk!DeleteOne(f[n - 1], paths[n])]
<1>1. N \in Nat
    OBVIOUS
<1>2. base \in S
    BY DEF OutcomeOf, Bulk!Outcome
<1>3. step \in [(1 .. N) \X S -> S]
    <2>1. \A n \in 1 .. N : paths[n] \in P
        OBVIOUS
    <2>2. \A n \in 1 .. N, s \in S : OneTurn(halting, s, paths[n]) \in S
        BY <2>1, OneRequest DEF OneTurn
    <2> HIDE DEF N, S
    <2>3. QED
        BY <2>2
<1>4. \E f : Turns(S, N, base, step, f)
    <2> HIDE DEF N, S, base, step
    <2>1. QED
        BY <1>1, <1>2, <1>3, LoopsTurn DEF HasTurns
<1>5. PICK f : Turns(S, N, base, step, f)
    BY <1>4
<1>6. /\ f \in [0 .. N -> S] /\ f[0] = base
      /\ \A n \in 1 .. N : f[n] = OneTurn(halting, f[n - 1], paths[n])
    <2>1. /\ f \in [0 .. N -> S] /\ f[0] = base
          /\ \A n \in 1 .. N : f[n] = step[<<n, f[n - 1]>>]
        <3> HIDE DEF N, S, base, step
        <3>1. QED
            BY <1>1, <1>5 DEF Turns
    <2>2. \A n \in 1 .. N : f[n - 1] \in S
        <3> HIDE DEF S, N
        <3>1. QED
            BY <1>1, <2>1
    <2>3. QED
        BY <2>1, <2>2
<1>7. f = [n \in 0 .. N |-> IF n = 0 THEN base
                           ELSE IF halting /\ f[n - 1].errors # <<>> THEN f[n - 1]
                           ELSE Bulk!DeleteOne(f[n - 1], paths[n])]
    <2> HIDE DEF N, S, base
    <2>1. QED
        BY <1>1, <1>6 DEF OneTurn
<1>8. ASSUME NEW g, g = [n \in 0 .. N |-> IF n = 0 THEN base
                           ELSE IF halting /\ g[n - 1].errors # <<>> THEN g[n - 1]
                           ELSE Bulk!DeleteOne(g[n - 1], paths[n])]
      PROVE  g[N] = f[N]
    <2> DEFINE Q == {n \in 0 .. N : g[n] = f[n]}
    <2> HIDE DEF N, S, base
    <2>1. g[0] = base /\ \A n \in 1 .. N : g[n] = OneTurn(halting, g[n - 1], paths[n])
        <3> DEFINE turn(n) == IF halting /\ g[n - 1].errors # <<>> THEN g[n - 1]
                              ELSE Bulk!DeleteOne(g[n - 1], paths[n])
        <3>1. g = [n \in 0 .. N |-> IF n = 0 THEN base ELSE turn(n)]
            BY <1>8
        <3>2. \A n \in 1 .. N : turn(n) = OneTurn(halting, g[n - 1], paths[n])
            BY DEF OneTurn
        <3> HIDE DEF turn
        <3>3. g[0] = base /\ \A n \in 1 .. N : g[n] = turn(n)
            BY <1>1, <3>1
        <3>4. QED
            BY <3>2, <3>3
    <2>2. 0 \in Q
        BY <1>1, <1>6, <2>1
    <2>3. \A n \in 1 .. N : n - 1 \in Q => n \in Q
        BY <1>1, <1>6, <2>1
    <2> HIDE DEF Q
    <2>4. N \in Q
        BY <1>1, <2>2, <2>3, UpTo
    <2>5. QED
        BY <2>4 DEF Q
<1>9. Bulk!OneByOne(paths, halting, world) = After[N]
    BY DEF Bulk!OneByOne
<1>10. QED
    BY <1>6, <1>7, <1>8, <1>9

\* The paths in a list.
Among(list) == {list[i] : i \in 1 .. Len(list)}

\* What Append adds.
LEMMA OneMore ==
    ASSUME NEW P, NEW list \in Seq(P), NEW p \in P
    PROVE  /\ Among(Append(list, p)) = Among(list) \cup {p}
           /\ Append(list, p) \in Seq(P) /\ Len(Append(list, p)) = Len(list) + 1
           /\ \A i \in 1 .. Len(list) : Append(list, p)[i] = list[i]
           /\ Append(list, p)[Len(list) + 1] = p
<1> DEFINE more == Append(list, p)
<1>1. /\ more \in Seq(P) /\ Len(more) = Len(list) + 1 /\ Len(list) \in Nat
      /\ \A i \in 1 .. Len(list) : more[i] = list[i]
      /\ more[Len(list) + 1] = p
    OBVIOUS
<1> HIDE DEF more
<1>2. 1 .. Len(more) = (1 .. Len(list)) \cup {Len(list) + 1}
    BY <1>1
<1>3. Among(more) = Among(list) \cup {p}
    BY <1>1, <1>2 DEF Among
<1>4. QED
    BY <1>1, <1>3 DEF more

\* What a loop has that has sent k requests: k answers, which are those to the first k keys;
\* what it has as deleted is gone, and nothing else than these keys is.
Answers(paths, world, got) ==
    /\ Len(got.deleted) + Len(got.errors) = got.requests
    /\ got.requests <= Len(paths)
    /\ Among(got.deleted) \cup Among(got.errors) = {paths[i] : i \in 1 .. got.requests}
    /\ Among(got.deleted) \cap got.world.objects = {}
    /\ got.world.objects \subseteq world.objects
    /\ world.objects \ got.world.objects \subseteq {paths[i] : i \in 1 .. got.requests}

\* One that is asked to halting has deleted the keys before its one error, if it has one.
Stopped(paths, got) ==
    /\ \A i \in 1 .. Len(got.deleted) : got.deleted[i] = paths[i]
    /\ got.errors # <<>> => got.errors = <<paths[got.requests]>>

\* One more request adds its answer, and is the last if a loop that stops gets an error.
LEMMA OneAnswer ==
    ASSUME NEW P, NEW paths \in Seq(P), NEW world \in ProviderOf(P), NEW got \in OutcomeOf(P),
           Answers(paths, world, got), got.requests < Len(paths)
    PROVE  LET next == Bulk!DeleteOne(got, paths[got.requests + 1])
           IN  /\ Answers(paths, world, next)
               /\ got.errors = <<>> /\ Stopped(paths, got) => Stopped(paths, next)
<1> DEFINE k == got.requests
           path == paths[k + 1]
           next == Bulk!DeleteOne(got, path)
           d == got.deleted
           e == got.errors
           o == got.world.objects
           first(n) == {paths[i] : i \in 1 .. n}
<1>1. k \in Nat /\ k + 1 \in 1 .. Len(paths) /\ path \in P /\ d \in Seq(P) /\ e \in Seq(P)
    BY DEF OutcomeOf
<1>2. /\ Len(d) \in Nat /\ Len(e) \in Nat /\ Len(d) + Len(e) = k
      /\ Among(d) \cup Among(e) = first(k) /\ Among(d) \cap o = {}
      /\ o \subseteq world.objects /\ world.objects \ o \subseteq first(k)
    <2>1. Len(d) \in Nat /\ Len(e) \in Nat
        BY <1>1
    <2> HIDE DEF d, e
    <2>2. /\ Len(d) + Len(e) = k
          /\ Among(d) \cup Among(e) = first(k) /\ Among(d) \cap o = {}
          /\ o \subseteq world.objects /\ world.objects \ o \subseteq first(k)
        BY Zenon DEF Answers, d, e
    <2>3. QED
        BY <2>1, <2>2
<1>3. first(k + 1) = first(k) \cup {path}
    <2>1. 1 .. k + 1 = (1 .. k) \cup {k + 1}
        BY <1>1
    <2>2. QED
        BY <2>1
<1>4. /\ next.requests = k + 1
      /\ \/ /\ next.deleted = Append(d, path) /\ next.errors = e
            /\ next.world.objects = o \ {path}
         \/ /\ next.deleted = d /\ next.errors = Append(e, path)
            /\ next.world.objects \in {o, o \ {path}}
    <2> HIDE DEF path
    <2>1. path \in P /\ got \in OutcomeOf(P)
        BY <1>1
    <2>2. QED
        BY <2>1, OneRequest
<1>5. /\ Among(Append(d, path)) = Among(d) \cup {path} /\ Len(Append(d, path)) = Len(d) + 1
      /\ \A i \in 1 .. Len(d) : Append(d, path)[i] = d[i]
      /\ Append(d, path)[Len(d) + 1] = path
      /\ Among(Append(e, path)) = Among(e) \cup {path} /\ Len(Append(e, path)) = Len(e) + 1
    BY <1>1, OneMore
<1>6. e = <<>> => Append(e, path) = <<path>> /\ Len(e) = 0
    OBVIOUS
<1> HIDE DEF d, e, o, first, path, next
<1>7. /\ Len(next.deleted) + Len(next.errors) = k + 1
      /\ Among(next.deleted) \cup Among(next.errors) = first(k + 1)
      /\ Among(next.deleted) \cap next.world.objects = {}
      /\ next.world.objects \subseteq world.objects
      /\ world.objects \ next.world.objects \subseteq first(k + 1)
    <2> HIDE DEF k
    <2>1. CASE /\ next.deleted = Append(d, path) /\ next.errors = e
               /\ next.world.objects = o \ {path}
        <3>1. Len(next.deleted) + Len(next.errors) = k + 1
            BY <1>1, <1>2, <1>5, <2>1
        <3>2. /\ Among(next.deleted) = Among(d) \cup {path} /\ Among(next.errors) = Among(e)
            BY <1>5, <2>1
        <3>3. QED
            BY <1>2, <1>3, <2>1, <3>1, <3>2
    <2>2. CASE /\ next.deleted = d /\ next.errors = Append(e, path)
               /\ next.world.objects \in {o, o \ {path}}
        <3>1. Len(next.deleted) + Len(next.errors) = k + 1
            BY <1>1, <1>2, <1>5, <2>2
        <3>2. /\ Among(next.deleted) = Among(d) /\ Among(next.errors) = Among(e) \cup {path}
            BY <1>5, <2>2
        <3>3. QED
            BY <1>2, <1>3, <2>2, <3>1, <3>2
    <2>3. QED
        BY <1>4, <2>1, <2>2
<1>8. Answers(paths, world, next)
    <2> DEFINE m == k + 1
    <2>1. next.requests = m /\ m <= Len(paths)
        BY <1>1, <1>4
    <2>2. /\ Len(next.deleted) + Len(next.errors) = m
          /\ Among(next.deleted) \cup Among(next.errors) = {paths[i] : i \in 1 .. m}
          /\ world.objects \ next.world.objects \subseteq {paths[i] : i \in 1 .. m}
        BY <1>7 DEF first
    <2> HIDE DEF m
    <2>3. QED
        BY <1>7, <2>1, <2>2 DEF Answers
<1>9. ASSUME e = <<>>, Stopped(paths, got)
      PROVE  Stopped(paths, next)
    <2>1. Len(d) = k /\ \A i \in 1 .. Len(d) : d[i] = paths[i]
        BY <1>2, <1>6, <1>9 DEF Stopped, d
    <2>2. CASE next.deleted = Append(d, path) /\ next.errors = e
        <3>1. \A i \in 1 .. k + 1 : Append(d, path)[i] = paths[i]
            BY <1>1, <1>5, <2>1 DEF path
        <3>2. QED
            BY <1>5, <1>9, <2>1, <2>2, <3>1 DEF Stopped
    <2>3. CASE next.deleted = d /\ next.errors = Append(e, path)
        BY <1>4, <1>6, <1>9, <2>1, <2>3 DEF Stopped, path
    <2>4. QED
        BY <1>4, <2>2, <2>3
<1>10. QED
    BY <1>8, <1>9 DEF next, path, e

\* delete([...]) key by key, for any keys, any provider and any requests that fail: a request is
\* sent for each key and answers it, what is answered as deleted is gone, and nothing else is.
\* Asked to halting, it has deleted the keys before the first failure and sent nothing after it.
THEOREM EveryKeyOnItsOwn ==
    ASSUME NEW P, NEW paths \in Seq(P), NEW halting \in BOOLEAN, NEW world \in ProviderOf(P)
    PROVE  LET got == Bulk!OneByOne(paths, halting, world)
           IN  /\ Answers(paths, world, got)
               /\ ~halting \/ got.errors = <<>> => got.requests = Len(paths)
               /\ halting => Stopped(paths, got)
<1> DEFINE N == Len(paths)
<1>1. N \in Nat
    OBVIOUS
<1>2. PICK f \in [0 .. N -> OutcomeOf(P)] :
              /\ f[0] = Bulk!Outcome(world)
              /\ \A n \in 1 .. N : f[n] = OneTurn(halting, f[n - 1], paths[n])
              /\ Bulk!OneByOne(paths, halting, world) = f[N]
    BY LoopFacts
<1> DEFINE Good(n) == /\ Answers(paths, world, f[n])
                      /\ ~halting \/ f[n].errors = <<>> => f[n].requests = n
                      /\ halting => Stopped(paths, f[n])
           Q == {n \in 0 .. N : Good(n)}
<1>3. Good(0)
    <2>1. /\ f[0].deleted = <<>> /\ f[0].errors = <<>> /\ f[0].requests = 0
          /\ f[0].world = world
        BY <1>2 DEF Bulk!Outcome
    <2>2. Among(<<>>) = {} /\ Len(<<>>) = 0 /\ 1 .. 0 = {}
        BY DEF Among
    <2>3. QED
        BY <1>1, <2>1, <2>2 DEF Answers, Stopped
<1>4. ASSUME NEW n \in 1 .. N, Good(n - 1)
      PROVE  Good(n)
    <2> DEFINE got == f[n - 1]
    <2>1. n - 1 \in 0 .. N /\ got \in OutcomeOf(P) /\ f[n] = OneTurn(halting, got, paths[n])
        BY <1>1, <1>2
    <2>2. CASE halting /\ got.errors # <<>>
        <3>1. f[n] = got
            BY <2>1, <2>2 DEF OneTurn
        <3> HIDE DEF got
        <3>2. QED
            BY <1>4, <2>2, <3>1 DEF got
    <2>3. CASE ~(halting /\ got.errors # <<>>)
        <3>1. f[n] = Bulk!DeleteOne(got, paths[n]) /\ got.requests = n - 1
            BY <1>4, <2>1, <2>3 DEF OneTurn
        <3>2. paths[n] = paths[got.requests + 1] /\ got.requests < N
            BY <1>1, <3>1
        <3>3. Answers(paths, world, got) /\ (halting => Stopped(paths, got))
            BY <1>4
        <3>4. paths[n] \in P
            OBVIOUS
        <3> HIDE DEF got, N
        <3>5. f[n].requests = n
            BY <2>1, <3>1, <3>4, OneRequest
        <3>6. /\ Answers(paths, world, f[n])
              /\ got.errors = <<>> /\ Stopped(paths, got) => Stopped(paths, f[n])
            BY <2>1, <3>1, <3>2, <3>3, OneAnswer DEF N
        <3>7. QED
            BY <2>3, <3>3, <3>5, <3>6
    <2>4. QED
        BY <2>2, <2>3
<1>5. N \in Q
    <2>1. 0 \in Q /\ \A n \in 1 .. N : n - 1 \in Q => n \in Q
        <3> HIDE DEF Good
        <3>1. QED
            BY <1>1, <1>3, <1>4
    <2> HIDE DEF N, Q
    <2>2. 0 \in Q
        BY <2>1
    <2>3. \A n \in 1 .. N : n - 1 \in Q => n \in Q
        BY <2>1
    <2> HIDE DEF Good
    <2>4. N \in Nat
        BY <1>1
    <2>5. \A n \in 0 .. N : n \in Q
        BY <2>2, <2>3, <2>4, UpTo
    <2>6. QED
        BY <2>4, <2>5
<1>6. QED
    BY <1>2, <1>5

=============================================================================
