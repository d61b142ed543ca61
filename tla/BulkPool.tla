------------------------------ MODULE BulkPool ------------------------------
(***************************************************************************)
(* The engine under every bulk call (internal/core.ts): mapMany and        *)
(* deleteManyWithFallback run one operation per item of a list, on workers *)
(* that share an index, or one by one up to the first failure              *)
(* (stopOnError). What an item's operation does is left to the module that *)
(* extends this one.                                                       *)
(***************************************************************************)
EXTENDS Integers, Sequences

CONSTANTS
    Items,
    MaxItems,      \* bound: length of a list
    Concurrency    \* the concurrency option; 0 where it is absent or invalid

ASSUME PoolAssumption == MaxItems \in Nat /\ Concurrency \in Nat

VARIABLES
    batch,     \* the list of the call under way, or of the last one
    stop,      \* it has stopOnError
    index,     \* slots handed out
    at,        \* the slot each worker is running, or 0
    outcome    \* of each slot

poolVars == <<batch, stop, index, at, outcome>>

Slots == 1 .. MaxItems
DefaultConcurrency == 8
Outcomes == {"waiting", "running", "done", "failed"}

PoolTypeOK ==
    /\ batch \in Seq(Items) /\ Len(batch) <= MaxItems
    /\ stop \in BOOLEAN
    /\ index \in 0 .. Len(batch)
    /\ at \in [Slots -> 0 .. Len(batch)]
    /\ outcome \in [Slots -> Outcomes]

\* The workers of a call: never more than there are items, one in a sequential call.
Workers ==
    {w \in 1 .. Len(batch) :
        w <= IF stop THEN 1 ELSE IF Concurrency > 0 THEN Concurrency ELSE DefaultConcurrency}

PoolInit ==
    /\ batch = <<>>
    /\ stop = FALSE
    /\ index = 0
    /\ at = [w \in Slots |-> 0]
    /\ outcome = [i \in Slots |-> "waiting"]

\* Slip: the index of the call before is not reset.
CallGoingOn(list, stopOnError) ==
    /\ batch' = list
    /\ stop' = stopOnError
    /\ UNCHANGED index
    /\ at' = [w \in Slots |-> 0]
    /\ outcome' = [i \in Slots |-> "waiting"]

Call(list, stopOnError) ==
    /\ batch' = list
    /\ stop' = stopOnError
    /\ index' = 0
    /\ at' = [w \in Slots |-> 0]
    /\ outcome' = [i \in Slots |-> "waiting"]

\* The sequential call returns at its first failure.
Bailed == stop /\ \E i \in Slots : outcome[i] = "failed"

Free(w) == w \in Workers /\ at[w] = 0 /\ index < Len(batch) /\ ~Bailed

\* Slip: the shared index moves on when the item has been run, not before.
TakeLate(w) ==
    /\ Free(w)
    /\ index' = IF \E v \in Workers : at[v] = index + 1 THEN index + 1 ELSE index
    /\ at' = [at EXCEPT ![w] = index + 1]
    /\ outcome' = [outcome EXCEPT ![index + 1] = "running"]
    /\ UNCHANGED <<batch, stop>>

\* A free worker takes the next slot.
Take(w) ==
    /\ Free(w)
    /\ index' = index + 1
    /\ at' = [at EXCEPT ![w] = index + 1]
    /\ outcome' = [outcome EXCEPT ![index + 1] = "running"]
    /\ UNCHANGED <<batch, stop>>

\* A free worker takes the next slot, whose operation has nothing to wait for.
TakeAndPass(w) ==
    /\ Free(w)
    /\ index' = index + 1
    /\ outcome' = [outcome EXCEPT ![index + 1] = "done"]
    /\ UNCHANGED <<batch, stop, at>>

\* The operation that w runs ends; a failure is the item's own.
SettleSlot(w, how) ==
    /\ at[w] # 0
    /\ at' = [at EXCEPT ![w] = 0]
    /\ outcome' = [outcome EXCEPT ![at[w]] = how]
    /\ UNCHANGED <<batch, stop, index>>

\* Slip: the sequential call waits for the items it will not run.
DrainedInFull == (\A w \in Slots : at[w] = 0) /\ index = Len(batch)

Drained == (\A w \in Slots : at[w] = 0) /\ (index = Len(batch) \/ Bailed)

\* The items that ended in that way.
Ended(how) == {batch[i] : i \in {j \in 1 .. Len(batch) : outcome[j] = how}}

\* No item is run twice, and none is left out: a slot is in the hands of one worker,
\* or settled, or not handed out yet.
OncePerItem ==
    /\ \A w, v \in Slots : at[w] # 0 /\ at[w] = at[v] => w = v
    /\ \A i \in Slots : (outcome[i] = "running") <=> \E w \in Slots : at[w] = i
    /\ \A i \in Slots : (outcome[i] = "waiting") <=> i > index
=============================================================================
