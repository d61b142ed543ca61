-------------------------- MODULE CachePluginProofs --------------------------
(***************************************************************************)
(* What the cache() plugin guarantees for any keys, verbs and number of    *)
(* concurrent operations.                                                  *)
(*                                                                         *)
(* The two guarantees have the same shape: a predicate on one entry of a   *)
(* key (Bounded: how far it can lag behind; Fresh: that it does not) is    *)
(* kept by the records in the store, by the records that filling reads     *)
(* have got back from it, and by the answers on their way there.           *)
(***************************************************************************)
EXTENDS CachePlugin, SequenceTheorems, WellFoundedInduction, TLAPS

Busy(t) == pc[t] # "idle"
Holding == {"got", "fill", "put"}

\* Types, with what a busy operation is known to be.
Typed ==
    /\ object \in [Keys -> 0 .. MaxWrites]
    /\ versions \in 0 .. MaxWrites
    /\ replaced \in [1 .. MaxWrites -> 0 .. Infinity]
    /\ now \in 0 .. MaxTime
    /\ cached \in [Keys -> [Reads -> Entry]]
    /\ pc \in [Threads -> {"idle", "lookup", "sent", "got", "fill", "put",
                           "writeSent", "writeLanded", "invalidate"}]
    /\ op \in [Threads -> Op \cup {NoOp}]
    /\ at \in [Threads -> 0 .. MaxTime]
    /\ seen \in [Threads -> Nat]
    /\ record \in [Threads -> [Reads -> Entry]]
    /\ \A t \in Threads : Busy(t) => op[t] \in Op
    /\ \A t \in Threads : pc[t] \in {"lookup", "sent"} \cup Holding => op[t].kind \in Reads
    /\ \A t \in Threads : pc[t] \in {"writeSent", "writeLanded", "invalidate"} => op[t].kind \in Writes
    /\ \A t \in Threads : Busy(t) /\ op[t].kind \notin {"copy", "move"} => op[t].to = op[t].key

\* The store calls only ever keep, drop or replace a record.
StoreStep(k, r) ==
    \A x \in Keys : cached'[x] = cached[x] \/ cached'[x] = NoRecord \/ (x = k /\ cached'[x] = r)

LEMMA SetSteps ==
    ASSUME Typed, NEW k \in Keys, NEW r \in [Reads -> Entry], Set(k, r)
    PROVE  cached' \in [Keys -> [Reads -> Entry]] /\ StoreStep(k, r)
<1> DEFINE kept == SubSeq(Touch(k), Len(Touch(k)) - MaxEntries + 1, Len(Touch(k)))
<1>1. NoRecord \in [Reads -> Entry]
  BY DEF NoRecord, NoEntry, Entry
<1>2. CASE Len(Touch(k)) <= MaxEntries
  <2>1. cached' = [cached EXCEPT ![k] = r]
    BY <1>2 DEF Set
  <2>2. QED
    BY <2>1 DEF Typed, StoreStep
<1>3. CASE ~(Len(Touch(k)) <= MaxEntries)
  <2>1. cached' = [x \in Keys |-> IF \A i \in 1 .. Len(kept) : kept[i] # x THEN NoRecord
                                 ELSE IF x = k THEN r ELSE cached[x]]
    BY <1>3 DEF Set
  <2> HIDE DEF kept
  <2>2. QED
    BY <1>1, <2>1 DEF Typed, StoreStep
<1>4. QED
  BY <1>2, <1>3

LEMMA DeleteSteps ==
    ASSUME Typed, NEW k \in Keys, Delete(k)
    PROVE  /\ cached' \in [Keys -> [Reads -> Entry]]
           /\ \A x \in Keys : cached'[x] = IF x = k THEN NoRecord ELSE cached[x]
<1>1. NoRecord \in [Reads -> Entry]
  BY DEF NoRecord, NoEntry, Entry
<1>2. QED
  BY <1>1 DEF Delete, Typed

LEMMA ExpiryType ==
    ASSUME NEW v, NEW time \in 0 .. MaxTime
    PROVE  /\ Expiry(v, time) \in Nat
           /\ Ttl > 0 => Expiry(v, time) <= time + Ttl
           /\ v = "url" => Expiry(v, time) <= time + Lifetime
BY TimesAssumption DEF Expiry, Infinity

LEMMA TypedInit == Init => Typed
<1>1. NoRecord \in [Reads -> Entry]
  BY DEF NoRecord, NoEntry, Entry
<1>2. QED
  BY <1>1, BoundsAssumption, TimesAssumption
     DEF Init, Typed, Busy, Holding, Infinity

\* An operation that settles stays well typed.
LEMMA DoneTyped ==
    ASSUME Typed, NEW t \in Threads, Done(t)
    PROVE  /\ pc' = [pc EXCEPT ![t] = "idle"] /\ op' = [op EXCEPT ![t] = NoOp]
           /\ at' \in [Threads -> 0 .. MaxTime] /\ seen' \in [Threads -> Nat]
           /\ record' \in [Threads -> [Reads -> Entry]]
<1>1. NoRecord \in [Reads -> Entry]
  BY DEF NoRecord, NoEntry, Entry
<1>2. QED
  BY <1>1, TimesAssumption DEF Done, Goto, Typed

\* An operation that settles leaves the other ones typed.
LEMMA DoneKeepsTyped ==
    ASSUME Typed, NEW t \in Threads, Done(t), UNCHANGED <<provider, now>>,
           cached' \in [Keys -> [Reads -> Entry]]
    PROVE  Typed'
<1>1. pc' = [pc EXCEPT ![t] = "idle"] /\ op' = [op EXCEPT ![t] = NoOp]
  BY DoneTyped
<1>2. /\ pc \in [Threads -> {"idle", "lookup", "sent", "got", "fill", "put",
                             "writeSent", "writeLanded", "invalidate"}]
      /\ op \in [Threads -> Op \cup {NoOp}]
  BY DEF Typed
<1>3. /\ pc' \in [Threads -> {"idle", "lookup", "sent", "got", "fill", "put",
                              "writeSent", "writeLanded", "invalidate"}]
      /\ op' \in [Threads -> Op \cup {NoOp}]
  BY <1>1, <1>2
<1>4. pc'[t] = "idle" /\ \A u \in Threads \ {t} : pc'[u] = pc[u] /\ op'[u] = op[u]
  BY <1>1, <1>2
<1>5. \A u \in Threads : Busy(u)' =>
        /\ op'[u] \in Op
        /\ pc'[u] \in {"lookup", "sent"} \cup Holding => op'[u].kind \in Reads
        /\ pc'[u] \in {"writeSent", "writeLanded", "invalidate"} => op'[u].kind \in Writes
        /\ op'[u].kind \notin {"copy", "move"} => op'[u].to = op'[u].key
  BY <1>4 DEF Typed, Busy
<1>6. /\ object' \in [Keys -> 0 .. MaxWrites] /\ versions' \in 0 .. MaxWrites
      /\ replaced' \in [1 .. MaxWrites -> 0 .. Infinity] /\ now' \in 0 .. MaxTime
  BY DEF Typed, provider
<1>7. QED
  BY <1>3, <1>5, <1>6, DoneTyped DEF Typed, Busy, Holding

LEMMA BeginTyped == ASSUME Typed, NEW t \in Threads, Begin(t) PROVE Typed'
<1>1. PICK o \in Op :
         /\ o.kind \notin {"copy", "move"} => o.to = o.key
         /\ op' = [op EXCEPT ![t] = o]
         /\ pc' = [pc EXCEPT ![t] = IF o.kind \in Writes THEN "writeSent"
                                   ELSE IF o.kind \in Operations THEN "lookup" ELSE "sent"]
  BY DEF Begin, Goto
<1>2. o.kind \in Reads \cup Writes
  BY DEF Op
<1>3. at' \in [Threads -> 0 .. MaxTime]
  BY DEF Begin, Typed
<1>4. UNCHANGED <<provider, now, store, seen, record>>
  BY DEF Begin
<1>5. QED
  BY <1>1, <1>2, <1>3, <1>4 DEF Typed, Busy, Holding, provider, store, Writes, Reads

LEMMA ReadTyped == ASSUME Typed, NEW t \in Threads, Read(t) PROVE Typed'
<1> USE DEF provider, store
<1>1. CASE Hit(t)
  <2>1. cached' \in [Keys -> [Reads -> Entry]] /\ UNCHANGED <<provider, now>> /\ Done(t)
    BY <1>1 DEF Hit, Get, Typed
  <2>2. QED
    BY <2>1, DoneKeepsTyped
<1>2. CASE Miss(t)
  BY <1>2 DEF Miss, Get, Goto, Typed, Busy, Holding
<1>3. CASE Answer(t)
  <2>1. CASE Done(t)
    <3>1. cached' \in [Keys -> [Reads -> Entry]] /\ UNCHANGED <<provider, now>>
      BY <1>3 DEF Answer, Typed
    <3>2. QED
      BY <2>1, <3>1, DoneKeepsTyped
  <2>2. CASE ~Done(t)
    <3>1. op[t] \in Op /\ op[t].key \in Keys
      BY <1>3 DEF Answer, Typed, Busy, Op
    <3>2. seen' \in [Threads -> Nat]
      BY <1>3, <2>2, <3>1, TimesAssumption, BoundsAssumption DEF Answer, Typed
    <3>3. QED
      BY <1>3, <2>2, <3>2 DEF Answer, Goto, Typed, Busy, Holding
  <2>3. QED
    BY <2>1, <2>2
<1>4. CASE Return(t)
  <2>1. CASE Done(t)
    <3>1. cached' \in [Keys -> [Reads -> Entry]] /\ UNCHANGED <<provider, now>>
      BY <1>4 DEF Return, Typed
    <3>2. QED
      BY <2>1, <3>1, DoneKeepsTyped
  <2>2. CASE ~Done(t)
    BY <1>4, <2>2 DEF Return, Goto, Typed, Busy, Holding
  <2>3. QED
    BY <2>1, <2>2
<1>5. CASE Fill(t)
  <2>1. op[t].key \in Keys
    BY <1>5 DEF Fill, Typed, Busy, Op
  <2>2. QED
    BY <1>5, <2>1 DEF Fill, Get, Goto, Typed, Busy, Holding
<1>6. CASE Put(t)
  <2> DEFINE e == [value |-> seen[t], expiresAt |-> Expiry(op[t].kind, at[t])]
             r == [record[t] EXCEPT ![op[t].kind] = e]
  <2>1. op[t].key \in Keys /\ op[t].kind \in Reads
    BY <1>6 DEF Put, Typed, Busy, Op, Holding
  <2>2. e \in Entry
    BY <2>1, ExpiryType DEF Entry, Typed
  <2>3. r \in [Reads -> Entry]
    BY <2>1, <2>2 DEF Typed
  <2>4. cached' \in [Keys -> [Reads -> Entry]]
    BY <1>6, <2>1, <2>3, SetSteps DEF Put
  <2>5. QED
    BY <1>6, <2>4, DoneKeepsTyped DEF Put
<1>7. QED
  BY <1>1, <1>2, <1>3, <1>4, <1>5, <1>6 DEF Read

LEMMA WriteLandsTyped == ASSUME Typed, NEW t \in Threads, WriteLands(t) PROVE Typed'
<1> USE DEF provider, store
<1>1. versions' \in 0 .. MaxWrites
  BY BoundsAssumption DEF WriteLands, Typed
<1>2. object' \in [Keys -> 0 .. MaxWrites]
  BY <1>1, BoundsAssumption DEF WriteLands, Typed
<1>3. replaced' \in [1 .. MaxWrites -> 0 .. Infinity]
  BY TimesAssumption DEF WriteLands, Typed, Infinity
<1>4. pc' = [pc EXCEPT ![t] = "writeLanded"] /\ pc[t] = "writeSent"
  BY DEF WriteLands, Goto
<1>5. UNCHANGED <<now, store, op, at, seen, record>>
  BY DEF WriteLands
<1>6. QED
  BY <1>1, <1>2, <1>3, <1>4, <1>5 DEF Typed, Busy, Holding

LEMMA WriteTyped == ASSUME Typed, NEW t \in Threads, Write(t) PROVE Typed'
<1> USE DEF provider, store
<1>1. CASE WriteLands(t)
  BY <1>1, WriteLandsTyped
<1>2. CASE WriteFails(t)
  <2>1. Done(t) /\ UNCHANGED <<provider, now, store, drop>>
    BY <1>2 DEF WriteFails
  <2>2. cached' \in [Keys -> [Reads -> Entry]]
    BY <2>1 DEF Typed
  <2>3. QED
    BY <2>1, <2>2, DoneKeepsTyped
<1>3. CASE WriteReturns(t)
  BY <1>3 DEF WriteReturns, Goto, Typed, Busy, Holding
<1>4. CASE Invalidate(t)
  <2>1. \A k : Delete(k) => cached' \in [Keys -> [Reads -> Entry]]
    <3>1. NoRecord \in [Reads -> Entry]
      BY DEF NoRecord, NoEntry, Entry
    <3>2. QED
      BY <3>1 DEF Delete, Typed
  <2>2. CASE Done(t)
    <3>1. cached' \in [Keys -> [Reads -> Entry]] /\ UNCHANGED <<provider, now>>
      BY <1>4, <2>1 DEF Invalidate
    <3>2. QED
      BY <2>2, <3>1, DoneKeepsTyped
  <2>3. CASE UNCHANGED <<pc, op, at, seen, record>>
    BY <1>4, <2>1, <2>3 DEF Invalidate, Typed, Busy, Holding
  <2>4. QED
    BY <1>4, <2>2, <2>3 DEF Invalidate
<1>5. QED
  BY <1>1, <1>2, <1>3, <1>4 DEF Write

LEMMA TypedStep == Typed /\ [Next]_vars => Typed'
<1> SUFFICES ASSUME Typed, [Next]_vars PROVE Typed'
  OBVIOUS
<1> USE DEF provider, store
<1>1. CASE Tick
  BY <1>1, TimesAssumption DEF Tick, Typed, Busy, Holding
<1>2. CASE InvalidateCache
  <2>1. NoRecord \in [Reads -> Entry]
    BY DEF NoRecord, NoEntry, Entry
  <2>2. cached' \in [Keys -> [Reads -> Entry]]
    BY <1>2, <2>1 DEF InvalidateCache, Delete, Typed
  <2>3. QED
    BY <1>2, <2>2 DEF InvalidateCache, Typed, Busy, Holding
<1>3. ASSUME NEW t \in Threads, Begin(t) \/ Read(t) \/ Write(t) PROVE Typed'
  BY <1>3, BeginTyped, ReadTyped, WriteTyped
<1>4. CASE UNCHANGED vars
  BY <1>4 DEF vars, Typed, Busy, Holding
<1>5. QED
  BY <1>1, <1>2, <1>3, <1>4 DEF Next

\* Every reachable state is well typed.
THEOREM AlwaysTyped == Spec => []Typed
<1>1. QED
  BY TypedInit, TypedStep, PTL DEF Spec

(***************************************************************************)
(* The time to live bounds the staleness.                                  *)
(***************************************************************************)

\* What an entry may be, where cur is the current version of its key, rep says when
\* versions were replaced and n is the time: current, or replaced no longer ago
\* than it has been known.
BoundedEntry(v, e, cur, rep, n) ==
    Ttl > 0 /\ v # "url" /\ e.expiresAt > 0 =>
        /\ e.value \in 1 .. MaxWrites
        /\ e.expiresAt <= n + Ttl
        /\ e.value = cur \/ rep[e.value] + Ttl >= e.expiresAt

\* The same of an answer on its way to the store, for a read that began at time a.
BoundedAnswer(kind, value, a, cur, rep) ==
    kind # "url" => value \in 1 .. MaxWrites /\ (value = cur \/ rep[value] >= a)

StoreBounded == \A k \in Keys, v \in Reads : BoundedEntry(v, cached[k][v], object[k], replaced, now)
RecordsBounded ==
    \A t \in Threads : pc[t] = "put" => 
        \A v \in Reads : BoundedEntry(v, record[t][v], object[op[t].key], replaced, now)
AnswersBounded == \A t \in Threads : pc[t] \in Holding =>
        BoundedAnswer(op[t].kind, seen[t], at[t], object[op[t].key], replaced)
ClocksBounded == \A t \in Threads : at[t] <= now

BoundedInv == Typed /\ StoreBounded /\ RecordsBounded /\ AnswersBounded /\ ClocksBounded

\* How the provider and the clock move on: a version that goes away goes away now.
MovesOn ==
    /\ now' \in Nat /\ now' >= now
    /\ \A k \in Keys : object'[k] # object[k] /\ object[k] # 0 => replaced'[object[k]] = now
    /\ \A v \in 1 .. MaxWrites : replaced'[v] = replaced[v] \/ replaced'[v] = now

LEMMA MovesOnCases ==
    ASSUME Typed, UNCHANGED <<provider, now>> \/ Tick \/ \E t \in Threads : WriteLands(t)
    PROVE  MovesOn
<1> USE DEF provider
<1>0. now \in Nat
  BY TimesAssumption DEF Typed
<1>1. CASE UNCHANGED <<provider, now>>
  BY <1>0, <1>1 DEF MovesOn
<1>2. CASE Tick
  BY <1>0, <1>2 DEF MovesOn, Tick
<1>3. ASSUME NEW t \in Threads, WriteLands(t) PROVE MovesOn
  <2> DEFINE removed == IF op[t].kind = "delete" \/ (op[t].kind = "move" /\ op[t].to # op[t].key)
                          THEN {op[t].key} ELSE {}
             written == IF op[t].kind = "delete" THEN {} ELSE {op[t].to}
  <2>1. /\ now' = now
        /\ object' = [k \in Keys |-> IF k \in removed THEN 0
                                     ELSE IF k \in written THEN versions' ELSE object[k]]
        /\ replaced' = [v \in 1 .. MaxWrites |->
                IF \E k \in removed \cup written : object[k] = v THEN now ELSE replaced[v]]
    BY <1>3 DEF WriteLands
  <2> HIDE DEF removed, written
  <2>2. \A k \in Keys : object'[k] # object[k] => k \in removed \cup written
    BY <2>1
  <2>3. \A k \in Keys : object[k] # 0 => object[k] \in 1 .. MaxWrites
    BY BoundsAssumption DEF Typed
  <2>4. QED
    BY <1>0, <2>1, <2>2, <2>3 DEF MovesOn
<1>4. QED
  BY <1>1, <1>2, <1>3

LEMMA EntryStable ==
    ASSUME Typed, Typed', MovesOn, NEW k \in Keys, NEW v, NEW e \in Entry,
           BoundedEntry(v, e, object[k], replaced, now)
    PROVE  BoundedEntry(v, e, object'[k], replaced', now')
<1>1. SUFFICES ASSUME Ttl > 0, v # "url", e.expiresAt > 0
               PROVE  /\ e.value \in 1 .. MaxWrites
                      /\ e.expiresAt <= now' + Ttl
                      /\ e.value = object'[k] \/ replaced'[e.value] + Ttl >= e.expiresAt
  BY DEF BoundedEntry
<1>2. /\ e.value \in 1 .. MaxWrites /\ e.expiresAt <= now + Ttl
      /\ e.value = object[k] \/ replaced[e.value] + Ttl >= e.expiresAt
  BY <1>1 DEF BoundedEntry
<1>3. e.expiresAt \in Nat /\ now \in Nat /\ replaced[e.value] \in Nat
  BY <1>2, TimesAssumption DEF Entry, Typed, Infinity
<1>4. replaced'[e.value] = replaced[e.value] \/ replaced'[e.value] = now
  BY <1>2 DEF MovesOn
<1>5. e.value = object[k] /\ object'[k] # object[k] => replaced'[e.value] = now
  BY <1>2, BoundsAssumption DEF MovesOn
<1>6. now' \in Nat /\ now' >= now
  BY DEF MovesOn
<1>7. QED
  BY <1>2, <1>3, <1>4, <1>5, <1>6, TimesAssumption

LEMMA AnswerStable ==
    ASSUME BoundedInv, MovesOn, NEW t \in Threads, pc[t] \in Holding
    PROVE  BoundedAnswer(op[t].kind, seen[t], at[t], object'[op[t].key], replaced')
<1>1. SUFFICES ASSUME op[t].kind # "url"
               PROVE  seen[t] \in 1 .. MaxWrites
                      /\ (seen[t] = object'[op[t].key] \/ replaced'[seen[t]] >= at[t])
  BY DEF BoundedAnswer
<1>2. op[t].key \in Keys /\ at[t] <= now /\ at[t] \in Nat /\ now \in Nat
  BY TimesAssumption DEF BoundedInv, Typed, Op, ClocksBounded, Busy, Holding
<1>3. seen[t] \in 1 .. MaxWrites /\ (seen[t] = object[op[t].key] \/ replaced[seen[t]] >= at[t])
  BY <1>1 DEF BoundedInv, AnswersBounded, BoundedAnswer
<1>4. replaced'[seen[t]] = replaced[seen[t]] \/ replaced'[seen[t]] = now
  BY <1>3 DEF MovesOn
<1>5. seen[t] = object[op[t].key] /\ object'[op[t].key] # object[op[t].key] => replaced'[seen[t]] = now
  BY <1>2, <1>3, BoundsAssumption DEF MovesOn
<1>6. QED
  BY <1>2, <1>3, <1>4, <1>5

\* A step keeps the invariant if what it stores, gets back and is answered is
\* bounded, or was there before.
LEMMA BoundedFrame ==
    ASSUME BoundedInv, Typed', MovesOn, ClocksBounded',
           \A k \in Keys, v \in Reads :
               \/ cached'[k][v] = cached[k][v]
               \/ BoundedEntry(v, cached'[k][v], object'[k], replaced', now'),
           \A u \in Threads : pc'[u] = "put" =>
               \/ pc[u] = "put" /\ record'[u] = record[u] /\ op'[u] = op[u]
               \/ \A v \in Reads : BoundedEntry(v, record'[u][v], object'[op'[u].key], replaced', now'),
           \A u \in Threads : pc'[u] \in Holding =>
               \/ pc[u] \in Holding /\ op'[u] = op[u] /\ at'[u] = at[u] /\ seen'[u] = seen[u]
               \/ BoundedAnswer(op'[u].kind, seen'[u], at'[u], object'[op'[u].key], replaced')
    PROVE  BoundedInv'
<1>1. StoreBounded'
  <2> SUFFICES ASSUME NEW k \in Keys, NEW v \in Reads
               PROVE  BoundedEntry(v, cached'[k][v], object'[k], replaced', now')
    BY DEF StoreBounded
  <2>1. cached[k][v] \in Entry /\ BoundedEntry(v, cached[k][v], object[k], replaced, now)
    BY DEF BoundedInv, Typed, StoreBounded
  <2>2. Typed
    BY DEF BoundedInv
  <2>3. BoundedEntry(v, cached[k][v], object'[k], replaced', now')
    BY <2>1, <2>2, EntryStable
  <2>4. QED
    BY <2>3
<1>2. RecordsBounded'
  <2> SUFFICES ASSUME NEW u \in Threads, pc'[u] = "put", NEW v \in Reads
               PROVE  BoundedEntry(v, record'[u][v], object'[op'[u].key], replaced', now')
    BY DEF RecordsBounded
  <2>1. CASE pc[u] = "put" /\ record'[u] = record[u] /\ op'[u] = op[u]
    <3>1. /\ record[u][v] \in Entry /\ op[u].key \in Keys
          /\ BoundedEntry(v, record[u][v], object[op[u].key], replaced, now)
      BY <2>1 DEF BoundedInv, Typed, RecordsBounded, Busy, Op
    <3>2. Typed
      BY DEF BoundedInv
    <3>3. QED
      BY <2>1, <3>1, <3>2, EntryStable
  <2>2. QED
    BY <2>1
<1>3. AnswersBounded'
  BY AnswerStable DEF AnswersBounded
<1>4. QED
  BY <1>1, <1>2, <1>3 DEF BoundedInv

\* A dropped record bounds nothing.
LEMMA NoRecordBounded ==
    ASSUME NEW v \in Reads, NEW cur, NEW rep, NEW n
    PROVE  BoundedEntry(v, NoRecord[v], cur, rep, n)
BY DEF BoundedEntry, NoRecord, NoEntry

LEMMA BoundedInit == Init => BoundedInv
<1> SUFFICES ASSUME Init PROVE BoundedInv
  OBVIOUS
<1>1. StoreBounded
  BY NoRecordBounded DEF Init, StoreBounded
<1>2. RecordsBounded /\ AnswersBounded /\ ClocksBounded
  BY DEF Init, RecordsBounded, AnswersBounded, ClocksBounded, Holding
<1>3. QED
  BY <1>1, <1>2, TypedInit DEF BoundedInv

LEMMA BoundedPut == ASSUME BoundedInv, Typed', NEW t \in Threads, Put(t) PROVE BoundedInv'
<1> DEFINE k == op[t].key
           w == op[t].kind
           e == [value |-> seen[t], expiresAt |-> Expiry(w, at[t])]
           r == [record[t] EXCEPT ![w] = e]
<1>0. Typed
  BY DEF BoundedInv
<1>1. k \in Keys /\ w \in Reads /\ UNCHANGED <<provider, now>>
  BY <1>0 DEF Put, Typed, Busy, Holding, Op
<1>2. e.expiresAt \in Nat /\ (Ttl > 0 => e.expiresAt <= at[t] + Ttl) /\ e \in Entry
  BY <1>0, ExpiryType DEF Typed, Entry
<1>3. BoundedEntry(w, e, object[k], replaced, now)
  <2>1. SUFFICES ASSUME Ttl > 0, w # "url"
                 PROVE  /\ seen[t] \in 1 .. MaxWrites /\ e.expiresAt <= now + Ttl
                        /\ seen[t] = object[k] \/ replaced[seen[t]] + Ttl >= e.expiresAt
    BY DEF BoundedEntry
  <2>2. at[t] \in Nat /\ now \in Nat /\ at[t] <= now
    BY <1>0, TimesAssumption DEF Typed, BoundedInv, ClocksBounded
  <2>3. seen[t] \in 1 .. MaxWrites /\ (seen[t] = object[k] \/ replaced[seen[t]] >= at[t])
    BY <2>1 DEF BoundedInv, AnswersBounded, BoundedAnswer, Put, Holding
  <2>4. replaced[seen[t]] \in Nat
    BY <1>0, <2>3, TimesAssumption DEF Typed, Infinity
  <2>5. QED
    BY <1>2, <2>1, <2>2, <2>3, <2>4, TimesAssumption
<1>4. \A v \in Reads : BoundedEntry(v, r[v], object[k], replaced, now)
  <2>1. record[t] \in [Reads -> Entry]
    BY <1>0 DEF Typed
  <2>2. \A v \in Reads : BoundedEntry(v, record[t][v], object[k], replaced, now)
    BY DEF BoundedInv, RecordsBounded, Put
  <2>3. QED
    BY <1>1, <1>3, <2>1, <2>2
<1>5. StoreStep(k, r)
  <2>1. r \in [Reads -> Entry]
    BY <1>0, <1>1, <1>2 DEF Typed
  <2>2. QED
    BY <1>0, <1>1, <2>1, SetSteps DEF Put
<1>6. \A x \in Keys, v \in Reads :
          \/ cached'[x][v] = cached[x][v]
          \/ BoundedEntry(v, cached'[x][v], object'[x], replaced', now')
  <2> HIDE DEF r
  <2>1. QED
    BY <1>1, <1>4, <1>5, NoRecordBounded DEF StoreStep, provider
<1>7. Done(t)
  BY DEF Put
<1>8. \A u \in Threads : pc'[u] # "idle" => pc'[u] = pc[u] /\ op'[u] = op[u] /\ at'[u] = at[u]
                                          /\ seen'[u] = seen[u] /\ record'[u] = record[u]
  BY <1>0, <1>7 DEF Done, Goto, Typed
<1>9. ClocksBounded'
  BY <1>0, <1>1, <1>7, TimesAssumption DEF Done, Typed, ClocksBounded, BoundedInv
<1>10. MovesOn
  BY <1>0, <1>1, MovesOnCases
<1>11. QED
  BY <1>6, <1>8, <1>9, <1>10, BoundedFrame DEF Holding

\* A step of one operation leaves what the others hold alone.
Apart(t) ==
    \A u \in Threads \ {t} : /\ pc'[u] = pc[u] /\ op'[u] = op[u] /\ at'[u] = at[u]
                            /\ seen'[u] = seen[u] /\ record'[u] = record[u]

LEMMA DoneApart ==
    ASSUME Typed, NEW t \in Threads, Done(t)
    PROVE  Apart(t) /\ pc'[t] = "idle" /\ at'[t] = 0
BY DEF Done, Goto, Typed, Apart

LEMMA BoundedRead ==
    ASSUME BoundedInv, Typed', NEW t \in Threads, Read(t), ~Put(t)
    PROVE  BoundedInv'
<1>0. Typed
  BY DEF BoundedInv
<1>1. UNCHANGED <<cached, provider, now>> /\ MovesOn
  BY <1>0, MovesOnCases DEF Read, Hit, Miss, Answer, Return, Fill, Get, store
<1>2. now \in Nat /\ \A u \in Threads : at[u] <= now
  BY <1>0, TimesAssumption DEF Typed, BoundedInv, ClocksBounded
<1>3. CASE Done(t)
  BY <1>0, <1>1, <1>2, <1>3, DoneApart, BoundedFrame DEF Apart, ClocksBounded, Holding
<1>4. CASE Miss(t)
  BY <1>0, <1>1, <1>2, <1>4, BoundedFrame DEF Miss, Goto, Typed, ClocksBounded, Holding
<1>5. CASE Answer(t) /\ ~Done(t)
  <2>1. /\ pc' = [pc EXCEPT ![t] = "got"] /\ UNCHANGED <<op, at, record>>
        /\ seen' = [seen EXCEPT ![t] = IF op[t].kind = "url" THEN now ELSE object[op[t].key]]
        /\ op[t].kind = "url" \/ object[op[t].key] # 0
    BY <1>5 DEF Answer, Goto
  <2>2. op[t].key \in Keys
    BY <1>0, <1>5 DEF Typed, Answer, Busy, Op
  <2>3. BoundedAnswer(op'[t].kind, seen'[t], at'[t], object'[op'[t].key], replaced')
    BY <1>0, <1>1, <2>1, <2>2, BoundsAssumption DEF BoundedAnswer, Typed, provider
  <2>4. QED
    BY <1>0, <1>1, <1>2, <2>1, <2>3, BoundedFrame DEF Typed, ClocksBounded, Holding
<1>6. CASE Return(t) /\ ~Done(t)
  BY <1>0, <1>1, <1>2, <1>6, BoundedFrame DEF Return, Goto, Typed, ClocksBounded, Holding
<1>7. CASE Fill(t)
  <2>1. pc' = [pc EXCEPT ![t] = "put"] /\ record' = [record EXCEPT ![t] = cached[op[t].key]]
        /\ UNCHANGED <<op, at, seen>> /\ pc[t] = "fill"
    BY <1>7 DEF Fill, Goto
  <2>2. op[t].key \in Keys
    BY <1>0, <2>1 DEF Typed, Busy, Op
  <2>3. \A v \in Reads : BoundedEntry(v, record'[t][v], object'[op'[t].key], replaced', now')
    BY <1>0, <1>1, <2>1, <2>2 DEF BoundedInv, StoreBounded, Typed, provider
  <2>4. QED
    BY <1>0, <1>1, <1>2, <2>1, <2>3, BoundedFrame DEF Typed, ClocksBounded, Holding
<1>8. QED
  BY <1>3, <1>4, <1>5, <1>6, <1>7 DEF Read, Hit

LEMMA BoundedOther ==
    ASSUME BoundedInv, Typed', NEW t \in Threads, Begin(t) \/ Write(t)
    PROVE  BoundedInv'
<1>0. Typed
  BY DEF BoundedInv
<1>1. MovesOn /\ UNCHANGED now
  BY <1>0, MovesOnCases DEF Begin, Write, WriteLands, WriteFails, WriteReturns, Invalidate
<1>2. now \in 0 .. MaxTime /\ now \in Nat /\ \A u \in Threads : at[u] <= now
  BY <1>0, TimesAssumption DEF Typed, BoundedInv, ClocksBounded
<1>3. CASE Begin(t)
  <2>1. pc'[t] \notin Holding
    BY <1>0, <1>3 DEF Begin, Goto, Typed, Holding
  <2>2. UNCHANGED <<cached, seen, record>> /\ at' = [at EXCEPT ![t] = now]
        /\ \A u \in Threads \ {t} : pc'[u] = pc[u] /\ op'[u] = op[u]
    BY <1>0, <1>3 DEF Begin, Goto, Typed, store
  <2>3. QED
    BY <1>0, <1>1, <1>2, <2>1, <2>2, BoundedFrame DEF Typed, ClocksBounded, Holding
<1>4. CASE WriteLands(t) \/ WriteReturns(t)
  BY <1>0, <1>1, <1>2, <1>4, BoundedFrame
     DEF WriteLands, WriteReturns, Goto, Typed, ClocksBounded, Holding, store
<1>5. CASE WriteFails(t)
  BY <1>0, <1>1, <1>2, <1>5, DoneApart, BoundedFrame DEF WriteFails, Apart, ClocksBounded, Holding, store
<1>6. CASE Invalidate(t)
  <2>1. \A k : Delete(k) => \A x \in Keys : cached'[x] = cached[x] \/ cached'[x] = NoRecord
    BY <1>0 DEF Delete, Typed
  <2>2. \A x \in Keys, v \in Reads :
            \/ cached'[x][v] = cached[x][v]
            \/ BoundedEntry(v, cached'[x][v], object'[x], replaced', now')
    BY <1>6, <2>1, NoRecordBounded DEF Invalidate
  <2>3. Apart(t) /\ pc'[t] \notin Holding /\ at'[t] <= now
    BY <1>0, <1>2, <1>6, DoneApart DEF Invalidate, Apart, Holding
  <2>4. QED
    BY <1>1, <1>2, <2>2, <2>3, BoundedFrame DEF Apart, ClocksBounded, Holding
<1>7. QED
  BY <1>3, <1>4, <1>5, <1>6 DEF Write

LEMMA BoundedStep == BoundedInv /\ [Next]_vars => BoundedInv'
<1> SUFFICES ASSUME BoundedInv, [Next]_vars PROVE BoundedInv'
  OBVIOUS
<1>0. Typed /\ Typed'
  BY TypedStep DEF BoundedInv
<1>1. CASE Tick
  <2>1. ClocksBounded'
    BY <1>0, <1>1, TimesAssumption DEF Tick, Typed, BoundedInv, ClocksBounded
  <2>2. QED
    BY <1>0, <1>1, <2>1, MovesOnCases, BoundedFrame DEF Tick, store
<1>2. CASE InvalidateCache
  <2>1. \A x \in Keys : cached'[x] = cached[x] \/ cached'[x] = NoRecord
    BY <1>0, <1>2 DEF InvalidateCache, Delete, Typed
  <2>2. \A x \in Keys, v \in Reads :
            \/ cached'[x][v] = cached[x][v]
            \/ BoundedEntry(v, cached'[x][v], object'[x], replaced', now')
    BY <2>1, NoRecordBounded
  <2>3. ClocksBounded'
    BY <1>2 DEF InvalidateCache, BoundedInv, ClocksBounded
  <2>4. MovesOn
    BY <1>0, <1>2, MovesOnCases DEF InvalidateCache
  <2>5. QED
    BY <1>0, <1>2, <2>2, <2>3, <2>4, BoundedFrame DEF InvalidateCache
<1>3. ASSUME NEW t \in Threads, Begin(t) \/ Read(t) \/ Write(t) PROVE BoundedInv'
  BY <1>0, <1>3, BoundedPut, BoundedRead, BoundedOther
<1>4. CASE UNCHANGED vars
  BY <1>4 DEF vars, BoundedInv, Typed, StoreBounded, RecordsBounded, AnswersBounded, ClocksBounded,
              provider, store, Busy
<1>5. QED
  BY <1>1, <1>2, <1>3, <1>4 DEF Next

\* However reads, writes, lost replies and invalidations interleave, a live entry
\* lags no further behind the provider than its time to live.
THEOREM StalenessIsBounded == Spec => []StalenessBounded
<1>1. BoundedInv => StalenessBounded
  <2> SUFFICES ASSUME BoundedInv, Ttl > 0, NEW k \in Keys, NEW v \in Reads \ {"url"},
                      cached[k][v].expiresAt > now, cached[k][v].value # object[k]
               PROVE  replaced[cached[k][v].value] > now - Ttl
    BY DEF StalenessBounded
  <2> DEFINE e == cached[k][v]
  <2>1. now \in Nat /\ e.expiresAt \in Nat
    BY TimesAssumption DEF BoundedInv, Typed, Entry
  <2>2. e.value \in 1 .. MaxWrites /\ replaced[e.value] + Ttl >= e.expiresAt
    BY <2>1 DEF BoundedInv, StoreBounded, BoundedEntry
  <2>3. replaced[e.value] \in Nat
    BY <2>2, TimesAssumption DEF BoundedInv, Typed, Infinity
  <2>4. QED
    BY <2>1, <2>2, <2>3, TimesAssumption
<1>2. QED
  BY <1>1, BoundedInit, BoundedStep, PTL DEF Spec

(***************************************************************************)
(* Without overlap and lost replies, hits are fresh.                       *)
(***************************************************************************)

\* A write that landed and has still to invalidate k.
Pending(t, k) ==
    \/ pc[t] = "writeLanded" /\ \E i \in DOMAIN Invalidates(op[t]) : Invalidates(op[t])[i] = k
    \/ pc[t] = "invalidate" /\ \E i \in DOMAIN drop[t] : drop[t][i] = k

FreshEntry(v, e, cur) == v # "url" /\ e.expiresAt > 0 => e.value = cur

\* Operations under way share a key only if they are reads.
Separated ==
    \A t, u \in Threads :
        t # u /\ Busy(t) /\ Busy(u) /\ Touches(op[t]) \cap Touches(op[u]) # {}
            => op[t].kind \in Reads /\ op[u].kind \in Reads
DropsOwnKeys ==
    /\ drop = [t \in Threads |-> drop[t]]
    /\ \A t \in Threads : pc[t] = "invalidate" =>
          /\ drop[t] \in Seq(Keys) /\ drop[t] # <<>>
          /\ \A i \in DOMAIN drop[t] : drop[t][i] \in Touches(op[t])
StoreFresh ==
    \A k \in Keys : \/ \A v \in Reads : FreshEntry(v, cached[k][v], object[k])
                   \/ \E t \in Threads : Pending(t, k)
RecordsFresh ==
    \A t \in Threads : pc[t] = "put" =>
        \A v \in Reads : FreshEntry(v, record[t][v], object[op[t].key])
AnswersFresh ==
    \A t \in Threads : pc[t] \in Holding /\ op[t].kind # "url" => seen[t] = object[op[t].key]

FreshInv == Typed /\ Separated /\ DropsOwnKeys /\ StoreFresh /\ RecordsFresh /\ AnswersFresh

LEMMA NoRecordFresh == \A v \in Reads : \A cur : FreshEntry(v, NoRecord[v], cur)
BY DEF FreshEntry, NoRecord, NoEntry

LEMMA InvalidatesTouched ==
    ASSUME NEW o \in Op, o.kind \in Writes, o.kind \notin {"copy", "move"} => o.to = o.key
    PROVE  /\ Invalidates(o) \in Seq(Keys) /\ Invalidates(o) # <<>>
           /\ \A i \in DOMAIN Invalidates(o) : Invalidates(o)[i] \in Touches(o)
<1>1. o.key \in Keys /\ o.to \in Keys
  BY DEF Op
<1>2. CASE o.kind = "move"
  <2>1. Invalidates(o) = <<o.key, o.to>> /\ Touches(o) = {o.key, o.to}
    BY <1>2 DEF Invalidates, Touches
  <2>2. QED
    BY <1>1, <2>1
<1>3. CASE o.kind = "copy"
  <2>1. Invalidates(o) = <<o.to>> /\ Touches(o) = {o.key, o.to}
    BY <1>3 DEF Invalidates, Touches
  <2>2. QED
    BY <1>1, <2>1
<1>4. CASE o.kind \notin {"copy", "move"}
  <2>1. Invalidates(o) = <<o.key>> /\ Touches(o) = {o.key}
    BY <1>4 DEF Invalidates, Touches
  <2>2. QED
    BY <1>1, <2>1
<1>5. QED
  BY <1>2, <1>3, <1>4

\* While a read is under way, no write has its key to invalidate.
LEMMA ReadsAlone ==
    ASSUME FreshInv, NEW t \in Threads, Busy(t), op[t].kind \in Reads
    PROVE  /\ \A u \in Threads : ~Pending(u, op[t].key)
           /\ \A v \in Reads : FreshEntry(v, cached[op[t].key][v], object[op[t].key])
<1>1. op[t].key \in Touches(op[t]) /\ op[t].key \in Keys
  BY DEF Touches, FreshInv, Typed, Op, Reads
<1>2. ASSUME NEW u \in Threads, Pending(u, op[t].key) PROVE FALSE
  <2>1. Busy(u) /\ op[u].kind \in Writes /\ op[u] \in Op
    BY <1>2 DEF Pending, FreshInv, Typed, Busy
  <2>2. op[t].key \in Touches(op[u])
    BY <1>2, <2>1, InvalidatesTouched DEF Pending, FreshInv, Typed, DropsOwnKeys
  <2>3. op[u].kind \notin Reads
    BY <2>1 DEF Reads, Writes
  <2>4. QED
    BY <1>1, <2>1, <2>2, <2>3 DEF FreshInv, Separated
<1>3. QED
  BY <1>1, <1>2 DEF FreshInv, StoreFresh

LEMMA FreshInit == Init => FreshInv
<1> SUFFICES ASSUME Init PROVE FreshInv
  OBVIOUS
<1>1. StoreFresh
  BY NoRecordFresh DEF Init, StoreFresh
<1>2. Separated /\ DropsOwnKeys /\ RecordsFresh /\ AnswersFresh
  BY DEF Init, Separated, DropsOwnKeys, RecordsFresh, AnswersFresh, Holding, Busy
<1>3. QED
  BY <1>1, <1>2, TypedInit DEF FreshInv

\* A step that leaves the provider alone keeps the invariant if what it stores, gets
\* back and is answered is fresh, or was there before, and no write forgets a key.
LEMMA FreshFrame ==
    ASSUME FreshInv, Typed', UNCHANGED object, Separated', DropsOwnKeys',
           \A k \in Keys :
               \/ \A v \in Reads : FreshEntry(v, cached'[k][v], object[k])
               \/ cached'[k] = cached[k] /\ \A u \in Threads : Pending(u, k) => Pending(u, k)',
           \A u \in Threads : pc'[u] = "put" =>
               \/ pc[u] = "put" /\ record'[u] = record[u] /\ op'[u] = op[u]
               \/ \A v \in Reads : FreshEntry(v, record'[u][v], object[op'[u].key]),
           \A u \in Threads : pc'[u] \in Holding /\ op'[u].kind # "url" =>
               \/ pc[u] \in Holding /\ op'[u] = op[u] /\ seen'[u] = seen[u]
               \/ seen'[u] = object[op'[u].key]
    PROVE  FreshInv'
<1>1. StoreFresh'
  BY DEF FreshInv, StoreFresh
<1>2. RecordsFresh'
  BY DEF FreshInv, RecordsFresh
<1>3. AnswersFresh'
  BY DEF FreshInv, AnswersFresh
<1>4. QED
  BY <1>1, <1>2, <1>3 DEF FreshInv

\* An operation that settles, or goes on with the keys it has, shares no more keys.
LEMMA SeparatedKept ==
    ASSUME FreshInv, NEW t \in Threads, Apart(t),
           pc'[t] = "idle" \/ (Busy(t) /\ op'[t] = op[t])
    PROVE  Separated'
BY DEF FreshInv, Separated, Apart, Busy

LEMMA FreshRead == ASSUME FreshInv, Typed', NEW t \in Threads, Read(t) PROVE FreshInv'
<1>0. Typed
  BY DEF FreshInv
<1>1. UNCHANGED object /\ UNCHANGED drop
  BY DEF Read, Hit, Miss, Answer, Return, Fill, Put, provider
<1>2. Busy(t) /\ op[t].kind \in Reads /\ op[t].key \in Keys
  BY <1>0 DEF Read, Hit, Miss, Answer, Return, Fill, Put, Typed, Busy, Holding, Op
<1>3. Apart(t) /\ (pc'[t] = "idle" \/ op'[t] = op[t])
  BY <1>0, DoneApart DEF Read, Hit, Miss, Answer, Return, Fill, Put, Goto, Typed, Apart
<1>4. pc'[t] \notin {"writeLanded", "invalidate"}
  BY <1>0 DEF Read, Hit, Miss, Answer, Return, Fill, Put, Done, Goto, Typed
<1>5. Separated'
  BY <1>2, <1>3, SeparatedKept
<1>6. DropsOwnKeys'
  BY <1>1, <1>3, <1>4 DEF DropsOwnKeys, FreshInv, Apart
<1>7. \A u \in Threads, k \in Keys : Pending(u, k) => Pending(u, k)'
  <2>1. \A k : ~Pending(t, k)
    BY DEF Pending, Read, Hit, Miss, Answer, Return, Fill, Put
  <2>2. QED
    BY <1>1, <1>3, <2>1 DEF Pending, Apart
<1>8. CASE Put(t)
  <2> DEFINE e == [value |-> seen[t], expiresAt |-> Expiry(op[t].kind, at[t])]
             r == [record[t] EXCEPT ![op[t].kind] = e]
  <2>1. \A v \in Reads : FreshEntry(v, r[v], object[op[t].key])
    BY <1>0, <1>2, <1>8 DEF Put, FreshEntry, FreshInv, RecordsFresh, AnswersFresh, Holding, Typed
  <2>2. StoreStep(op[t].key, r)
    <3>1. e \in Entry
      BY <1>0, ExpiryType DEF Typed, Entry
    <3>2. r \in [Reads -> Entry]
      BY <1>0, <1>2, <3>1 DEF Typed
    <3>3. QED
      BY <1>0, <1>2, <1>8, <3>2, SetSteps DEF Put
  <2>3. \A k \in Keys :
            \/ \A v \in Reads : FreshEntry(v, cached'[k][v], object[k])
            \/ cached'[k] = cached[k] /\ \A u \in Threads : Pending(u, k) => Pending(u, k)'
    <3> HIDE DEF r
    <3>1. QED
      BY <1>7, <2>1, <2>2, NoRecordFresh DEF StoreStep
  <2>4. pc'[t] = "idle"
    BY <1>0, <1>8, DoneApart DEF Put
  <2>5. QED
    BY <1>1, <1>3, <1>5, <1>6, <2>3, <2>4, FreshFrame DEF Apart, Holding
<1>9. CASE ~Put(t)
  <2>1. UNCHANGED cached
    BY <1>9 DEF Read, Hit, Miss, Answer, Return, Fill, Get, store
  <2>2. pc'[t] = "put" => \A v \in Reads : FreshEntry(v, record'[t][v], object[op'[t].key])
    <3>1. pc'[t] = "put" => record' = [record EXCEPT ![t] = cached[op[t].key]] /\ op' = op
      BY <1>0, <1>9 DEF Read, Hit, Miss, Answer, Return, Fill, Done, Goto, Typed
    <3>2. \A v \in Reads : FreshEntry(v, cached[op[t].key][v], object[op[t].key])
      BY <1>2, ReadsAlone
    <3>3. QED
      BY <1>0, <3>1, <3>2 DEF Typed
  <2>3. pc'[t] \in Holding /\ op'[t].kind # "url" =>
            \/ pc[t] \in Holding /\ op'[t] = op[t] /\ seen'[t] = seen[t]
            \/ seen'[t] = object[op'[t].key]
    BY <1>0, <1>9 DEF Read, Hit, Miss, Answer, Return, Fill, Done, Goto, Typed, Holding
  <2>4. QED
    BY <1>1, <1>3, <1>5, <1>6, <1>7, <2>1, <2>2, <2>3, FreshFrame DEF Apart
<1>10. QED
  BY <1>8, <1>9

LEMMA FreshBegin ==
    ASSUME Disciplined, FreshInv, Typed', NEW t \in Threads, Begin(t)
    PROVE  FreshInv'
<1>0. Typed /\ UNCHANGED <<object, cached, seen, record, drop>>
  BY DEF FreshInv, Begin, provider, store
<1>1. PICK o \in Op :
         /\ Disjoint(t, o)
         /\ op' = [op EXCEPT ![t] = o]
         /\ pc' = [pc EXCEPT ![t] = IF o.kind \in Writes THEN "writeSent"
                                   ELSE IF o.kind \in Operations THEN "lookup" ELSE "sent"]
  BY DEF Begin, Goto, Disciplined
<1>2. /\ \A u \in Threads \ {t} : pc'[u] = pc[u] /\ op'[u] = op[u]
      /\ op'[t] = o /\ pc'[t] \in {"writeSent", "lookup", "sent"} /\ pc[t] = "idle"
  BY <1>0, <1>1 DEF Typed, Begin
<1>3. Separated'
  <2> SUFFICES ASSUME NEW u \in Threads, NEW w \in Threads, u # w, pc'[u] # "idle", pc'[w] # "idle",
                      Touches(op'[u]) \cap Touches(op'[w]) # {}
               PROVE  op'[u].kind \in Reads /\ op'[w].kind \in Reads
    BY DEF Separated, Busy
  <2>1. CASE u = t
    BY <1>1, <1>2, <2>1 DEF Disjoint
  <2>2. CASE w = t
    BY <1>1, <1>2, <2>2 DEF Disjoint
  <2>3. CASE u # t /\ w # t
    BY <1>2, <2>3 DEF FreshInv, Separated, Busy
  <2>4. QED
    BY <2>1, <2>2, <2>3
<1>4. DropsOwnKeys'
  BY <1>0, <1>2 DEF DropsOwnKeys, FreshInv
<1>5. \A u \in Threads, k \in Keys : Pending(u, k) => Pending(u, k)'
  BY <1>0, <1>2 DEF Pending
<1>6. QED
  BY <1>0, <1>2, <1>3, <1>4, <1>5, FreshFrame DEF Holding

LEMMA FreshWriteLands ==
    ASSUME FreshInv, Typed', NEW t \in Threads, WriteLands(t)
    PROVE  FreshInv'
<1> DEFINE o == op[t]
<1>0. Typed /\ UNCHANGED <<cached, op, seen, record, drop>>
  BY DEF FreshInv, WriteLands, store
<1>1. Busy(t) /\ o \in Op /\ o.kind \in Writes /\ pc[t] = "writeSent"
      /\ (o.kind \notin {"copy", "move"} => o.to = o.key)
  BY <1>0 DEF WriteLands, Typed, Busy
<1>2. /\ pc'[t] = "writeLanded"
      /\ \A u \in Threads \ {t} : pc'[u] = pc[u]
  BY <1>0 DEF WriteLands, Goto, Typed
<1>3. \A k \in Keys : object'[k] = object[k] \/ \E i \in DOMAIN Invalidates(o) : Invalidates(o)[i] = k
  <2>1. \A k \in Keys : object'[k] # object[k] =>
            k \in (IF o.kind = "delete" \/ (o.kind = "move" /\ o.to # o.key) THEN {o.key} ELSE {})
                 \cup (IF o.kind = "delete" THEN {} ELSE {o.to})
    BY DEF WriteLands
  <2>2. CASE o.kind = "move"
    <3>1. Invalidates(o) = <<o.key, o.to>>
      BY <2>2 DEF Invalidates
    <3>2. 1 \in DOMAIN Invalidates(o) /\ Invalidates(o)[1] = o.key
          /\ 2 \in DOMAIN Invalidates(o) /\ Invalidates(o)[2] = o.to
      BY <3>1
    <3>3. QED
      BY <2>1, <3>2
  <2>3. CASE o.kind # "move"
    <3>1. Invalidates(o) = <<o.to>>
      BY <1>1, <2>3 DEF Invalidates
    <3>2. 1 \in DOMAIN Invalidates(o) /\ Invalidates(o)[1] = o.to
      BY <3>1
    <3>3. QED
      BY <1>1, <2>1, <2>3, <3>2
  <2>4. QED
    BY <2>2, <2>3
<1>4. \A u \in Threads, k \in Keys : Pending(u, k) => Pending(u, k)'
  BY <1>0, <1>1, <1>2 DEF Pending
<1>5. \A k \in Keys : object'[k] # object[k] => Pending(t, k)'
  BY <1>0, <1>2, <1>3 DEF Pending
<1>6. StoreFresh'
  BY <1>0, <1>4, <1>5 DEF FreshInv, StoreFresh
<1>7. ASSUME NEW u \in Threads, Busy(u), op[u].kind \in Reads
      PROVE  object'[op[u].key] = object[op[u].key]
  <2>1. u # t /\ op[u].key \in Keys /\ op[u].key \in Touches(op[u])
    BY <1>0, <1>1, <1>7 DEF Typed, Op, Touches, Reads, Writes
  <2>2. op[u].key \notin Touches(o)
    BY <1>1, <1>7, <2>1 DEF FreshInv, Separated, Reads, Writes
  <2>3. QED
    BY <1>1, <1>3, <2>1, <2>2, InvalidatesTouched
<1>8. RecordsFresh' /\ AnswersFresh'
  <2>1. ASSUME NEW u \in Threads, pc'[u] \in Holding
        PROVE  pc'[u] = pc[u] /\ object'[op[u].key] = object[op[u].key]
    BY <1>0, <1>2, <1>7, <2>1 DEF Typed, Busy, Holding
  <2>2. RecordsFresh'
    BY <1>0, <2>1 DEF FreshInv, RecordsFresh, Holding
  <2>3. AnswersFresh'
    BY <1>0, <2>1 DEF FreshInv, AnswersFresh
  <2>4. QED
    BY <2>2, <2>3
<1>9. Separated' /\ DropsOwnKeys'
  BY <1>0, <1>1, <1>2 DEF FreshInv, Separated, DropsOwnKeys, Busy
<1>10. QED
  BY <1>6, <1>8, <1>9 DEF FreshInv

LEMMA FreshInvalidate ==
    ASSUME FreshInv, Typed', NEW t \in Threads, Invalidate(t)
    PROVE  FreshInv'
<1> DEFINE d == drop[t]
           k == Head(d)
<1>0. Typed
  BY DEF FreshInv
<1>1. pc[t] = "invalidate" /\ UNCHANGED object /\ drop' = [drop EXCEPT ![t] = Tail(d)] /\ Delete(k)
  BY DEF Invalidate, provider
<1>2. d \in Seq(Keys) /\ d # <<>> /\ k \in Keys /\ drop = [u \in Threads |-> drop[u]]
  BY <1>1 DEF FreshInv, DropsOwnKeys
<1>3. drop'[t] = Tail(d) /\ drop' = [u \in Threads |-> drop'[u]]
      /\ \A u \in Threads \ {t} : drop'[u] = drop[u]
  BY <1>1, <1>2
<1>4. \A x \in Keys : cached'[x] = IF x = k THEN NoRecord ELSE cached[x]
  BY <1>0, <1>1, <1>2, DeleteSteps
<1>5. /\ Apart(t)
      /\ \/ Len(d) = 1 /\ pc'[t] = "idle"
         \/ Len(d) # 1 /\ pc'[t] = "invalidate" /\ op'[t] = op[t]
  BY <1>0, <1>1, DoneApart DEF Invalidate, Apart
<1>6. Separated'
  BY <1>1, <1>5, SeparatedKept DEF Busy
<1>7. Len(d) \in Nat /\ Len(d) > 0 /\ Tail(d) \in Seq(Keys) /\ Len(Tail(d)) = Len(d) - 1
      /\ \A i \in 1 .. Len(d) - 1 : Tail(d)[i] = d[i + 1]
  BY <1>2
<1>8. DropsOwnKeys'
  <2>1. CASE pc'[t] = "idle"
    BY <1>3, <1>5, <2>1 DEF FreshInv, DropsOwnKeys, Apart
  <2>2. CASE pc'[t] = "invalidate" /\ Len(d) # 1
    <3>1. Tail(d) # <<>>
      <4>1. Len(Tail(d)) # 0 /\ Len(<<>>) = 0
        BY <1>7, <2>2
      <4>2. QED
        BY <4>1
    <3>2. \A i \in DOMAIN Tail(d) : Tail(d)[i] \in Touches(op[t])
      <4>1. \A i \in 1 .. Len(d) : d[i] \in Touches(op[t])
        BY <1>1, <1>2 DEF FreshInv, DropsOwnKeys
      <4>2. QED
        BY <1>7, <4>1
    <3>3. QED
      BY <1>3, <1>5, <1>7, <2>2, <3>1, <3>2 DEF FreshInv, DropsOwnKeys, Apart
  <2>3. QED
    BY <1>5, <2>1, <2>2
<1>9. ASSUME NEW x \in Keys, x # k, NEW u \in Threads, Pending(u, x) PROVE Pending(u, x)'
  <2>1. CASE u # t
    BY <1>3, <1>5, <1>9, <2>1 DEF Pending, Apart
  <2>2. CASE u = t
    <3>1. PICK i \in 1 .. Len(d) : d[i] = x
      BY <1>1, <1>2, <1>9, <2>2 DEF Pending
    <3>2. i # 1
      BY <1>2, <1>9, <3>1
    <3>3. i - 1 \in 1 .. Len(d) - 1 /\ Tail(d)[i - 1] = x /\ Len(d) # 1
      BY <1>7, <3>1, <3>2
    <3>4. i - 1 \in DOMAIN Tail(d)
      BY <1>7, <3>3
    <3>5. pc'[t] = "invalidate"
      BY <1>5, <3>3
    <3>6. QED
      BY <1>3, <2>2, <3>3, <3>4, <3>5 DEF Pending
  <2>3. QED
    BY <2>1, <2>2
<1>10. \A x \in Keys :
          \/ \A v \in Reads : FreshEntry(v, cached'[x][v], object[x])
          \/ cached'[x] = cached[x] /\ \A u \in Threads : Pending(u, x) => Pending(u, x)'
  BY <1>4, <1>9, NoRecordFresh
<1>11. QED
  BY <1>1, <1>5, <1>6, <1>8, <1>10, FreshFrame DEF Apart, Holding

LEMMA FreshWrite ==
    ASSUME Disciplined, FreshInv, Typed', NEW t \in Threads, Write(t)
    PROVE  FreshInv'
<1>0. Typed
  BY DEF FreshInv
<1>1. CASE WriteLands(t)
  BY <1>1, FreshWriteLands
<1>2. CASE WriteFails(t)
  <2>1. UNCHANGED <<object, cached, drop>> /\ pc[t] = "writeSent" /\ Apart(t) /\ pc'[t] = "idle"
    BY <1>0, <1>2, DoneApart DEF WriteFails, Disciplined, provider, store
  <2>2. Separated'
    BY <2>1, SeparatedKept
  <2>3. DropsOwnKeys'
    BY <2>1 DEF DropsOwnKeys, FreshInv, Apart
  <2>4. \A u \in Threads, k \in Keys : Pending(u, k) => Pending(u, k)'
    BY <2>1 DEF Pending, Apart
  <2>5. QED
    BY <2>1, <2>2, <2>3, <2>4, FreshFrame DEF Apart, Holding
<1>3. CASE WriteReturns(t)
  <2>1. /\ UNCHANGED <<object, cached, op, at, seen, record>> /\ pc[t] = "writeLanded"
        /\ pc' = [pc EXCEPT ![t] = "invalidate"]
        /\ drop' = [drop EXCEPT ![t] = Invalidates(op[t])]
    BY <1>3 DEF WriteReturns, Goto, provider, store
  <2>2. Apart(t) /\ Busy(t) /\ pc'[t] = "invalidate"
    BY <1>0, <2>1 DEF Apart, Busy, Typed
  <2>3. Separated'
    BY <2>1, <2>2, SeparatedKept
  <2>4. op[t] \in Op /\ op[t].kind \in Writes /\ (op[t].kind \notin {"copy", "move"} => op[t].to = op[t].key)
    BY <1>0, <2>1 DEF Typed, Busy
  <2>5. \A u \in Threads : pc'[u] = "invalidate" =>
            \/ u = t /\ drop'[u] = Invalidates(op[t])
            \/ u # t /\ pc[u] = "invalidate" /\ drop'[u] = drop[u]
    BY <1>0, <2>1, <2>2 DEF Apart, FreshInv, DropsOwnKeys
  <2>6. DropsOwnKeys'
    BY <2>1, <2>4, <2>5, InvalidatesTouched DEF DropsOwnKeys, FreshInv
  <2>7. \A u \in Threads, k \in Keys : Pending(u, k) => Pending(u, k)'
    BY <1>0, <2>1, <2>2 DEF Pending, Apart, FreshInv, DropsOwnKeys
  <2>8. QED
    BY <2>1, <2>2, <2>3, <2>6, <2>7, FreshFrame DEF Apart, Holding
<1>4. CASE Invalidate(t)
  BY <1>4, FreshInvalidate
<1>5. QED
  BY <1>1, <1>2, <1>3, <1>4 DEF Write

LEMMA FreshStep == ASSUME Disciplined, FreshInv, [Next]_vars PROVE FreshInv'
<1>0. Typed /\ Typed'
  BY TypedStep DEF FreshInv
<1>1. CASE Tick
  <2>1. UNCHANGED <<object, cached, pc, op, at, seen, record, drop>>
    BY <1>1 DEF Tick, provider, store
  <2>2. QED
    BY <1>0, <2>1 DEF FreshInv, Separated, DropsOwnKeys, StoreFresh, RecordsFresh, AnswersFresh,
                      Pending, Busy
<1>2. CASE InvalidateCache
  <2>1. \A x \in Keys : cached'[x] = cached[x] \/ cached'[x] = NoRecord
    BY <1>0, <1>2 DEF InvalidateCache, Delete, Typed
  <2>2. UNCHANGED <<object, pc, op, at, seen, record, drop>>
    BY <1>2 DEF InvalidateCache, provider
  <2>3. Separated' /\ DropsOwnKeys' /\ \A u \in Threads, k \in Keys : Pending(u, k) => Pending(u, k)'
    BY <2>2 DEF FreshInv, Separated, DropsOwnKeys, Pending, Busy
  <2>4. QED
    BY <1>0, <2>1, <2>2, <2>3, NoRecordFresh, FreshFrame
<1>3. ASSUME NEW t \in Threads, Begin(t) \/ Read(t) \/ Write(t) PROVE FreshInv'
  BY <1>0, <1>3, FreshBegin, FreshRead, FreshWrite
<1>4. CASE UNCHANGED vars
  <2>1. UNCHANGED <<object, cached, pc, op, at, seen, record, drop>>
    BY <1>4 DEF vars, provider, store
  <2>2. QED
    BY <1>0, <2>1 DEF FreshInv, Separated, DropsOwnKeys, StoreFresh, RecordsFresh, AnswersFresh,
                      Pending, Busy
<1>5. QED
  BY <1>1, <1>2, <1>3, <1>4 DEF Next

\* Where callers do not overlap reads and writes of a key and every landed write
\* returns, no hit is stale: any keys, any number of operations under way, whatever is
\* evicted, merged or invalidated.
THEOREM FreshHits == Spec => HitsAreFresh
<1> DEFINE Rule == \A t \in Threads :
          Disciplined /\ Hit(t) /\ op[t].kind # "url" => CachedEntry(t).value = object[op[t].key]
<1>1. FreshInv => Rule
  <2> SUFFICES ASSUME FreshInv, NEW t \in Threads, Hit(t), op[t].kind # "url"
               PROVE  CachedEntry(t).value = object[op[t].key]
    BY DEF Rule
  <2>1. Busy(t) /\ op[t].kind \in Reads /\ op[t].key \in Keys
    BY DEF Hit, FreshInv, Typed, Busy, Op
  <2>2. FreshEntry(op[t].kind, CachedEntry(t), object[op[t].key])
    BY <2>1, ReadsAlone DEF CachedEntry
  <2>3. CachedEntry(t).expiresAt > at[t] /\ at[t] \in Nat /\ CachedEntry(t).expiresAt \in Nat
    BY <2>1, TimesAssumption DEF Hit, FreshInv, Typed, CachedEntry, Entry
  <2>4. QED
    BY <2>2, <2>3 DEF FreshEntry
<1>2. (Disciplined => FreshInv) /\ [Next]_vars => (Disciplined => FreshInv)'
  <2> SUFFICES ASSUME Disciplined => FreshInv, [Next]_vars, Disciplined'
               PROVE  FreshInv'
    OBVIOUS
  <2>1. Disciplined
    BY DEF Disciplined, Next, vars
  <2>2. QED
    BY <2>1, FreshStep
<1>3. (Disciplined => FreshInv) => Rule
  BY <1>1
<1>4. QED
  BY <1>2, <1>3, FreshInit, PTL DEF Spec, HitsAreFresh

(***************************************************************************)
(* Urls.                                                                   *)
(***************************************************************************)

\* The entry of a url does not outlive its signature.
Signed(e) == e.expiresAt <= e.value + Lifetime

\* A url is signed while its read is under way; and time does not pass while the
\* in-memory store is looked up.
UrlInv ==
    /\ BoundedInv
    /\ \A k \in Keys : Signed(cached[k]["url"])
    /\ \A t \in Threads : Signed(record[t]["url"])
    /\ \A t \in Threads : pc[t] \in Holding /\ op[t].kind = "url" => at[t] <= seen[t]
    /\ ~setting.slowStore => \A t \in Threads : pc[t] = "lookup" => at[t] = now

LEMMA UrlNone == Signed(NoRecord["url"])
BY TimesAssumption DEF Signed, NoRecord, NoEntry, Reads

\* What an operation that settles leaves behind.
LEMMA UrlDone ==
    ASSUME UrlInv, BoundedInv', NEW t \in Threads, Done(t), UNCHANGED <<now, setting>>,
           \A k \in Keys : Signed(cached'[k]["url"])
    PROVE  UrlInv'
<1>1. Typed
  BY DEF UrlInv, BoundedInv
<1>2. Apart(t) /\ pc'[t] = "idle" /\ record'[t] = NoRecord
  BY <1>1 DEF Done, Goto, Typed, Apart
<1>3. QED
  BY <1>2, UrlNone DEF UrlInv, Apart, Holding, Signed

LEMMA UrlPut ==
    ASSUME UrlInv, BoundedInv', NEW t \in Threads, Put(t), UNCHANGED setting
    PROVE  UrlInv'
<1> DEFINE k == op[t].key
           w == op[t].kind
           e == [value |-> seen[t], expiresAt |-> Expiry(w, at[t])]
           r == [record[t] EXCEPT ![w] = e]
<1>1. Typed
  BY DEF UrlInv, BoundedInv
<1>2. k \in Keys /\ w \in Reads /\ Done(t) /\ UNCHANGED now
  BY <1>1 DEF Put, Typed, Busy, Holding, Op
<1>3. e \in Entry
  BY <1>1, ExpiryType DEF Typed, Entry
<1>4. w = "url" => Signed(e)
  <2>1. at[t] \in 0 .. MaxTime /\ at[t] \in Nat /\ seen[t] \in Nat
    BY <1>1, TimesAssumption DEF Typed
  <2>2. w = "url" => at[t] <= seen[t]
    BY DEF UrlInv, Put, Holding
  <2>3. w = "url" => Expiry(w, at[t]) \in Nat /\ Expiry(w, at[t]) <= at[t] + Lifetime
    BY <2>1, ExpiryType
  <2>4. QED
    BY <2>1, <2>2, <2>3, TimesAssumption DEF Signed
<1>5. Signed(r["url"])
  <2>1. record[t] \in [Reads -> Entry] /\ Signed(record[t]["url"])
    BY <1>1 DEF Typed, UrlInv
  <2>2. QED
    BY <1>2, <1>4, <2>1 DEF Reads
<1>6. StoreStep(k, r)
  <2>1. r \in [Reads -> Entry]
    BY <1>1, <1>2, <1>3 DEF Typed
  <2>2. QED
    BY <1>1, <1>2, <2>1, SetSteps DEF Put
<1>7. \A x \in Keys : Signed(cached'[x]["url"])
  <2> HIDE DEF r
  <2>1. QED
    BY <1>5, <1>6, UrlNone DEF StoreStep, UrlInv
<1>8. QED
  BY <1>2, <1>7, UrlDone

LEMMA UrlRead ==
    ASSUME UrlInv, BoundedInv', NEW t \in Threads, Read(t), ~Put(t), UNCHANGED setting
    PROVE  UrlInv'
<1>1. Typed
  BY DEF UrlInv, BoundedInv
<1>2. UNCHANGED <<cached, now>>
  BY DEF Read, Hit, Miss, Answer, Return, Fill, Get, store
<1>3. CASE Done(t)
  BY <1>2, <1>3, UrlDone DEF UrlInv
<1>4. CASE Miss(t)
  BY <1>1, <1>2, <1>4 DEF Miss, Goto, Typed, UrlInv, Holding
<1>5. CASE Answer(t) /\ ~Done(t)
  <2>1. /\ pc' = [pc EXCEPT ![t] = "got"] /\ UNCHANGED <<op, at, record>>
        /\ seen' = [seen EXCEPT ![t] = IF op[t].kind = "url" THEN now ELSE object[op[t].key]]
    BY <1>5 DEF Answer, Goto
  <2>2. at[t] <= now
    BY DEF UrlInv, BoundedInv, ClocksBounded
  <2>3. QED
    BY <1>1, <1>2, <2>1, <2>2 DEF Typed, UrlInv, Holding
<1>6. CASE Return(t) /\ ~Done(t)
  BY <1>1, <1>2, <1>6 DEF Return, Goto, Typed, UrlInv, Holding
<1>7. CASE Fill(t)
  <2>1. /\ pc' = [pc EXCEPT ![t] = "put"] /\ pc[t] = "fill" /\ UNCHANGED <<op, at, seen>>
        /\ record' = [record EXCEPT ![t] = cached[op[t].key]]
    BY <1>7 DEF Fill, Goto
  <2>2. op[t].key \in Keys
    BY <1>1, <2>1 DEF Typed, Busy, Op
  <2>3. QED
    BY <1>1, <1>2, <2>1, <2>2 DEF Typed, UrlInv, Holding
<1>8. QED
  BY <1>3, <1>4, <1>5, <1>6, <1>7 DEF Read, Hit

LEMMA UrlOther ==
    ASSUME UrlInv, BoundedInv', NEW t \in Threads, Begin(t) \/ Write(t), UNCHANGED setting
    PROVE  UrlInv'
<1>1. Typed
  BY DEF UrlInv, BoundedInv
<1>2. CASE Begin(t)
  <2>1. /\ pc'[t] \notin Holding
        /\ UNCHANGED <<cached, now, seen, record>> /\ at' = [at EXCEPT ![t] = now]
        /\ \A u \in Threads \ {t} : pc'[u] = pc[u] /\ op'[u] = op[u]
    BY <1>1, <1>2 DEF Begin, Goto, Typed, Holding, store
  <2>2. QED
    BY <1>1, <2>1 DEF Typed, UrlInv
<1>3. CASE WriteLands(t) \/ WriteReturns(t)
  <2>1. /\ UNCHANGED <<cached, now, op, at, seen, record>>
        /\ pc'[t] \notin Holding \cup {"lookup"}
        /\ \A u \in Threads \ {t} : pc'[u] = pc[u]
    BY <1>1, <1>3 DEF WriteLands, WriteReturns, Goto, Typed, Holding, store
  <2>2. QED
    BY <2>1 DEF UrlInv, Holding
<1>4. CASE WriteFails(t)
  BY <1>4, UrlDone DEF WriteFails, store, UrlInv
<1>5. CASE Invalidate(t)
  <2>1. \A k : Delete(k) => \A x \in Keys : cached'[x] = cached[x] \/ cached'[x] = NoRecord
    BY <1>1 DEF Delete, Typed
  <2>2. /\ \A x \in Keys : Signed(cached'[x]["url"])
        /\ UNCHANGED now
    BY <1>5, <2>1, UrlNone DEF Invalidate, UrlInv
  <2>3. CASE Done(t)
    BY <2>2, <2>3, UrlDone
  <2>4. CASE ~Done(t)
    BY <1>5, <2>2, <2>4 DEF Invalidate, UrlInv
  <2>5. QED
    BY <2>3, <2>4
<1>6. QED
  BY <1>2, <1>3, <1>4, <1>5 DEF Write

LEMMA UrlStep == UrlInv /\ [Next]_vars => UrlInv'
<1> SUFFICES ASSUME UrlInv, [Next]_vars PROVE UrlInv'
  OBVIOUS
<1>1. BoundedInv' /\ Typed /\ UNCHANGED setting
  BY BoundedStep DEF UrlInv, BoundedInv, Next, vars
<1>2. CASE Tick
  <2>1. /\ UNCHANGED <<cached, pc, op, at, seen, record>>
        /\ ~setting.slowStore => \A t \in Threads : pc[t] # "lookup"
    BY <1>2 DEF Tick, store
  <2>2. QED
    BY <1>1, <2>1 DEF UrlInv
<1>3. CASE InvalidateCache
  <2>1. \A x \in Keys : cached'[x] = cached[x] \/ cached'[x] = NoRecord
    BY <1>1, <1>3 DEF InvalidateCache, Delete, Typed
  <2>2. UNCHANGED <<now, pc, op, at, seen, record>>
    BY <1>3 DEF InvalidateCache
  <2>3. QED
    BY <1>1, <2>1, <2>2, UrlNone DEF UrlInv
<1>4. ASSUME NEW t \in Threads, Begin(t) \/ Read(t) \/ Write(t) PROVE UrlInv'
  BY <1>1, <1>4, UrlPut, UrlRead, UrlOther
<1>5. CASE UNCHANGED vars
  BY <1>1, <1>5 DEF vars, UrlInv, store
<1>6. QED
  BY <1>2, <1>3, <1>4, <1>5 DEF Next

\* HitUrlsAreValid: a hit on the store in memory hands out no url past its
\* signature, whichever of the two times is the smaller and whatever was merged.
THEOREM ValidUrls == Spec => HitUrlsAreValid
<1> DEFINE Rule == \A t \in Threads :
          ~setting.slowStore /\ Hit(t) /\ op[t].kind = "url" => now < CachedEntry(t).value + Lifetime
<1>1. UrlInv => Rule
  <2> SUFFICES ASSUME UrlInv, NEW t \in Threads, ~setting.slowStore, Hit(t), op[t].kind = "url"
               PROVE  now < CachedEntry(t).value + Lifetime
    OBVIOUS
  <2>1. Typed /\ op[t].key \in Keys
    BY DEF UrlInv, BoundedInv, Typed, Hit, Busy, Op
  <2>2. /\ cached[op[t].key]["url"] \in Entry /\ now \in Nat
        /\ cached[op[t].key]["url"].expiresAt > now
        /\ Signed(cached[op[t].key]["url"])
    BY <2>1, TimesAssumption DEF Typed, Reads, UrlInv, Hit, CachedEntry
  <2>3. QED
    BY <2>2, TimesAssumption DEF Signed, Entry, CachedEntry
<1>2. Init => UrlInv
  BY BoundedInit, UrlNone DEF Init, UrlInv, Holding
<1>3. Spec => []UrlInv
  BY <1>2, UrlStep, PTL DEF Spec
<1>4. QED
  BY <1>1, <1>3, PTL DEF HitUrlsAreValid

(***************************************************************************)
(* The store in memory stays within its bound.                             *)
(***************************************************************************)
NoRepeats(s) == \A i, j \in 1 .. Len(s) : s[i] = s[j] => i = j

\* What the store and the pending invalidations hold.
StoreInv ==
    /\ recency \in Seq(Keys) /\ NoRepeats(recency) /\ Len(recency) <= MaxEntries
    /\ \A k \in Keys : cached[k] # NoRecord => HasRecord(k)
    /\ drop \in [Threads -> Seq(Keys)]
    /\ \A t \in Threads : pc[t] = "invalidate" => Len(drop[t]) > 0

LEMMA WithoutFacts ==
    ASSUME recency \in Seq(Keys), NoRepeats(recency), NEW k \in Keys
    PROVE  /\ Without(k) \in Seq(Keys) /\ NoRepeats(Without(k))
           /\ Len(Without(k)) <= Len(recency)
           /\ HasRecord(k) => Len(Without(k)) = Len(recency) - 1
           /\ \A i \in 1 .. Len(Without(k)) : Without(k)[i] # k
           /\ \A x \in Keys : HasRecord(x) /\ x # k => \E i \in 1 .. Len(Without(k)) : Without(k)[i] = x
<1>1. CASE ~HasRecord(k)
  BY <1>1 DEF Without, HasRecord
<1>2. CASE HasRecord(k)
  <2>1. PICK i : i \in 1 .. Len(recency) /\ recency[i] = k
                 /\ Without(k) = SubSeq(recency, 1, i - 1) \o SubSeq(recency, i + 1, Len(recency))
    BY <1>2 DEF Without, HasRecord
  <2>2. PICK n : n = Len(recency)
    OBVIOUS
  <2>3. PICK w : w = Without(k)
    OBVIOUS
  <2>4. PICK left : left = SubSeq(recency, 1, i - 1)
    OBVIOUS
  <2>5. PICK right : right = SubSeq(recency, i + 1, n)
    OBVIOUS
  <2>6. /\ n \in Nat /\ i \in 1 .. n
        /\ left \in Seq(Keys) /\ Len(left) = i - 1 /\ \A j \in 1 .. i - 1 : left[j] = recency[j]
    BY <2>1, <2>2, <2>4
  <2>7. /\ right \in Seq(Keys) /\ Len(right) = n - i
        /\ \A j \in 1 .. n - i : right[j] = recency[i + j]
    BY <2>1, <2>2, <2>5
  <2>8. w = left \o right
    BY <2>1, <2>2, <2>3, <2>4, <2>5
  <2>9. w \in Seq(Keys) /\ Len(w) = Len(left) + Len(right)
    BY <2>6, <2>7, <2>8, ConcatProperties
  <2>10. w \in Seq(Keys) /\ Len(w) = n - 1
    BY <2>6, <2>7, <2>9
  <2>11. \A j \in 1 .. Len(w) : w[j] = IF j < i THEN recency[j] ELSE recency[j + 1]
    <3>1. ASSUME NEW j \in 1 .. Len(w), j < i PROVE w[j] = recency[j]
      BY <2>6, <2>7, <2>8, <2>10, <3>1
    <3>2. ASSUME NEW j \in 1 .. Len(w), j >= i PROVE w[j] = recency[j + 1]
      <4>1. PICK m : m = j - i + 1
        OBVIOUS
      <4>2. m \in 1 .. n - i /\ j = Len(left) + m /\ i + m = j + 1
        BY <2>6, <2>10, <3>2, <4>1
      <4>3. w[j] = right[m]
        BY <2>6, <2>7, <2>8, <4>2
      <4>4. QED
        BY <2>7, <4>2, <4>3
    <3>3. QED
      BY <2>6, <2>10, <3>1, <3>2
  <2>12. NoRepeats(w) /\ \A j \in 1 .. Len(w) : w[j] # k
    BY <2>1, <2>2, <2>10, <2>11 DEF NoRepeats
  <2>13. ASSUME NEW x \in Keys, HasRecord(x), x # k
        PROVE  \E j \in 1 .. Len(w) : w[j] = x
    <3>1. PICK j \in 1 .. n : recency[j] = x
      BY <2>2, <2>13 DEF HasRecord
    <3>2. j # i
      BY <2>1, <2>13, <3>1
    <3>3. CASE j < i
      <4>1. j \in 1 .. Len(w)
        BY <2>6, <2>10, <3>1, <3>3
      <4>2. w[j] = recency[j]
        BY <2>11, <3>3, <4>1
      <4>3. QED
        BY <3>1, <4>1, <4>2
    <3>4. CASE j > i
      <4>1. j - 1 \in 1 .. Len(w) /\ ~(j - 1 < i) /\ j - 1 + 1 = j
        BY <2>6, <2>10, <3>1, <3>4
      <4>2. w[j - 1] = recency[j]
        BY <2>11, <4>1
      <4>3. QED
        BY <3>1, <4>1, <4>2
    <3>5. QED
      BY <2>1, <3>2, <3>3, <3>4
  <2>14. QED
    BY <2>2, <2>3, <2>10, <2>12, <2>13
<1>3. QED
  BY <1>1, <1>2

LEMMA TouchFacts ==
    ASSUME recency \in Seq(Keys), NoRepeats(recency), NEW k \in Keys
    PROVE  /\ Touch(k) \in Seq(Keys) /\ NoRepeats(Touch(k))
           /\ HasRecord(k) => Len(Touch(k)) = Len(recency)
           /\ \A x \in Keys : HasRecord(x) \/ x = k => \E i \in 1 .. Len(Touch(k)) : Touch(k)[i] = x
<1> PICK w : w = Without(k)
  OBVIOUS
<1>1. /\ w \in Seq(Keys) /\ NoRepeats(w) /\ (HasRecord(k) => Len(w) = Len(recency) - 1)
      /\ \A i \in 1 .. Len(w) : w[i] # k
      /\ \A x \in Keys : HasRecord(x) /\ x # k => \E i \in 1 .. Len(w) : w[i] = x
  BY WithoutFacts
<1>2. PICK v : v = Touch(k)
  OBVIOUS
<1>3. /\ v \in Seq(Keys) /\ Len(v) = Len(w) + 1 /\ v[Len(v)] = k
      /\ \A i \in 1 .. Len(w) : v[i] = w[i]
  BY <1>1, <1>2 DEF Touch
<1>4. NoRepeats(v)
  BY <1>1, <1>3 DEF NoRepeats
<1>5. \A x \in Keys : HasRecord(x) \/ x = k => \E i \in 1 .. Len(v) : v[i] = x
  BY <1>1, <1>3
<1>6. QED
  BY <1>1, <1>2, <1>3, <1>4, <1>5

\* The part of the invariant about the store.
Stored(c, r) ==
    /\ r \in Seq(Keys) /\ NoRepeats(r) /\ Len(r) <= MaxEntries
    /\ \A k \in Keys : c[k] # NoRecord => \E i \in 1 .. Len(r) : r[i] = k

LEMMA GetStored == ASSUME StoreInv, NEW k \in Keys, Get(k) PROVE Stored(cached', recency')
<1>1. CASE ~HasRecord(k)
  BY <1>1 DEF Get, Stored, StoreInv, HasRecord
<1>2. CASE HasRecord(k)
  <2>1. recency' = Touch(k) /\ cached' = cached
    BY <1>2 DEF Get
  <2>2. QED
    BY <1>2, <2>1, TouchFacts DEF Stored, StoreInv
<1>3. QED
  BY <1>1, <1>2

LEMMA DeleteStored ==
    ASSUME StoreInv, Typed, NEW k \in Keys, Delete(k)
    PROVE  Stored(cached', recency')
<1>1. recency' = Without(k) /\ \A x \in Keys : x # k => cached'[x] = cached[x]
  BY DEF Delete, Typed
<1>2. cached'[k] = NoRecord
  BY DEF Delete, Typed
<1> PICK w : w = Without(k)
  OBVIOUS
<1>3. /\ w \in Seq(Keys) /\ NoRepeats(w) /\ Len(w) <= Len(recency) /\ recency' = w
      /\ \A x \in Keys : HasRecord(x) /\ x # k => \E i \in 1 .. Len(w) : w[i] = x
  BY <1>1, WithoutFacts DEF StoreInv
<1>4. Len(w) <= MaxEntries
  BY <1>3, BoundsAssumption DEF StoreInv
<1>5. \A x \in Keys : cached'[x] # NoRecord => \E i \in 1 .. Len(w) : w[i] = x
  BY <1>1, <1>2, <1>3 DEF StoreInv
<1>6. QED
  BY <1>3, <1>4, <1>5 DEF Stored

\* Eviction keeps the most recent keys, as many as there may be.
LEMMA SetStored ==
    ASSUME StoreInv, Typed, NEW k \in Keys, NEW r \in [Reads -> Entry], Set(k, r)
    PROVE  Stored(cached', recency')
<1> PICK all : all = Touch(k)
  OBVIOUS
<1>1. /\ all \in Seq(Keys) /\ NoRepeats(all)
      /\ \A x \in Keys : HasRecord(x) \/ x = k => \E i \in 1 .. Len(all) : all[i] = x
  BY TouchFacts DEF StoreInv
<1>2. CASE Len(all) <= MaxEntries
  <2>1. recency' = all /\ cached' = [cached EXCEPT ![k] = r]
    BY <1>2 DEF Set
  <2>2. \A x \in Keys : x # k => cached'[x] = cached[x]
    BY <2>1 DEF Typed
  <2>3. QED
    BY <1>1, <1>2, <2>1, <2>2 DEF Stored, StoreInv
<1>3. CASE ~(Len(all) <= MaxEntries)
  <2>1. PICK n : n = Len(all) - MaxEntries
    OBVIOUS
  <2>2. n \in Nat /\ n > 0 /\ n + MaxEntries = Len(all) /\ n + 1 <= Len(all) + 1
    BY <1>1, <1>3, <2>1, BoundsAssumption
  <2>3. PICK kept : kept = SubSeq(all, n + 1, Len(all))
    OBVIOUS
  <2>4. /\ recency' = kept
        /\ cached' = [x \in Keys |-> IF \A i \in 1 .. Len(kept) : kept[i] # x THEN NoRecord
                                     ELSE IF x = k THEN r ELSE cached[x]]
    BY <1>3, <2>1, <2>3 DEF Set
  <2>5. /\ kept \in Seq(Keys) /\ Len(kept) = MaxEntries
        /\ \A i \in 1 .. Len(kept) : kept[i] = all[n + i]
    BY <1>1, <2>2, <2>3, BoundsAssumption
  <2>6. NoRepeats(kept)
    BY <1>1, <2>2, <2>5, BoundsAssumption DEF NoRepeats
  <2>7. \A x \in Keys : cached'[x] # NoRecord => \E i \in 1 .. Len(kept) : kept[i] = x
    BY <2>4
  <2>8. QED
    BY <2>4, <2>5, <2>6, <2>7, BoundsAssumption DEF Stored
<1>4. QED
  BY <1>2, <1>3

LEMMA StoreHolds ==
    ASSUME Stored(cached', recency'), drop' \in [Threads -> Seq(Keys)],
           \A t \in Threads : pc'[t] = "invalidate" => Len(drop'[t]) > 0
    PROVE  StoreInv'
BY DEF Stored, StoreInv, HasRecord


LEMMA DoneDrops ==
    ASSUME Typed, NEW t \in Threads, Done(t)
    PROVE  \A u \in Threads : pc'[u] = "invalidate" => pc[u] = "invalidate" /\ u # t
BY DoneTyped DEF Typed

LEMMA ReadStores == ASSUME Typed, StoreInv, NEW t \in Threads, Read(t) PROVE StoreInv'
<1> DEFINE k == op[t].key
<1>1. k \in Keys /\ drop' = drop
  BY DEF Typed, Busy, Op, Read, Hit, Miss, Answer, Return, Fill, Put
<1>2. \A u \in Threads : pc'[u] = "invalidate" => pc[u] = "invalidate"
  <2>1. CASE Done(t)
    BY <2>1, DoneDrops
  <2>2. CASE \E x \in {"sent", "got", "fill", "put"} : Goto(t, x)
    BY <2>2 DEF Goto, Typed
  <2>3. QED
    BY <2>1, <2>2 DEF Read, Hit, Miss, Answer, Return, Fill, Put
<1>3. Stored(cached', recency')
  <2>1. CASE UNCHANGED store
    BY <2>1 DEF store, StoreInv, Stored, HasRecord
  <2>2. CASE Get(k)
    BY <1>1, <2>2, GetStored
  <2>3. CASE Put(t)
    <3>1. PICK r : r = [record[t] EXCEPT ![op[t].kind] =
                         [value |-> seen[t], expiresAt |-> Expiry(op[t].kind, at[t])]]
      OBVIOUS
    <3>2. r \in [Reads -> Entry]
      BY <3>1, ExpiryType DEF Typed, Entry
    <3>3. QED
      BY <1>1, <2>3, <3>1, <3>2, SetStored DEF Put
  <2>4. QED
    BY <2>1, <2>2, <2>3 DEF Read, Hit, Miss, Answer, Return, Fill
<1>4. QED
  BY <1>1, <1>2, <1>3, StoreHolds DEF StoreInv

LEMMA WriteStores == ASSUME Typed, StoreInv, NEW t \in Threads, Write(t) PROVE StoreInv'
<1>1. op[t] \in Op /\ op[t].key \in Keys /\ op[t].to \in Keys
  BY DEF Typed, Busy, Op, Write, WriteLands, WriteFails, WriteReturns, Invalidate
<1>2. CASE WriteLands(t) \/ WriteFails(t)
  <2>1. UNCHANGED <<store, drop>>
    BY <1>2 DEF WriteLands, WriteFails
  <2>2. \A u \in Threads : pc'[u] = "invalidate" => pc[u] = "invalidate"
    BY <1>2, DoneDrops DEF WriteLands, WriteFails, Goto, Typed
  <2>3. QED
    BY <2>1, <2>2, StoreHolds DEF store, StoreInv, Stored, HasRecord
<1>3. CASE WriteReturns(t)
  <2>1. Invalidates(op[t]) \in Seq(Keys) /\ Len(Invalidates(op[t])) > 0
    BY <1>1 DEF Invalidates
  <2>2. /\ drop' = [drop EXCEPT ![t] = Invalidates(op[t])] /\ UNCHANGED store
        /\ pc' = [pc EXCEPT ![t] = "invalidate"]
    BY <1>3 DEF WriteReturns, Goto
  <2>3. /\ drop' \in [Threads -> Seq(Keys)]
        /\ \A u \in Threads : pc'[u] = "invalidate" => Len(drop'[u]) > 0
    BY <2>1, <2>2 DEF Typed, StoreInv
  <2>4. QED
    BY <2>2, <2>3, StoreHolds DEF store, StoreInv, Stored, HasRecord
<1>4. CASE Invalidate(t)
  <2>1. PICK s : s = drop[t]
    OBVIOUS
  <2>2. s \in Seq(Keys) /\ Len(s) \in Nat /\ Len(s) > 0 /\ s # <<>>
    BY <1>4, <2>1 DEF Invalidate, StoreInv
  <2>3. Head(s) \in Keys /\ Tail(s) \in Seq(Keys) /\ (Len(s) # 1 => Len(Tail(s)) > 0)
    <3>1. Head(s) \in Keys /\ Tail(s) \in Seq(Keys) /\ Len(Tail(s)) = Len(s) - 1
      BY <2>2, HeadTailProperties
    <3>2. QED
      BY <2>2, <3>1
  <2>4. Stored(cached', recency')
    BY <1>4, <2>1, <2>3, DeleteStored DEF Invalidate
  <2>5. drop' = [drop EXCEPT ![t] = Tail(s)]
    BY <1>4, <2>1 DEF Invalidate
  <2>6. drop' \in [Threads -> Seq(Keys)]
    BY <2>3, <2>5 DEF StoreInv
  <2>7. \A u \in Threads : pc'[u] = "invalidate" => Len(drop'[u]) > 0
    <3>1. CASE Done(t)
      BY <2>5, <3>1, DoneDrops DEF StoreInv
    <3>2. CASE Len(s) # 1 /\ pc' = pc
      BY <2>3, <2>5, <3>2 DEF StoreInv
    <3>3. QED
      BY <1>4, <2>1, <3>1, <3>2 DEF Invalidate
  <2>8. QED
    BY <2>4, <2>6, <2>7, StoreHolds
<1>5. QED
  BY <1>2, <1>3, <1>4 DEF Write

LEMMA NextStores == ASSUME Typed, StoreInv, [Next]_vars PROVE StoreInv'
<1>1. CASE UNCHANGED <<store, drop, pc>>
  BY <1>1 DEF store, StoreInv, HasRecord
<1>2. CASE InvalidateCache
  <2>1. ASSUME NEW k \in Keys, Delete(k) PROVE Stored(cached', recency')
    BY <2>1, DeleteStored
  <2>2. ASSUME recency' = <<>>, cached' = [k \in Keys |-> NoRecord]
        PROVE  Stored(cached', recency')
    <3>1. NoRepeats(<<>>) /\ Len(<<>>) = 0 /\ <<>> \in Seq(Keys)
      BY DEF NoRepeats
    <3>2. \A k \in Keys : cached'[k] = NoRecord
      BY <2>2
    <3>3. QED
      BY <2>2, <3>1, <3>2, BoundsAssumption DEF Stored
  <2>3. Stored(cached', recency')
    BY <1>2, <2>1, <2>2 DEF InvalidateCache
  <2>4. QED
    BY <1>2, <2>3, StoreHolds DEF InvalidateCache, StoreInv
<1>3. ASSUME NEW t \in Threads, Begin(t) PROVE StoreInv'
  <2>1. /\ UNCHANGED <<store, drop>>
        /\ \E x \in {"writeSent", "lookup", "sent"} : pc' = [pc EXCEPT ![t] = x]
    BY <1>3 DEF Begin, Goto
  <2>2. \A u \in Threads : pc'[u] = "invalidate" => pc[u] = "invalidate"
    BY <2>1 DEF Typed
  <2>3. QED
    BY <2>1, <2>2, StoreHolds DEF store, StoreInv, Stored, HasRecord
<1>4. QED
  BY <1>1, <1>2, <1>3, ReadStores, WriteStores DEF Next, vars, Tick, provider

\* The store in memory keeps records of the keys it lists, each listed once, and never
\* more than it may retain, whichever lookups, fills and invalidations meet.
THEOREM StoreIsBounded == Spec => []TypeOK
<1>1. Init => StoreInv
  BY BoundsAssumption DEF Init, StoreInv, NoRepeats
<1>2. Typed /\ StoreInv /\ [Next]_vars => StoreInv'
  BY NextStores
<1>3. Typed /\ StoreInv => TypeOK
  BY DEF Typed, StoreInv, TypeOK
<1>4. Spec => []Typed
  BY AlwaysTyped
<1>5. QED
  BY <1>1, <1>2, <1>3, <1>4, PTL DEF Spec

(***************************************************************************)
(* The urls themselves, which the plugin only stores: Urls.tla has what    *)
(* the adapters sign and what the plugin signed-url-policy makes of a      *)
(* caller's wishes.  The keys that Azure signs with are cached too, and    *)
(* what is shown of them is by induction over the calls.                   *)
(***************************************************************************)

Minted == INSTANCE Urls

\* Induction, in the form the provers can use: what holds at 0, and after a number holds
\* at the next, holds up to N.
LEMMA UpTo ==
    ASSUME NEW N \in Nat, NEW P, 0 \in P, \A n \in 1 .. N : n - 1 \in P => n \in P
    PROVE  \A n \in 0 .. N : n \in P
<1> DEFINE R == {p \in Nat \X Nat : p[1] < p[2]}
           T == {n \in 0 .. N : n \notin P}
<1>1. IsWellFoundedOn(R, Nat)
    BY NatLessThanWellFounded DEF OpToRel
<1>2. SUFFICES ASSUME T # {} PROVE FALSE
    OBVIOUS
<1>3. \E n \in T : \A m \in T : <<m, n>> \notin R
    <2>1. T \subseteq Nat
        OBVIOUS
    <2> HIDE DEF R, T
    <2>2. QED
        BY <1>1, <1>2, <2>1, WFMin
<1>4. PICK n \in T : \A m \in T : <<m, n>> \notin R
    <2> HIDE DEF R, T
    <2>1. QED
        BY <1>3
<1>5. n \in 1 .. N /\ n - 1 \in 0 .. N /\ <<n - 1, n>> \in R
    OBVIOUS
<1>6. n - 1 \in P /\ n \notin P
    <2> HIDE DEF R
    <2>1. QED
        BY <1>4, <1>5
<1>7. QED
    BY <1>5, <1>6

\* The states of a loop over 1 .. N: f[n] is the one after n turns.
Turns(S, N, base, step, f) ==
    /\ f \in [0 .. N -> S]
    /\ f = [n \in 0 .. N |-> IF n = 0 THEN base ELSE step[<<n, f[n - 1]>>]]

HasTurns(S, N, base, step) == \E f : Turns(S, N, base, step, f)

\* A loop that keeps its state in S has a state after each turn.
LEMMA LoopsTurn ==
    ASSUME NEW S, NEW N \in Nat, NEW base \in S, NEW step \in [(1 .. N) \X S -> S]
    PROVE  HasTurns(S, N, base, step)
<1> DEFINE To(k) == \E f \in [0 .. k -> S] :
                        /\ f[0] = base
                        /\ \A n \in 1 .. k : f[n] = step[<<n, f[n - 1]>>]
           P == {k \in 0 .. N : To(k)}
<1>1. 0 \in P
    <2> DEFINE f == [n \in 0 .. 0 |-> base]
    <2>1. f \in [0 .. 0 -> S] /\ f[0] = base /\ \A n \in 1 .. 0 : f[n] = step[<<n, f[n - 1]>>]
        OBVIOUS
    <2> HIDE DEF f
    <2>2. QED
        BY <2>1
<1>2. ASSUME NEW k \in 1 .. N, k - 1 \in P
      PROVE  k \in P
    <2>1. PICK f \in [0 .. k - 1 -> S] :
                  /\ f[0] = base
                  /\ \A n \in 1 .. k - 1 : f[n] = step[<<n, f[n - 1]>>]
        BY <1>2
    <2> DEFINE last == step[<<k, f[k - 1]>>]
               g == [n \in 0 .. k |-> IF n = k THEN last ELSE f[n]]
    <2>2. last \in S
        BY <2>1
    <2>3. g \in [0 .. k -> S] /\ \A n \in 0 .. k : g[n] = IF n = k THEN last ELSE f[n]
        <3> HIDE DEF last
        <3>1. QED
            BY <2>1, <2>2
    <2>4. g[0] = base
        BY <2>1, <2>3
    <2>5. ASSUME NEW n \in 1 .. k
          PROVE  g[n] = step[<<n, g[n - 1]>>]
        <3>1. n - 1 \in 0 .. k /\ n - 1 # k
            OBVIOUS
        <3> HIDE DEF g
        <3>2. g[n - 1] = f[n - 1]
            BY <2>3, <3>1
        <3>3. CASE n = k
            <4>1. g[k] = last /\ last = step[<<k, g[k - 1]>>]
                BY <2>3, <3>2, <3>3
            <4>2. QED
                BY <3>3, <4>1
        <3>4. CASE n # k
            BY <2>1, <2>3, <3>2, <3>4
        <3>5. QED
            BY <3>3, <3>4
    <2> HIDE DEF g
    <2>6. QED
        BY <2>3, <2>4, <2>5
<1>3. N \in P
    <2> HIDE DEF P
    <2>1. \A n \in 1 .. N : n - 1 \in P => n \in P
        BY <1>2
    <2>2. QED
        BY <1>1, <2>1, UpTo
<1>4. PICK f \in [0 .. N -> S] : /\ f[0] = base
                                 /\ \A n \in 1 .. N : f[n] = step[<<n, f[n - 1]>>]
    BY <1>3
<1>5. f = [n \in 0 .. N |-> IF n = 0 THEN base ELSE step[<<n, f[n - 1]>>]]
    BY <1>4
<1>6. QED
    BY <1>5 DEF HasTurns, Turns

Clocked == [now : Nat, key : Nat]
KeyCall == [after : Nat, life : Nat]

\* One more call, from a cache whose key was good for seven days at most.
LEMMA OneMoreKey ==
    ASSUME NEW key \in Nat, NEW time \in Nat, NEW life \in Nat,
           key <= time - Minted!Backdated + Minted!KeyMax
    PROVE  LET new == Minted!DelegationKey(key, time, life)
           IN  /\ new \in Nat /\ new <= time - Minted!Backdated + Minted!KeyMax
               /\ new < time + life <=> life > Minted!KeyMax - Minted!Backdated
               /\ new < time + life + Minted!Slack
                     <=> life > Minted!KeyMax - Minted!Backdated - Minted!Slack
<1> DEFINE required == time + life + 5
           longest == time - 1 + 10080
           new == Minted!DelegationKey(key, time, life)
<1>1. new = IF key > required THEN key
            ELSE IF required + 60 < longest THEN required + 60 ELSE longest
    BY DEF Minted!DelegationKey, Minted!Slack, Minted!KeyTtl, Minted!KeyMax, Minted!Backdated
<1>2. QED
    BY <1>1 DEF Minted!Slack, Minted!KeyMax, Minted!Backdated

\* Every key is good for seven days at most.
LEMMA KeysAfterCalls ==
    ASSUME NEW calls \in Seq(KeyCall)
    PROVE  LET after == Minted!KeyCache(calls)
           IN  \A n \in 0 .. Len(calls) :
                  /\ after[n] \in Clocked
                  /\ after[n].key <= after[n].now - Minted!Backdated + Minted!KeyMax
                  /\ n > 0 =>
                        /\ after[n].now = after[n - 1].now + calls[n].after
                        /\ after[n].key = Minted!DelegationKey(after[n - 1].key, after[n].now,
                                                              calls[n].life)
<1> DEFINE S == {s \in Clocked : s.key <= s.now - Minted!Backdated + Minted!KeyMax}
           N == Len(calls)
           base == [now |-> 0, key |-> 0]
           Turn(n, s) == LET time == s.now + calls[n].after
                         IN  [now |-> time,
                              key |-> Minted!DelegationKey(s.key, time, calls[n].life)]
           step == [a \in (1 .. N) \X S |-> Turn(a[1], a[2])]
           after == Minted!KeyCache(calls)
<1>1. N \in Nat /\ \A n \in 1 .. N : calls[n] \in KeyCall
    OBVIOUS
<1>2. base \in S
    BY DEF Clocked, Minted!KeyMax, Minted!Backdated
<1>3. ASSUME NEW n \in 1 .. N, NEW s \in S
      PROVE  Turn(n, s) \in S
    <2> DEFINE time == s.now + calls[n].after
    <2>1. /\ s.key \in Nat /\ time \in Nat /\ calls[n].life \in Nat
          /\ s.key <= time - Minted!Backdated + Minted!KeyMax
        BY <1>1 DEF Clocked, KeyCall, Minted!KeyMax, Minted!Backdated
    <2> HIDE DEF time
    <2>2. LET new == Minted!DelegationKey(s.key, time, calls[n].life)
          IN  new \in Nat /\ new <= time - Minted!Backdated + Minted!KeyMax
        BY <2>1, OneMoreKey
    <2>3. QED
        BY <2>1, <2>2 DEF Clocked, time
<1>4. step \in [(1 .. N) \X S -> S]
    <2> HIDE DEF S, Turn, N
    <2>1. QED
        BY <1>3
<1>5. PICK f : Turns(S, N, base, step, f)
    <2> HIDE DEF S, step, base, N
    <2>1. HasTurns(S, N, base, step)
        BY <1>1, <1>2, <1>4, LoopsTurn
    <2>2. QED
        BY <2>1 DEF HasTurns
<1>6. \A n \in 1 .. N : step[<<n, f[n - 1]>>] = Turn(n, f[n - 1])
    <2> HIDE DEF S, Turn
    <2>1. \A n \in 1 .. N : n - 1 \in 0 .. N /\ f[n - 1] \in S
        <3> HIDE DEF N, step, base
        <3>1. QED
            BY <1>1, <1>5 DEF Turns
    <2>2. QED
        BY <2>1
<1>7. f = [n \in 0 .. N |-> IF n = 0 THEN base ELSE Turn(n, f[n - 1])]
    <2> HIDE DEF Turn, step, base, S
    <2>1. \A n \in 0 .. N : n # 0 => n \in 1 .. N
        BY <1>1
    <2>2. QED
        BY <1>5, <1>6, <2>1 DEF Turns
<1>8. after = [n \in 0 .. N |-> IF n = 0 THEN base ELSE Turn(n, after[n - 1])]
    BY <1>7 DEF Minted!KeyCache
<1>9. \A n \in 0 .. N : after[n] \in S
    <2> DEFINE P == {n \in 0 .. N : after[n] \in S}
    <2>1. 0 \in P
        <3> HIDE DEF after, S, Turn
        <3>1. QED
            BY <1>1, <1>2, <1>8
    <2>2. ASSUME NEW n \in 1 .. N, n - 1 \in P
          PROVE  n \in P
        <3> HIDE DEF after, S, Turn
        <3>1. after[n] = Turn(n, after[n - 1])
            BY <1>8
        <3>2. QED
            BY <1>3, <2>2, <3>1
    <2> HIDE DEF P
    <2>3. \A n \in 0 .. N : n \in P
        BY <1>1, <2>1, <2>2, UpTo
    <2>4. QED
        BY <2>3 DEF P
<1>10. ASSUME NEW n \in 1 .. N
       PROVE  /\ after[n].now = after[n - 1].now + calls[n].after
              /\ after[n].key = Minted!DelegationKey(after[n - 1].key, after[n].now,
                                                    calls[n].life)
    <2>1. after[n] = Turn(n, after[n - 1])
        <3> HIDE DEF after, Turn
        <3>1. n \in 0 .. N /\ n # 0
            BY <1>1
        <3> HIDE DEF N
        <3>2. QED
            BY <1>8, <3>1
    <2> HIDE DEF after, N
    <2>2. QED
        BY <2>1
<1>11. QED
    <2> HIDE DEF after
    <2>1. QED
        BY <1>9, <1>10 DEF after

\* However many URLs Azure signs, one after the other and with whatever lives, the cached key
\* that signs each outlives it, and the slack for clocks that differ, unless the life leaves
\* no room for that within the seven days of a key; and no key is asked for longer.
THEOREM KeysOutliveEverySas ==
    ASSUME NEW calls \in Seq([after : Nat, life : Nat])
    PROVE  LET signed == Minted!SignedWith(calls)
           IN  \A m \in 1 .. Len(calls) :
                  /\ signed[m].key < signed[m].until
                        <=> calls[m].life > Minted!KeyMax - Minted!Backdated
                  /\ signed[m].key < signed[m].until + Minted!Slack
                        <=> calls[m].life > Minted!KeyMax - Minted!Backdated - Minted!Slack
                  /\ signed[m].key <= signed[m].at - Minted!Backdated + Minted!KeyMax
<1> DEFINE after == Minted!KeyCache(calls)
           signed == Minted!SignedWith(calls)
<1>1. calls \in Seq(KeyCall)
    BY DEF KeyCall
<1> SUFFICES ASSUME NEW m \in 1 .. Len(calls)
             PROVE  /\ signed[m].key < signed[m].until
                          <=> calls[m].life > Minted!KeyMax - Minted!Backdated
                    /\ signed[m].key < signed[m].until + Minted!Slack
                          <=> calls[m].life > Minted!KeyMax - Minted!Backdated - Minted!Slack
                    /\ signed[m].key <= signed[m].at - Minted!Backdated + Minted!KeyMax
    OBVIOUS
<1>2. /\ signed[m].at = after[m].now /\ signed[m].key = after[m].key
      /\ signed[m].until = after[m].now + calls[m].life
    BY DEF Minted!SignedWith
<1>3. m - 1 \in 0 .. Len(calls) /\ m \in 0 .. Len(calls) /\ m > 0 /\ calls[m] \in KeyCall
    BY <1>1
<1>4. /\ after[m - 1] \in Clocked /\ after[m] \in Clocked
      /\ after[m - 1].key <= after[m - 1].now - Minted!Backdated + Minted!KeyMax
      /\ after[m].now = after[m - 1].now + calls[m].after
      /\ after[m].key = Minted!DelegationKey(after[m - 1].key, after[m].now, calls[m].life)
    <2> HIDE DEF after
    <2>1. QED
        BY <1>1, <1>3, KeysAfterCalls DEF after
<1> HIDE DEF after, signed
<1>5. /\ after[m - 1].key \in Nat /\ after[m].now \in Nat /\ calls[m].life \in Nat
      /\ after[m - 1].key <= after[m].now - Minted!Backdated + Minted!KeyMax
    <2> DEFINE key == after[m - 1].key
               earlier == after[m - 1].now
               time == after[m].now
               waited == calls[m].after
    <2>1. /\ key \in Nat /\ earlier \in Nat /\ time \in Nat /\ waited \in Nat
          /\ calls[m].life \in Nat
        BY <1>3, <1>4 DEF Clocked, KeyCall
    <2>2. Minted!Backdated \in Nat /\ Minted!KeyMax \in Nat
        BY DEF Minted!Backdated, Minted!KeyMax
    <2>3. key <= earlier - Minted!Backdated + Minted!KeyMax /\ time = earlier + waited
        BY <1>4
    <2> HIDE DEF key, earlier, time, waited
    <2>4. key <= time - Minted!Backdated + Minted!KeyMax
        BY <2>1, <2>2, <2>3
    <2>5. QED
        BY <2>1, <2>4 DEF key, time
<1>6. LET new == after[m].key
      IN  /\ new <= after[m].now - Minted!Backdated + Minted!KeyMax
          /\ new < after[m].now + calls[m].life
                <=> calls[m].life > Minted!KeyMax - Minted!Backdated
          /\ new < after[m].now + calls[m].life + Minted!Slack
                <=> calls[m].life > Minted!KeyMax - Minted!Backdated - Minted!Slack
    <2> DEFINE key == after[m - 1].key
               time == after[m].now
               life == calls[m].life
    <2>1. /\ key \in Nat /\ time \in Nat /\ life \in Nat
          /\ key <= time - Minted!Backdated + Minted!KeyMax
          /\ after[m].key = Minted!DelegationKey(key, time, life)
        BY <1>4, <1>5
    <2> HIDE DEF key, time, life
    <2>2. LET new == Minted!DelegationKey(key, time, life)
          IN  /\ new <= time - Minted!Backdated + Minted!KeyMax
              /\ new < time + life <=> life > Minted!KeyMax - Minted!Backdated
              /\ new < time + life + Minted!Slack
                    <=> life > Minted!KeyMax - Minted!Backdated - Minted!Slack
        BY <2>1, OneMoreKey
    <2>3. QED
        BY <2>1, <2>2 DEF time, life
<1>7. QED
    BY <1>2, <1>6

\* Whatever it is set to, signed-url-policy only takes away: what was asked for comes out no
\* larger, a cap holds for every wish, also for none, and the policy applied twice is the policy.
THEOREM PolicyTakesAway ==
    ASSUME NEW policy \in [disposition : {"none", "inline", "attachment"}, life : Nat, size : Nat],
           NEW wish \in [life : Nat, disposition : Minted!Dispositions],
           NEW terms \in [life : Nat \ {Minted!Unasked}, size : Nat]
    PROVE  LET url == Minted!OnUrl(policy, wish)
               upload == Minted!OnUpload(policy, terms)
           IN  /\ wish.life # Minted!Unasked => url.life \in 1 .. wish.life
               /\ policy.life # Minted!Unasked => /\ url.life \in 1 .. policy.life
                                                  /\ upload.life \in 1 .. policy.life
               /\ upload.life \in 1 .. terms.life
               /\ terms.size # Minted!Unasked => upload.size \in 1 .. terms.size
               /\ policy.size # Minted!Unasked => upload.size \in 1 .. policy.size
               /\ policy.disposition # "none" =>
                     url.disposition \in {policy.disposition, "attachment"}
               /\ Minted!OnUrl(policy, url) = url
               /\ Minted!OnUpload(policy, upload) = upload
<1> DEFINE Kept(asked, cap) == IF cap = 0 THEN asked ELSE Minted!Clamped(asked, cap)
<1>1. ASSUME NEW asked \in Nat, NEW cap \in Nat
      PROVE  /\ asked # 0 => Kept(asked, cap) \in 1 .. asked
             /\ cap # 0 => Kept(asked, cap) \in 1 .. cap
             /\ Kept(Kept(asked, cap), cap) = Kept(asked, cap)
    BY DEF Minted!Clamped, Minted!Unasked
<1>2. /\ policy.life \in Nat /\ policy.size \in Nat /\ wish.life \in Nat
      /\ terms.life \in Nat \ {0} /\ terms.size \in Nat
    BY DEF Minted!Unasked
<1> DEFINE url == Minted!OnUrl(policy, wish)
           upload == Minted!OnUpload(policy, terms)
           again == Minted!OnUrl(policy, url)
           more == Minted!OnUpload(policy, upload)
<1>3. /\ url.life = Kept(wish.life, policy.life)
      /\ upload.life = Kept(terms.life, policy.life)
      /\ upload.size = Kept(terms.size, policy.size)
      /\ url.disposition = IF policy.disposition = "none" \/ wish.disposition = "attachment"
                             THEN wish.disposition ELSE policy.disposition
      /\ url = [disposition |-> url.disposition, life |-> url.life]
      /\ upload = [life |-> upload.life, size |-> upload.size]
    BY DEF Minted!OnUrl, Minted!OnUpload, Minted!Unasked
<1>4. /\ again = [disposition |-> IF policy.disposition = "none" \/ url.disposition = "attachment"
                                   THEN url.disposition ELSE policy.disposition,
                  life |-> Kept(url.life, policy.life)]
      /\ more = [life |-> Kept(upload.life, policy.life),
                 size |-> Kept(upload.size, policy.size)]
    BY DEF Minted!OnUrl, Minted!OnUpload, Minted!Unasked
<1> HIDE DEF url, upload, again, more, Kept
<1>5. again = url /\ more = upload
    BY <1>1, <1>2, <1>3, <1>4
<1>6. /\ wish.life # 0 => url.life \in 1 .. wish.life
      /\ policy.life # 0 => url.life \in 1 .. policy.life /\ upload.life \in 1 .. policy.life
      /\ upload.life \in 1 .. terms.life
      /\ terms.size # 0 => upload.size \in 1 .. terms.size
      /\ policy.size # 0 => upload.size \in 1 .. policy.size
    BY <1>1, <1>2, <1>3
<1>7. policy.disposition # "none" => url.disposition \in {policy.disposition, "attachment"}
    BY <1>3
<1>8. QED
    BY <1>5, <1>6, <1>7 DEF url, upload, again, more, Minted!Unasked
=============================================================================
