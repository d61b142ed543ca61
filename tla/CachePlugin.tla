----------------------------- MODULE CachePlugin -----------------------------
(***************************************************************************)
(* The cache() plugin (cache/index.ts): head, url and small downloads are  *)
(* answered from a bounded LRU of per-key records; writes through the      *)
(* instance drop the records of the keys they touch.                       *)
(*                                                                         *)
(* Every store call is awaited, so a lookup, and the read-modify-write     *)
(* that fills a record, are steps other operations can come between. One   *)
(* options signature stands for all the variants of a verb. Meta and bytes *)
(* of a key are its version; the value of a url is the time it was signed. *)
(***************************************************************************)
EXTENDS Integers, Sequences

CONSTANTS
    Keys,
    Threads,       \* operations that can be under way at once
    Operations,    \* the cached verbs, among "head", "url" and "download"
    Ttl,           \* 0 disables expiry
    Lifetime,      \* for how long a signed url is valid
    MaxEntries,    \* keys the in-memory store retains
    Settings,      \* the settings the plugin is run in
    MaxWrites,     \* bound: versions written
    MaxTime        \* bound of the clock

ASSUME OperationsAssumption == Operations \subseteq {"head", "url", "download"}
ASSUME TimesAssumption == Ttl \in Nat /\ Lifetime \in Nat /\ MaxTime \in Nat
ASSUME BoundsAssumption == MaxEntries \in Nat /\ MaxWrites \in Nat

\* slowStore: the store takes time to answer (a CacheStore of one's own); overlap:
\* callers read a key while it is being written; lostReplies: a write can land and
\* still throw.
Setting == [slowStore : BOOLEAN, overlap : BOOLEAN, lostReplies : BOOLEAN]
ASSUME SettingsAssumption == Settings \subseteq Setting

VARIABLES
    setting,   \* the one it is run in
    object,    \* the version each key holds at the provider; 0 is no object
    versions,  \* versions written so far
    replaced,  \* for each version, when it stopped being the current one
    now,       \* the clock
    cached,    \* the record of each key: an entry for each verb, or NoEntry
    recency,   \* the keys with a record, least recently used first
    pc,        \* where each operation is
    op,        \* the operation itself
    at,        \* the clock when a read began
    seen,      \* what a read got from the provider
    record,    \* the record a filling read got back from the store
    drop       \* the keys a landed write has still to invalidate

provider == <<object, versions, replaced>>
store == <<cached, recency>>
vars == <<setting, provider, now, store, pc, op, at, seen, record, drop>>

Reads == {"head", "url", "download"}
Writes == {"upload", "delete", "copy", "move"}
Op == [kind : Reads \cup Writes, key : Keys, to : Keys]
NoOp == [kind |-> "none"]

Infinity == MaxTime + 1
NoEntry == [value |-> 0, expiresAt |-> 0]     \* expired at any time
NoRecord == [v \in Reads |-> NoEntry]
Entry == [value : Nat, expiresAt : Nat]

HasRecord(k) == \E i \in 1 .. Len(recency) : recency[i] = k

\* The store holds records for the keys of recency, and never more than it may retain.
TypeOK ==
    /\ object \in [Keys -> 0 .. MaxWrites]
    /\ versions \in 0 .. MaxWrites
    /\ replaced \in [1 .. MaxWrites -> 0 .. Infinity]
    /\ now \in 0 .. MaxTime
    /\ cached \in [Keys -> [Reads -> Entry]]
    /\ recency \in Seq(Keys) /\ Len(recency) <= MaxEntries
    /\ \A k \in Keys : cached[k] # NoRecord => HasRecord(k)
    /\ pc \in [Threads -> {"idle", "lookup", "sent", "got", "fill", "put",
                           "writeSent", "writeLanded", "invalidate"}]
    /\ op \in [Threads -> Op \cup {NoOp}]
    /\ at \in [Threads -> 0 .. MaxTime]
    /\ seen \in [Threads -> Nat]
    /\ record \in [Threads -> [Reads -> Entry]]
    /\ drop \in [Threads -> Seq(Keys)]

Init ==
    /\ setting \in Settings
    /\ object = [k \in Keys |-> 0]
    /\ versions = 0
    /\ replaced = [v \in 1 .. MaxWrites |-> Infinity]
    /\ now = 0
    /\ cached = [k \in Keys |-> NoRecord]
    /\ recency = <<>>
    /\ pc = [t \in Threads |-> "idle"]
    /\ op = [t \in Threads |-> NoOp]
    /\ at = [t \in Threads |-> 0]
    /\ seen = [t \in Threads |-> 0]
    /\ record = [t \in Threads |-> NoRecord]
    /\ drop = [t \in Threads |-> <<>>]

Goto(t, x) == pc' = [pc EXCEPT ![t] = x]

\* The operation settles.
Done(t) ==
    /\ Goto(t, "idle")
    /\ op' = [op EXCEPT ![t] = NoOp]
    /\ at' = [at EXCEPT ![t] = 0]
    /\ seen' = [seen EXCEPT ![t] = 0]
    /\ record' = [record EXCEPT ![t] = NoRecord]

\* Slip: a move forgets the key it moved from.
InvalidatesOnlyTo(o) == IF o.kind \in {"copy", "move"} THEN <<o.to>> ELSE <<o.key>>

\* The keys a write invalidates, in order.
Invalidates(o) ==
    CASE o.kind = "move" -> <<o.key, o.to>>
      [] o.kind = "copy" -> <<o.to>>
      [] OTHER -> <<o.key>>

Touches(o) == IF o.kind \in {"copy", "move"} THEN {o.key, o.to} ELSE {o.key}

\* The caller's discipline where operations do not overlap: a key that is being
\* written has no other operation under way.
Disjoint(t, o) ==
    \A u \in Threads \ {t} :
        pc[u] # "idle" /\ Touches(op[u]) \cap Touches(o) # {}
            => {o.kind, op[u].kind} \subseteq Reads

Begin(t) ==
    /\ pc[t] = "idle"
    /\ \E o \in Op :
          /\ setting.overlap \/ Disjoint(t, o)
          /\ o.kind \notin {"copy", "move"} => o.to = o.key
          /\ op' = [op EXCEPT ![t] = o]
          /\ Goto(t, IF o.kind \in Writes THEN "writeSent"
                     ELSE IF o.kind \in Operations THEN "lookup" ELSE "sent")
    /\ at' = [at EXCEPT ![t] = now]
    /\ UNCHANGED <<provider, now, store, seen, record, drop>>

(***************************************************************************)
(* The in-memory store.                                                    *)
(***************************************************************************)
Without(k) ==
    IF HasRecord(k)
      THEN LET i == CHOOSE i \in 1 .. Len(recency) : recency[i] = k
           IN  SubSeq(recency, 1, i - 1) \o SubSeq(recency, i + 1, Len(recency))
      ELSE recency

Touch(k) == Append(Without(k), k)

\* get marks the key most recently used.
Get(k) == recency' = (IF HasRecord(k) THEN Touch(k) ELSE recency) /\ UNCHANGED cached

\* Slip: eviction begins one entry late.
SetEvictingLate(k, r) ==
    LET all  == Touch(k)
        kept == SubSeq(all, Len(all) - MaxEntries, Len(all))
    IN  IF Len(all) <= MaxEntries + 1
          THEN recency' = all /\ cached' = [cached EXCEPT ![k] = r]
          ELSE /\ recency' = kept
               /\ cached' = [x \in Keys |->
                     IF \A i \in 1 .. Len(kept) : kept[i] # x THEN NoRecord
                     ELSE IF x = k THEN r ELSE cached[x]]

\* set writes the record as the most recent one and evicts the oldest beyond
\* MaxEntries.
Set(k, r) ==
    LET all  == Touch(k)
        kept == SubSeq(all, Len(all) - MaxEntries + 1, Len(all))
    IN  IF Len(all) <= MaxEntries
          THEN recency' = all /\ cached' = [cached EXCEPT ![k] = r]
          ELSE /\ recency' = kept
               /\ cached' = [x \in Keys |->
                     IF \A i \in 1 .. Len(kept) : kept[i] # x THEN NoRecord
                     ELSE IF x = k THEN r ELSE cached[x]]

Delete(k) ==
    /\ recency' = Without(k)
    /\ cached' = [cached EXCEPT ![k] = NoRecord]

(***************************************************************************)
(* cachedHead, cachedUrl, cachedDownload.                                  *)
(***************************************************************************)

\* Slip: a url is only capped where the ttl is enabled.
ExpiryUncapped(verb, time) == IF Ttl = 0 THEN Infinity ELSE time + Ttl

\* expiryFrom: a url is not kept past its signature.
Expiry(verb, time) ==
    LET base == IF Ttl = 0 THEN Infinity ELSE time + Ttl
    IN  IF verb = "url" /\ time + Lifetime < base THEN time + Lifetime ELSE base

CachedEntry(t) == cached[op[t].key][op[t].kind]

\* The entry is there and was live when the read began.
Hit(t) ==
    /\ pc[t] = "lookup"
    /\ CachedEntry(t).expiresAt > at[t]
    /\ Get(op[t].key)
    /\ Done(t)
    /\ UNCHANGED <<provider, now, drop>>

Miss(t) ==
    /\ pc[t] = "lookup"
    /\ CachedEntry(t).expiresAt <= at[t]
    /\ Goto(t, "sent")
    /\ Get(op[t].key)
    /\ UNCHANGED <<provider, now, op, at, seen, record, drop>>

\* next(op): the provider answers; a missing object makes all but url throw.
Answer(t) ==
    /\ pc[t] = "sent"
    /\ \/ /\ op[t].kind = "url" \/ object[op[t].key] # 0
          /\ seen' = [seen EXCEPT ![t] = IF op[t].kind = "url" THEN now ELSE object[op[t].key]]
          /\ Goto(t, "got")
          /\ UNCHANGED <<op, at, record>>
       \/ op[t].kind # "url" /\ object[op[t].key] = 0 /\ Done(t)
    /\ UNCHANGED <<provider, now, store, drop>>

\* The answer is handed on; it is cached unless the verb is not, or the body of a
\* download is too large or of unknown length.
Return(t) ==
    /\ pc[t] = "got"
    /\ \/ op[t].kind \in Operations /\ Goto(t, "fill") /\ UNCHANGED <<op, at, seen, record>>
       \/ (op[t].kind \notin Operations \/ op[t].kind = "download") /\ Done(t)
    /\ UNCHANGED <<provider, now, store, drop>>

\* putRecord gets the record ...
Fill(t) ==
    /\ pc[t] = "fill"
    /\ record' = [record EXCEPT ![t] = cached[op[t].key]]
    /\ Get(op[t].key)
    /\ Goto(t, "put")
    /\ UNCHANGED <<provider, now, op, at, seen, drop>>

\* Slip: the entry's time to live starts when it is stored.
PutFromNow(t) ==
    /\ pc[t] = "put"
    /\ Set(op[t].key, [record[t] EXCEPT ![op[t].kind] =
            [value |-> seen[t], expiresAt |-> Expiry(op[t].kind, now)]])
    /\ Done(t)
    /\ UNCHANGED <<provider, now, drop>>

\* ... and sets it with the new entry, whatever happened to it in between.
Put(t) ==
    /\ pc[t] = "put"
    /\ Set(op[t].key, [record[t] EXCEPT ![op[t].kind] =
            [value |-> seen[t], expiresAt |-> Expiry(op[t].kind, at[t])]])
    /\ Done(t)
    /\ UNCHANGED <<provider, now, drop>>

(***************************************************************************)
(* upload, delete, copy, move.                                             *)
(***************************************************************************)

\* The write takes effect: a fresh version at the key it writes, no object at the
\* key it removes.
WriteLands(t) ==
    LET o == op[t]
        removed == IF o.kind = "delete" \/ (o.kind = "move" /\ o.to # o.key) THEN {o.key} ELSE {}
        written == IF o.kind = "delete" THEN {} ELSE {o.to}
    IN  /\ pc[t] = "writeSent"
        /\ o.kind \in {"copy", "move"} => object[o.key] # 0
        /\ written # {} => versions < MaxWrites
        /\ versions' = IF written = {} THEN versions ELSE versions + 1
        /\ object' = [k \in Keys |-> IF k \in removed THEN 0
                                     ELSE IF k \in written THEN versions' ELSE object[k]]
        /\ replaced' = [v \in 1 .. MaxWrites |->
                IF \E k \in removed \cup written : object[k] = v THEN now ELSE replaced[v]]
        /\ Goto(t, "writeLanded")
        /\ UNCHANGED <<now, store, op, at, seen, record, drop>>

\* The write fails, and nothing is invalidated.
WriteFails(t) ==
    /\ pc[t] = "writeSent" \/ (setting.lostReplies /\ pc[t] = "writeLanded")
    /\ Done(t)
    /\ UNCHANGED <<provider, now, store, drop>>

WriteReturns(t) ==
    /\ pc[t] = "writeLanded"
    /\ drop' = [drop EXCEPT ![t] = Invalidates(op[t])]
    /\ Goto(t, "invalidate")
    /\ UNCHANGED <<provider, now, store, op, at, seen, record>>

\* store.delete, one key after the other.
Invalidate(t) ==
    /\ pc[t] = "invalidate"
    /\ Delete(Head(drop[t]))
    /\ drop' = [drop EXCEPT ![t] = Tail(@)]
    /\ IF Len(drop[t]) = 1 THEN Done(t) ELSE UNCHANGED <<pc, op, at, seen, record>>
    /\ UNCHANGED <<provider, now>>

\* invalidateCache(), for one key or for all.
InvalidateCache ==
    /\ \/ \E k \in Keys : Delete(k)
       \/ recency' = <<>> /\ cached' = [k \in Keys |-> NoRecord]
    /\ UNCHANGED <<provider, now, pc, op, at, seen, record, drop>>

\* Time does not pass within a call of the in-memory store.
Tick ==
    /\ now < MaxTime
    /\ setting.slowStore \/ \A t \in Threads : pc[t] \notin {"lookup", "fill", "put", "invalidate"}
    /\ now' = now + 1
    /\ UNCHANGED <<provider, store, pc, op, at, seen, record, drop>>

Read(t) == Hit(t) \/ Miss(t) \/ Answer(t) \/ Return(t) \/ Fill(t) \/ Put(t)
Write(t) == WriteLands(t) \/ WriteFails(t) \/ WriteReturns(t) \/ Invalidate(t)

Next ==
    /\ Tick \/ InvalidateCache \/ \E t \in Threads : Begin(t) \/ Read(t) \/ Write(t)
    /\ UNCHANGED setting

Spec == Init /\ [][Next]_vars

(***************************************************************************)
(* Properties.                                                             *)
(***************************************************************************)

\* A hit never hands out metadata or a body other than what the provider holds.
\* True only where reads and writes of a key do not overlap and no reply is lost: a
\* read in flight across a write fills the record after the write invalidated it.
Disciplined == ~setting.overlap /\ ~setting.lostReplies
HitsAreFresh ==
    [][\A t \in Threads :
          Disciplined /\ Hit(t) /\ op[t].kind # "url" => CachedEntry(t).value = object[op[t].key]]_vars

\* In any case, a live entry is the current version or was replaced within the
\* last Ttl: the time to live bounds the staleness, however slow the read that
\* filled it, whatever raced with it, and whichever record it was merged into.
StalenessBounded ==
    Ttl > 0 =>
        \A k \in Keys, v \in Reads \ {"url"} :
            LET e == cached[k][v]
            IN  e.expiresAt > now => e.value = object[k] \/ replaced[e.value] > now - Ttl

\* A url from the in-memory store is handed out before its signature ends. (A store
\* that takes time to answer is given an expiry judged by the clock read before.)
HitUrlsAreValid ==
    [][\A t \in Threads :
          ~setting.slowStore /\ Hit(t) /\ op[t].kind = "url" => now < CachedEntry(t).value + Lifetime]_vars
=============================================================================
