------------------------------ MODULE Tiering ------------------------------
(***************************************************************************)
(* The tiering plugin, tiering/index.ts: a hot and a cold tier behind one  *)
(* set of operations.  A caller changes keys one call at a time, a reader  *)
(* reads them meanwhile, and the merged listing (TieredList) is walked     *)
(* beside both.                                                            *)
(*                                                                         *)
(* With `fallback` a key may be in either tier.  What a write promises is  *)
(* kept in `may`: the versions a read of the key may find, one of them     *)
(* unless the last calls that changed it failed.                           *)
(***************************************************************************)
EXTENDS TieredList

CONSTANTS
    MaxCalls,     \* bound: the caller's calls
    MaxReads      \* bound: the reader's calls

ASSUME CallsAssumption == MaxCalls \in Nat
ASSUME ReadsAssumption == MaxReads \in Nat

VARIABLES
    fallback,     \* the option: "on" or "off"
    route,        \* route[k]: the tier route() names for k, without a size
    (* the caller's call *)
    pc, op, from, to,
    src, dst,     \* the tiers it reads from and writes to
    version,      \* what it writes
    calls,
    (* the reader's call *)
    rpc, rkey, answer,
    reads,
    (* history *)
    may,          \* may[k]: the versions a read of k may find
    torn,         \* the keys that a failed call may have left in two tiers
    possible      \* what the read under way may find, at some moment of it

setup      == <<fallback, route>>
callVars   == <<pc, op, from, to, src, dst, version, calls>>
readerVars == <<rpc, rkey, answer, reads>>
tierVars   == <<stored, touched, grown>>
history    == <<may, torn, possible>>
vars       == <<setup, callVars, readerVars, history, tierVars, listVars>>

\* Versions 1 and 2 are what the tiers hold at first, the others are uploaded.
Version == 0 .. MaxCalls + 2

Pc == {"idle", "writing", "evicting", "deletingHot", "deletingCold", "deletingRouted",
       "locating", "locatingOther", "copying", "removing", "returning"}
Op == {"upload", "delete", "copy", "move", "tier"}

TypeOK ==
    /\ ListTypeOK
    /\ stored \in [Tier -> [Keys -> Version]]
    /\ fallback \in {"on", "off"} /\ route \in [Keys -> Tier]
    /\ pc \in Pc /\ op \in Op /\ from \in Keys /\ to \in Keys
    /\ src \in Tier /\ dst \in Tier /\ version \in Version /\ calls \in 0 .. MaxCalls
    /\ rpc \in {"idle", "first", "second", "done"} /\ rkey \in Keys
    /\ answer \in Version /\ reads \in 0 .. MaxReads
    /\ may \in [Keys -> SUBSET Version] /\ torn \subseteq Keys
    /\ possible \subseteq Version

\* Where reads of k look: without fallback in one tier only.
Seen(k) == IF fallback = "on" THEN Tier ELSE {route[k]}

Copies(k) == {stored[t][k] : t \in Seen(k)} \ {Nothing}
Findable(k) == IF Copies(k) = {} THEN {Nothing} ELSE Copies(k)

\* Any key may be in any tier: earlier calls may have failed half-way.
Init ==
    /\ ListInit
    /\ \E in \in [Tier -> SUBSET Keys] :
          stored = [t \in Tier |-> [k \in Keys |->
                      IF k \notin in[t] THEN Nothing ELSE IF t = "hot" THEN 1 ELSE 2]]
    /\ fallback \in {"on", "off"} /\ route \in [Keys -> Tier]
    /\ pc = "idle" /\ op = "upload" /\ from = 1 /\ to = 1
    /\ src = "hot" /\ dst = "hot" /\ version = Nothing /\ calls \in 0 .. MaxCalls
    /\ rpc = "idle" /\ rkey = 1 /\ answer = Nothing /\ reads \in 0 .. MaxReads
    /\ may = [k \in Keys |-> Findable(k)]
    /\ torn = {k \in Keys : \A t \in Tier : stored[t][k] # Nothing}
    /\ possible = {}

(***************************************************************************)
(* The calls that change something.                                        *)
(***************************************************************************)

CallsOnly == UNCHANGED <<setup, readerVars, listVars>>

Begins(o, f, t, d) ==
    /\ pc = "idle" /\ calls < MaxCalls
    /\ calls' = calls + 1
    /\ op' = o /\ from' = f /\ to' = t /\ dst' = d
    /\ CallsOnly /\ UNCHANGED <<history, tierVars>>

\* route() sees the size of the body here, which reads do not know: with fallback
\* the tier may be any.  Without it, it has to depend on the key alone.
BeginUpload(k, t) ==
    /\ fallback = "off" => t = route[k]
    /\ Begins("upload", k, k, t)
    /\ pc' = "writing" /\ version' = calls + 3
    /\ UNCHANGED src

BeginDelete(k) ==
    /\ Begins("delete", k, k, route[k])
    /\ pc' = IF fallback = "on" THEN "deletingHot" ELSE "deletingRouted"
    /\ UNCHANGED <<src, version>>

\* copyOrMove(): the source is looked for, the destination is where its key goes.
BeginCopyOrMove(o, f, t) ==
    /\ o \in {"copy", "move"}
    /\ Begins(o, f, t, route[t])
    /\ pc' = IF fallback = "on" THEN "locating" ELSE "copying"
    /\ src' = route[f]
    /\ UNCHANGED version

\* tier(): what it moves away from its route is found with fallback only.
BeginTier(k, target) ==
    /\ fallback = "on"
    /\ Begins("tier", k, k, target)
    /\ pc' = "locating"
    /\ src' = route[k]
    /\ UNCHANGED version

\* locate(), the routed tier first and then the other.  tier() has nothing to do
\* when that is its target, and gives up when there is none; copyOrMove() goes on
\* with the route and lets the adapter fail.
Found(t) ==
    /\ src' = t
    /\ pc' = IF op = "tier" /\ t = dst THEN "returning" ELSE "copying"

LocateOnly == CallsOnly /\ UNCHANGED <<op, from, to, dst, version, calls, history, tierVars>>

Locate ==
    /\ pc = "locating"
    /\ IF stored[src][from] # Nothing
         THEN Found(src)
         ELSE pc' = "locatingOther" /\ UNCHANGED src
    /\ LocateOnly

\* Slip: a source that is nowhere is looked for in no tier.
LocateOtherNowhere ==
    /\ pc = "locatingOther"
    /\ IF stored[Other(src)][from] # Nothing THEN Found(Other(src))
                                            ELSE op # "tier" /\ Found("none")
    /\ LocateOnly

LocateOther ==
    /\ pc = "locatingOther"
    /\ IF stored[Other(src)][from] # Nothing THEN Found(Other(src))
                                            ELSE op # "tier" /\ Found(src)
    /\ LocateOnly

\* A version appears in a tier.
Write(t, k, v) ==
    /\ Put(t, k, v)
    /\ may' = [may EXCEPT ![k] = @ \cup {v}]
    /\ possible' = IF k = rkey THEN possible \cup {v} ELSE possible
    /\ UNCHANGED torn

\* One disappears from a tier, and a read that has been to the other one already
\* misses both; `now` is what reads may find from now on.
Erase(t, k, now) ==
    /\ Remove(t, k)
    /\ may' = [may EXCEPT ![k] = @ \cup now]
    /\ possible' = IF k = rkey THEN possible \cup {Nothing} ELSE possible
    /\ UNCHANGED torn

Goes(to_) ==
    /\ pc' = to_
    /\ CallsOnly /\ UNCHANGED <<op, from, to, src, dst, calls>>

\* Slip: the other tier keeps its copy.
EvictedNever == "returning"

\* With fallback the destination's copy in the other tier goes last.
Evicted == IF fallback = "on" THEN "evicting" ELSE "returning"

UploadLands ==
    /\ pc = "writing"
    /\ Write(dst, to, version)
    /\ Goes(Evicted) /\ UNCHANGED version

\* The adapter's own copy or move, or a transfer from one tier to the other: only
\* this caller writes, so what it downloads is what it uploads.
CopyLands ==
    /\ pc = "copying" /\ stored[src][from] # Nothing
    /\ version' = stored[src][from]
    /\ Write(dst, to, version')
    /\ Goes(IF op \in {"move", "tier"} /\ <<src, from>> # <<dst, to>> THEN "removing" ELSE Evicted)

RemoveSource ==
    /\ pc = "removing"
    /\ Erase(src, from, IF op = "move" /\ from # to THEN {Nothing} ELSE {})
    /\ Goes(IF op = "move" THEN Evicted ELSE "returning") /\ UNCHANGED version

Evict ==
    /\ pc = "evicting"
    /\ Erase(Other(dst), to, {})
    /\ Goes("returning") /\ UNCHANGED version

DeleteHot ==
    /\ pc = "deletingHot"
    /\ Erase("hot", to, {Nothing})
    /\ Goes("deletingCold") /\ UNCHANGED version

DeleteCold ==
    /\ pc = "deletingCold"
    /\ Erase("cold", to, {Nothing})
    /\ Goes("returning") /\ UNCHANGED version

DeleteRouted ==
    /\ pc = "deletingRouted"
    /\ Erase(dst, to, {Nothing})
    /\ Goes("returning") /\ UNCHANGED version

\* What a call that resolved has promised of its keys.
NothingToDo == op = "tier" /\ src = dst

Promised(k) ==
    IF NothingToDo THEN may[k]
    ELSE IF k = to THEN {IF op = "delete" THEN Nothing ELSE version}
    ELSE IF op = "move" /\ k = from /\ from \notin torn THEN {Nothing}
    ELSE may[k]

Return ==
    /\ pc = "returning"
    /\ may' = [k \in Keys |-> Promised(k)]
    /\ torn' = IF NothingToDo THEN torn ELSE torn \ {to}
    /\ Goes("idle") /\ UNCHANGED <<version, possible, tierVars>>

\* The call has changed something, and something is left to do or to hear.
HalfWay == pc \in {"evicting", "removing", "deletingCold", "returning"}

\* A tier refuses or does not answer, or there is no source.
CallFails ==
    /\ pc # "idle"
    /\ torn' = IF HalfWay THEN torn \cup {to} \cup (IF op = "move" THEN {from} ELSE {}) ELSE torn
    /\ Goes("idle") /\ UNCHANGED <<version, may, possible, tierVars>>

(***************************************************************************)
(* download, head, url, exists and tierOf.                                 *)
(***************************************************************************)

ReadOnly == UNCHANGED <<setup, callVars, tierVars, listVars, may, torn>>

BeginRead(k) ==
    /\ rpc \in {"idle", "done"} /\ reads < MaxReads
    /\ reads' = reads + 1
    /\ rpc' = "first" /\ rkey' = k /\ answer' = Nothing
    /\ possible' = may[k]
    /\ ReadOnly

\* Slip: a miss in the routed tier is final.
FallsThroughNever == FALSE

FallsThrough == fallback = "on"

Answers(v) == rpc' = "done" /\ answer' = v

ReadFirst ==
    /\ rpc = "first"
    /\ LET v == stored[route[rkey]][rkey]
       IN IF v = Nothing /\ FallsThrough
            THEN rpc' = "second" /\ UNCHANGED answer
            ELSE Answers(v)
    /\ ReadOnly /\ UNCHANGED <<rkey, reads, possible>>

ReadSecond ==
    /\ rpc = "second"
    /\ Answers(stored[Other(route[rkey])][rkey])
    /\ ReadOnly /\ UNCHANGED <<rkey, reads, possible>>

(***************************************************************************)
(* The specification.                                                      *)
(***************************************************************************)

Begin ==
    \/ \E k \in Keys, t \in Tier : BeginUpload(k, t) \/ BeginTier(k, t)
    \/ \E k \in Keys : BeginDelete(k)
    \/ \E f, t \in Keys, o \in Op : BeginCopyOrMove(o, f, t)

Change ==
    \/ UploadLands \/ CopyLands \/ RemoveSource \/ Evict
    \/ DeleteHot \/ DeleteCold \/ DeleteRouted

Read == (\E k \in Keys : BeginRead(k)) \/ ReadFirst \/ ReadSecond

Lists ==
    /\ StartListing \/ ListStep \/ FetchFails
    /\ UNCHANGED <<setup, callVars, readerVars, history>>

Next == Begin \/ Locate \/ LocateOther \/ Change \/ Return \/ CallFails \/ Read \/ Lists

Spec == Init /\ [][Next]_vars

\* Every tier answers a page sooner or later, and the walk goes on; of the calls
\* beside it nothing is assumed.
Fairness == WF_vars(ListStep /\ UNCHANGED <<setup, callVars, readerVars, history>>)

FairSpec == Spec /\ Fairness

(***************************************************************************)
(* Properties.                                                             *)
(***************************************************************************)

\* With fallback a key has exactly one copy, that of the last write, once the
\* last call that changed it has resolved; without it the other tier is not seen.
Busy(k) == pc # "idle" /\ k \in {from, to}

OneCopy ==
    fallback = "on" => \A k \in Keys \ torn :
        ~Busy(k) => \E v \in Version :
            /\ may[k] = {v}
            /\ \A t \in Tier : stored[t][k] \in {v, Nothing}
            /\ v # Nothing => stored["hot"][k] # stored["cold"][k]

\* A read finds what was last written, or what a failed call may have written; it
\* misses only what may be gone, or what changed tiers while it looked.
ReadIsCurrent == rpc = "done" => answer \in possible
=============================================================================
