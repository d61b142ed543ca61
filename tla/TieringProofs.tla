--------------------------- MODULE TieringProofs ---------------------------
(***************************************************************************)
(* Theorems about TieredList and Tiering, for any number of keys, calls,   *)
(* reads and refusals.                                                     *)
(***************************************************************************)
EXTENDS Tiering, Sequences, TLAPS, WellFoundedInduction

(***************************************************************************)
(* The invariant of the listing.                                           *)
(***************************************************************************)

\* How far tier t has been listed: all of it once it has no slot.
Passed(t, k) == ~InPlay(t) \/ k <= slot[t].cursor \/ k <= slot[t].skip

\* Where a page ends.
Reaches(t, k) == page[t].next = NoMore \/ k <= page[t].next

Stages ==
    /\ listing = "idle" => /\ slot = [t \in Tier |-> Top] /\ listed = {}
    /\ listing # "calling" => page = [t \in Tier |-> Unfetched]
    /\ listing = "done" => \A t \in Tier : ~InPlay(t)

\* A page holds what the tier had in its stretch, except for what was written since.
PagesTrue ==
    \A t \in Tier :
        /\ Fetched(t) =>
              /\ InPlay(t) /\ page[t].asked = slot[t].cursor
              /\ page[t].next # NoMore => page[t].next > slot[t].cursor
              /\ \A k \in page[t].items : ~Passed(t, k) /\ Reaches(t, k)
              /\ \A k \in Keys \ touched :
                    k \in page[t].items <=>
                        stored[t][k] # Nothing /\ ~Passed(t, k) /\ Reaches(t, k)
        /\ ~Fetched(t) => page[t] = Unfetched

\* What was passed was listed, and what is listed is stored.
Covered ==
    \A t \in Tier, k \in Keys \ touched :
        stored[t][k] # Nothing /\ Passed(t, k) =>
            \E e \in listed : e.key = k /\ (t = "hot" => e.tier = "hot")

ListedTrue == \A e \in listed : e.key \notin touched => stored[e.tier][e.key] # Nothing

\* While no entry comes, every tier has been passed as far as the last listed key.
InStep ==
    grown = "no" =>
        /\ \A e \in listed, t \in Tier : Passed(t, e.key)
        /\ \A t \in Tier : Fetched(t) => Reaches(t, slot[t].skip)

EarlierRounds == \A e \in listed : e.round < round

ListInv ==
    /\ ListTypeOK /\ stored \in [Tier -> [Keys -> Version]]
    /\ Stages /\ PagesTrue /\ Covered /\ ListedTrue /\ InStep /\ EarlierRounds /\ ListedOnce

(***************************************************************************)
(* The invariant of the calls and of the reads.                            *)
(***************************************************************************)

\* OneCopy of one key.
Single(k) ==
    \E v \in Version :
        /\ may[k] = {v}
        /\ \A t \in Tier : stored[t][k] \in {v, Nothing}
        /\ v # Nothing => stored["hot"][k] # stored["cold"][k]

\* The keys that the call under way has begun to change.
Changing(k) == HalfWay /\ ~NothingToDo /\ (k = to \/ (op = "move" /\ k = from))

Settled == fallback = "on" => \A k \in Keys \ torn : ~Changing(k) => Single(k)

Gone(k) == \A t \in Seen(k) : stored[t][k] = Nothing

\* Where in the code the call is.
CallAt ==
    /\ pc \in {"locating", "locatingOther", "evicting", "deletingHot", "deletingCold"}
          => fallback = "on"
    /\ pc \in {"locating", "locatingOther", "copying", "removing"}
          => op \in {"copy", "move", "tier"}
    /\ pc = "removing" => op # "copy" /\ <<src, from>> # <<dst, to>>
    /\ pc = "evicting" => op \in {"upload", "copy", "move"}
    /\ pc \in {"deletingHot", "deletingCold"} => op = "delete"
    /\ pc = "deletingRouted" => op = "delete" /\ fallback = "off"
    /\ pc = "writing" => op = "upload" /\ version # Nothing
    /\ pc # "idle" /\ op \in {"upload", "delete", "tier"} => from = to
    /\ pc # "idle" /\ op = "tier" => fallback = "on"
    /\ pc \in {"copying", "removing"} /\ op = "tier" => src # dst
    /\ pc # "idle" /\ fallback = "off" =>
          dst = route[to] /\ (op \in {"copy", "move"} => src = route[from])

\* How far it has got.
CallDone ==
    /\ pc \in {"removing", "evicting"} \/ (pc = "returning" /\ op # "delete" /\ ~NothingToDo)
          => stored[dst][to] = version /\ version # Nothing
    /\ pc = "returning" /\ op # "delete" /\ ~NothingToDo /\ fallback = "on"
          => stored[Other(dst)][to] = Nothing
    /\ pc = "deletingCold" => stored["hot"][to] = Nothing
    /\ pc = "returning" /\ op = "delete" => Gone(to)
    /\ pc = "removing" /\ op = "move" /\ from # to /\ from \notin torn
          => \A t \in Seen(from) \ {src} : stored[t][from] = Nothing
    /\ pc \in {"evicting", "returning"} /\ op = "move" /\ from # to /\ from \notin torn
          => Gone(from)

MayCovers == \A k \in Keys : Findable(k) \subseteq may[k]

ReadFinds ==
    /\ rpc = "first" => Findable(rkey) \subseteq possible
    /\ rpc = "second" => /\ stored[Other(route[rkey])][rkey] \in possible
                         /\ fallback = "on"
    /\ ReadIsCurrent

\* The types of TypeOK that ListInv does not state.
CallTypes ==
    /\ fallback \in {"on", "off"} /\ route \in [Keys -> Tier]
    /\ pc \in Pc /\ op \in Op /\ from \in Keys /\ to \in Keys
    /\ src \in Tier /\ dst \in Tier /\ version \in Version /\ calls \in 0 .. MaxCalls
    /\ rpc \in {"idle", "first", "second", "done"} /\ rkey \in Keys
    /\ answer \in Version /\ reads \in 0 .. MaxReads
    /\ may \in [Keys -> SUBSET Version] /\ torn \subseteq Keys
    /\ possible \subseteq Version

CallInv == CallTypes /\ Settled /\ CallAt /\ CallDone /\ MayCovers /\ ReadFinds

IInv == ListInv /\ CallInv

(***************************************************************************)
(* Least and greatest elements.                                            *)
(***************************************************************************)

LEMMA LeastOfNat ==
    ASSUME NEW S, S \subseteq Nat, S # {}
    PROVE  \E x \in S : \A y \in S : x <= y
<1>1. PICK x \in S : \A y \in S : <<y, x>> \notin OpToRel(<, Nat)
  BY WFMin, NatLessThanWellFounded
<1>2. \A y \in S : ~(y < x)
  BY <1>1 DEF OpToRel
<1>3. QED
  BY <1>2

LEMMA LeastKey ==
    ASSUME NEW S, S \subseteq Keys, S # {}
    PROVE  Min(S) \in S /\ \A y \in S : Min(S) <= y
<1>1. S \subseteq Nat
  BY LastKeyAssumption DEF Keys
<1>2. PICK x \in S : \A y \in S : x <= y
  BY <1>1, LeastOfNat
<1>3. QED
  BY <1>2 DEF Min

LEMMA GreatestKey ==
    ASSUME NEW S, S \subseteq Keys, S # {}
    PROVE  Max(S) \in S /\ \A y \in S : Max(S) >= y
<1> DEFINE Rest == {LastKey - k : k \in S}
<1>1. Rest \subseteq Nat /\ Rest # {}
  BY LastKeyAssumption DEF Keys
<1>2. PICK r \in Rest : \A q \in Rest : r <= q
  BY <1>1, LeastOfNat
<1>3. PICK x \in S : r = LastKey - x
  BY <1>2
<1>4. \A y \in S : x >= y
  BY <1>2, <1>3, LastKeyAssumption DEF Keys
<1>5. QED
  BY <1>4 DEF Max

(***************************************************************************)
(* The steps of the listing.                                               *)
(***************************************************************************)

LEMMA ListInitHolds == Init => ListInv
<1> SUFFICES ASSUME Init PROVE ListInv
  OBVIOUS
<1>1. ListInit
  BY DEF Init
<1>2. stored \in [Tier -> [Keys -> Version]]
  <2>1. PICK in \in [Tier -> SUBSET Keys] :
           stored = [t \in Tier |-> [k \in Keys |->
                       IF k \notin in[t] THEN Nothing ELSE IF t = "hot" THEN 1 ELSE 2]]
    BY DEF Init
  <2>2. QED
    BY <2>1, CallsAssumption DEF Version, Nothing
<1>3. ListTypeOK
  BY <1>1, LastKeyAssumption, RefusalsAssumption
     DEF ListInit, ListTypeOK, Slot, Page, Top, Unfetched, NoMore, Keys
<1>4. Stages /\ EarlierRounds /\ ListedOnce /\ ListedTrue
  BY <1>1 DEF ListInit, Stages, EarlierRounds, ListedOnce, ListedTrue
<1>5. PagesTrue
  BY <1>1 DEF ListInit, PagesTrue, Fetched, Unfetched
<1>6. Covered
  BY <1>1, LastKeyAssumption DEF ListInit, Covered, Passed, InPlay, Top, Keys
<1>7. InStep
  BY <1>1 DEF ListInit, InStep, Fetched, Unfetched
<1>8. QED
  BY <1>2, <1>3, <1>4, <1>5, <1>6, <1>7 DEF ListInv

LEMMA ListFrame ==
    ASSUME ListInv, UNCHANGED <<tierVars, listVars>>
    PROVE  ListInv'
BY DEF ListInv, tierVars, listVars, ListTypeOK, Stages, PagesTrue, Covered, ListedTrue,
       InStep, EarlierRounds, ListedOnce, Passed, Reaches, InPlay, Fetched

\* A write of one key, whatever it does to the tiers.
LEMMA ListTouch ==
    ASSUME ListInv, UNCHANGED listVars, NEW key \in Keys,
           stored' \in [Tier -> [Keys -> Version]],
           touched' = touched \cup {key},
           \A t \in Tier, k \in Keys \ {key} : stored'[t][k] = stored[t][k],
           grown' \in {"yes", "no"}, grown' = "no" => grown = "no"
    PROVE  ListInv'
<1> USE DEF ListInv, listVars
<1>1. ListTypeOK'
  BY DEF ListTypeOK
<1>2. Stages' /\ EarlierRounds'
  BY DEF Stages, EarlierRounds, InPlay
<1>3. PagesTrue'
  BY DEF PagesTrue, Passed, Reaches, InPlay, Fetched
<1>4. Covered'
  BY DEF Covered, Passed, InPlay
<1>5. ListedTrue'
  <2> SUFFICES ASSUME NEW e \in listed, e.key \notin touched'
               PROVE  stored'[e.tier][e.key] # Nothing
    BY DEF ListedTrue
  <2>1. e.tier \in Tier /\ e.key \in Keys \ {key} /\ e.key \notin touched
    BY DEF ListTypeOK
  <2>2. QED
    BY <2>1 DEF ListedTrue
<1>6. InStep' /\ ListedOnce'
  BY DEF InStep, ListedOnce, Passed, Reaches, InPlay, Fetched
<1>7. QED
  BY <1>1, <1>2, <1>3, <1>4, <1>5, <1>6

LEMMA ListPut ==
    ASSUME ListInv, UNCHANGED listVars,
           NEW t \in Tier, NEW k \in Keys, NEW v \in Version, Put(t, k, v)
    PROVE  ListInv'
<1>1. stored' = [stored EXCEPT ![t][k] = v] /\ touched' = touched \cup {k}
  BY DEF Put
<1>2. grown \in {"yes", "no"} /\ stored \in [Tier -> [Keys -> Version]]
  BY DEF ListInv, ListTypeOK
<1>3. grown' \in {"yes", "no"} /\ (grown' = "no" => grown = "no")
  BY <1>2 DEF Put
<1>4. QED
  BY <1>1, <1>2, <1>3, ListTouch

LEMMA ListRemove ==
    ASSUME ListInv, UNCHANGED listVars, NEW t \in Tier, NEW k \in Keys, Remove(t, k)
    PROVE  ListInv'
<1>1. stored' = [stored EXCEPT ![t][k] = Nothing] /\ touched' = touched \cup {k}
  BY DEF Remove
<1>2. grown \in {"yes", "no"} /\ stored \in [Tier -> [Keys -> Version]]
  BY DEF ListInv, ListTypeOK
<1>3. Nothing \in Version
  BY CallsAssumption DEF Nothing, Version
<1>4. grown' = grown
  BY DEF Remove
<1>5. QED
  BY <1>1, <1>2, <1>3, <1>4, ListTouch

LEMMA ListStarts ==
    ASSUME ListInv, StartListing
    PROVE  ListInv'
<1> USE DEF ListInv, StartListing
<1>1. slot = [t \in Tier |-> Top] /\ listed = {} /\ page = [t \in Tier |-> Unfetched]
  BY DEF Stages
<1>2. \A t \in Tier : ~Fetched(t) /\ InPlay(t) /\ slot[t].cursor = 0 /\ slot[t].skip = 0
  BY <1>1 DEF Fetched, Unfetched, InPlay, Top
<1>3. ListTypeOK' /\ Stages'
  BY <1>1 DEF ListTypeOK, Stages
<1>4. PagesTrue' /\ InStep'
  BY <1>1, <1>2 DEF PagesTrue, InStep, Fetched
<1>5. Covered'
  BY <1>2, LastKeyAssumption DEF Covered, Passed, InPlay, Keys
<1>6. ListedTrue' /\ EarlierRounds' /\ ListedOnce' /\ stored' \in [Tier -> [Keys -> Version]]
  BY <1>1 DEF ListedTrue, EarlierRounds, ListedOnce
<1>7. QED
  BY <1>3, <1>4, <1>5, <1>6

LEMMA ListFetches ==
    ASSUME ListInv, NEW t \in Tier, NEW upTo \in Keys, FetchPage(t, upTo)
    PROVE  ListInv'
<1> USE DEF ListInv
<1>1. /\ listing = "calling" /\ InPlay(t) /\ upTo > slot[t].cursor
      /\ upTo < slot[t].skip => grown = "yes"
      /\ UNCHANGED <<stored, listing, slot, listed, round, refusals, touched, grown>>
  BY DEF FetchPage
<1>2. /\ slot[t] \in Slot /\ slot[t].cursor \in -1 .. LastKey /\ slot[t].skip \in 0 .. LastKey
      /\ page \in [Tier -> Page]
  BY DEF ListTypeOK, Slot
<1>3. PICK next : next = IF upTo = LastKey THEN NoMore ELSE upTo
  OBVIOUS
<1>4. PICK items : items = {k \in Keys : stored[t][k] # Nothing /\ slot[t].cursor < k /\ k <= upTo
                                            /\ k > slot[t].skip}
  OBVIOUS
<1>5. page' = [page EXCEPT ![t] = [asked |-> slot[t].cursor, items |-> items, next |-> next]]
  BY <1>3, <1>4 DEF FetchPage
<1>6. page'[t] = [asked |-> slot[t].cursor, items |-> items, next |-> next]
  BY <1>2, <1>5
<1>7. page'[t] \in Page
  BY <1>2, <1>3, <1>4, <1>6, LastKeyAssumption DEF Page, NoMore, Keys
<1>8. \A u \in Tier \ {t} : page'[u] = page[u]
  BY <1>2, <1>5
<1>9. ListTypeOK' /\ page' \in [Tier -> Page]
  BY <1>1, <1>2, <1>5, <1>7 DEF ListTypeOK
<1>10. Stages' /\ EarlierRounds' /\ ListedOnce' /\ ListedTrue'
  BY <1>1 DEF Stages, EarlierRounds, ListedOnce, ListedTrue, InPlay
<1>11. Covered'
  BY <1>1 DEF Covered, Passed, InPlay
<1>12. PagesTrue'
  <2>1. ASSUME NEW u \in Tier, u # t
        PROVE  /\ Fetched(u)' =>
                     /\ InPlay(u)' /\ page'[u].asked = slot'[u].cursor
                     /\ page'[u].next # NoMore => page'[u].next > slot'[u].cursor
                     /\ \A k \in page'[u].items : ~Passed(u, k)' /\ Reaches(u, k)'
                     /\ \A k \in Keys \ touched' :
                           k \in page'[u].items <=>
                               stored'[u][k] # Nothing /\ ~Passed(u, k)' /\ Reaches(u, k)'
               /\ ~Fetched(u)' => page'[u] = Unfetched
    BY <2>1, <1>1, <1>8 DEF PagesTrue, Fetched, InPlay, Passed, Reaches
  <2>2. Fetched(t)' /\ InPlay(t)' /\ page'[t].asked = slot'[t].cursor
    BY <1>1, <1>6 DEF Fetched, InPlay
  <2>3. page'[t].next # NoMore => page'[t].next > slot'[t].cursor
    BY <1>1, <1>3, <1>6
  <2>4. \A k \in Keys : Reaches(t, k)' <=> k <= upTo
    BY <1>3, <1>6, LastKeyAssumption DEF Reaches, NoMore, Keys
  <2>5. \A k \in Keys : ~Passed(t, k)' <=> (slot[t].cursor < k /\ k > slot[t].skip)
    <3>1. \A k \in Keys : Passed(t, k)' <=> (k <= slot[t].cursor \/ k <= slot[t].skip)
      BY <1>1, <2>2 DEF Passed
    <3>2. \A k \in Keys, i \in Int : ~(k <= i) <=> i < k
      BY LastKeyAssumption DEF Keys
    <3>3. QED
      BY <3>1, <3>2, <1>2, LastKeyAssumption DEF Keys
  <2>6. \A k \in Keys : k \in page'[t].items <=>
              stored'[t][k] # Nothing /\ ~Passed(t, k)' /\ Reaches(t, k)'
    <3>1. page'[t].items = items /\ stored' = stored
      BY <1>1, <1>6
    <3>2. QED
      BY <3>1, <1>4, <2>4, <2>5
  <2>7. \A k \in page'[t].items : ~Passed(t, k)' /\ Reaches(t, k)'
    BY <1>4, <1>6, <2>6
  <2>8. QED
    BY <2>1, <2>2, <2>3, <2>6, <2>7 DEF PagesTrue
<1>13. InStep'
  <2>1. ASSUME grown' = "no", NEW u \in Tier, Fetched(u)'
        PROVE  Reaches(u, slot[u].skip)'
    <3>1. CASE u = t
      BY <3>1, <2>1, <1>1, <1>2, <1>3, <1>6, LastKeyAssumption DEF Reaches, Keys
    <3>2. CASE u # t
      BY <3>2, <2>1, <1>1, <1>8 DEF InStep, Fetched, Reaches
    <3>3. QED
      BY <3>1, <3>2
  <2>2. QED
    BY <2>1, <1>1 DEF InStep, Passed, InPlay
<1>14. QED
  BY <1>1, <1>9, <1>10, <1>11, <1>12, <1>13

LEMMA ListFetchFails ==
    ASSUME ListInv, FetchFails
    PROVE  ListInv'
<1> USE DEF ListInv, FetchFails
<1>1. \A t \in Tier : page'[t] = Unfetched /\ ~Fetched(t)'
  BY DEF Fetched, Unfetched
<1>2. Unfetched \in Page
  BY LastKeyAssumption DEF Unfetched, Page, NoMore
<1>3. ListTypeOK'
  BY <1>2, RefusalsAssumption DEF ListTypeOK
<1>4. Stages' /\ EarlierRounds' /\ ListedOnce' /\ ListedTrue'
  BY DEF Stages, EarlierRounds, ListedOnce, ListedTrue, InPlay
<1>5. PagesTrue' /\ Covered' /\ InStep'
  BY <1>1 DEF PagesTrue, Covered, InStep, Passed, InPlay
<1>6. QED
  BY <1>3, <1>4, <1>5

\* The bound is an entry of a page that has a continuation, and none of these pages
\* ends before it.
LEMMA BoundIsEntry ==
    ASSUME ListInv, ~EmitNone, ~EmitAll
    PROVE  /\ Bound \in Keys
           /\ \E u \in Continued : Bound \in page[u].items
           /\ \A u \in Continued : \E k \in page[u].items : Bound <= k
<1>1. \A u \in Continued : page[u].items \subseteq Keys /\ page[u].items # {}
  BY DEF EmitNone, Continued, ListInv, ListTypeOK, Page
<1>2. \A u \in Continued : PageMax(u) \in page[u].items
  BY <1>1, GreatestKey DEF PageMax
<1> DEFINE Ends == {PageMax(u) : u \in Continued}
<1>3. Ends \subseteq Keys /\ Ends # {}
  BY <1>1, <1>2 DEF EmitAll
<1>4. Min(Ends) \in Ends /\ \A y \in Ends : Min(Ends) <= y
  BY <1>3, LeastKey
<1>5. Bound = Min(Ends)
  BY DEF Bound
<1>6. QED
  BY <1>1, <1>2, <1>3, <1>4, <1>5

\* What becomes of a tier's slot when the pages are merged.
LEMMA MergeCases ==
    ASSUME ListInv, Merge, NEW t \in Tier
    PROVE  \/ ~InPlay(t) /\ page[t].items = {} /\ Emitted(t) = {} /\ slot'[t] = Drained
           \/ /\ Fetched(t) /\ EmitNone /\ Emitted(t) = {}
              /\ slot'[t] = [cursor |-> slot[t].cursor, skip |-> slot[t].skip]
           \/ /\ Fetched(t) /\ ~EmitNone /\ ~EmitAll
              /\ Emitted(t) = {k \in page[t].items : k <= Bound}
              /\ \E k \in page[t].items : ~(k <= Bound)
              /\ slot'[t] = [cursor |-> slot[t].cursor, skip |-> Bound]
           \/ /\ Fetched(t) /\ Emitted(t) = page[t].items /\ page[t].next = NoMore
              /\ slot'[t] = Drained
           \/ /\ Fetched(t) /\ Emitted(t) = page[t].items /\ page[t].next # NoMore
              /\ slot'[t] = [cursor |-> page[t].next, skip |-> 0]
<1>1. slot'[t] = NextSlot(t) /\ (InPlay(t) => Fetched(t))
  BY DEF Merge
<1>2. Fetched(t) => InPlay(t) /\ page[t].asked = slot[t].cursor
  BY DEF ListInv, PagesTrue
<1>3. ~Fetched(t) => page[t].items = {}
  BY DEF ListInv, PagesTrue, Unfetched
<1>4. CASE ~InPlay(t)
  BY <1>1, <1>2, <1>3, <1>4 DEF NextSlot, Emitted
<1>5. CASE InPlay(t) /\ ~Held(t)
  BY <1>1, <1>5 DEF NextSlot, Held
<1>6. CASE InPlay(t) /\ Held(t) /\ EmitNone
  BY <1>1, <1>2, <1>6 DEF NextSlot, Emitted
<1>7. CASE InPlay(t) /\ Held(t) /\ ~EmitNone
  <2>1. ~EmitAll /\ Emitted(t) = {k \in page[t].items : k <= Bound}
    BY <1>7 DEF Held, Emitted
  <2>2. \E k \in page[t].items : ~(k <= Bound)
    BY <1>7, <2>1 DEF Held
  <2>3. QED
    BY <1>1, <1>2, <1>7, <2>1, <2>2 DEF NextSlot
<1>8. QED
  BY <1>4, <1>5, <1>6, <1>7

LEMMA EmittedFromPage ==
    ASSUME NEW t \in Tier
    PROVE  Emitted(t) \subseteq page[t].items
BY DEF Emitted

LEMMA MergeTyped ==
    ASSUME ListInv, Merge
    PROVE  ListTypeOK' /\ Stages' /\ PagesTrue'
<1> USE DEF ListInv, Merge
<1>1. Unfetched \in Page
  BY LastKeyAssumption DEF Unfetched, Page, NoMore
<1>2. \A t \in Tier : page'[t] = Unfetched /\ ~Fetched(t)'
  BY DEF Fetched, Unfetched
<1>3. ASSUME NEW t \in Tier
      PROVE  slot'[t] \in Slot
  <2>1. slot[t].cursor \in -1 .. LastKey /\ slot[t].skip \in 0 .. LastKey
    BY DEF ListTypeOK, Slot
  <2>2. page[t].next \in -1 .. LastKey
    BY DEF ListTypeOK, Page
  <2>3. ~EmitNone /\ ~EmitAll => Bound \in 0 .. LastKey
    BY BoundIsEntry, LastKeyAssumption DEF Keys
  <2>4. QED
    BY <2>1, <2>2, <2>3, MergeCases, LastKeyAssumption DEF Slot, Drained
<1>4. slot' \in [Tier -> Slot]
  BY <1>3
<1>5. listed' \subseteq [key : Keys, tier : Tier, round : Nat]
  <2>1. \A t \in Tier : Merged(t) \subseteq Keys
    <3>1. \A t \in Tier : Emitted(t) \subseteq Keys
      BY EmittedFromPage DEF ListTypeOK, Page
    <3>2. QED
      BY <3>1 DEF Merged, Tier
  <2>2. round \in Nat
    BY DEF ListTypeOK
  <2>3. QED
    BY <2>1, <2>2 DEF ListTypeOK
<1>6. round' \in Nat
  BY DEF ListTypeOK
<1>7. listing' \in {"calling", "done"}
  OBVIOUS
<1>8. ListTypeOK'
  BY <1>1, <1>4, <1>5, <1>6, <1>7 DEF ListTypeOK
<1>9. Stages'
  <2>1. listing' = "done" => \A t \in Tier : ~InPlay(t)'
    BY DEF InPlay, Drained
  <2>2. QED
    BY <1>7, <2>1 DEF Stages
<1>10. PagesTrue'
  BY <1>2 DEF PagesTrue
<1>11. QED
  BY <1>8, <1>9, <1>10

\* A key that was passed in this step has been emitted.
LEMMA PassedWasEmitted ==
    ASSUME ListInv, Merge, NEW t \in Tier, NEW k \in Keys \ touched,
           stored[t][k] # Nothing, Passed(t, k)', ~Passed(t, k)
    PROVE  k \in Emitted(t)
<1> USE DEF ListInv
<1>1. Fetched(t)
  BY DEF Merge, Passed
<1>2. k \in page[t].items <=> Reaches(t, k)
  BY <1>1 DEF PagesTrue
<1>3. slot[t].cursor \in Int /\ slot[t].skip \in Int /\ k \in Int /\ k >= 1
  BY LastKeyAssumption DEF ListTypeOK, Slot, Keys
<1>4. ~(k <= slot[t].cursor) /\ ~(k <= slot[t].skip) /\ InPlay(t)
  BY DEF Passed
<1>5. \A j \in page[t].items : Reaches(t, j) /\ j \in Int
  BY <1>1, LastKeyAssumption DEF PagesTrue, ListTypeOK, Page, Keys
<1>6. page[t].next \in Int
  BY LastKeyAssumption DEF ListTypeOK, Page
<1>7. CASE EmitNone /\ slot'[t] = [cursor |-> slot[t].cursor, skip |-> slot[t].skip]
  BY <1>4, <1>7 DEF Passed, InPlay
<1>8. CASE /\ ~EmitNone /\ ~EmitAll
           /\ Emitted(t) = {j \in page[t].items : j <= Bound}
           /\ \E j \in page[t].items : ~(j <= Bound)
           /\ slot'[t] = [cursor |-> slot[t].cursor, skip |-> Bound]
  <2>1. k <= Bound
    BY <1>4, <1>8 DEF Passed, InPlay
  <2>2. Bound \in Int
    BY <1>8, BoundIsEntry, LastKeyAssumption DEF Keys
  <2>3. PICK j \in page[t].items : ~(j <= Bound)
    BY <1>8
  <2>4. Reaches(t, k)
    BY <2>1, <2>2, <2>3, <1>3, <1>5, <1>6 DEF Reaches
  <2>5. QED
    BY <1>2, <1>8, <2>1, <2>4
<1>9. CASE Emitted(t) = page[t].items /\ page[t].next = NoMore
  BY <1>2, <1>9 DEF Reaches
<1>10. CASE /\ Emitted(t) = page[t].items
            /\ slot'[t] = [cursor |-> page[t].next, skip |-> 0] /\ page[t].next # NoMore
  <2>1. k <= page[t].next
    BY <1>3, <1>10 DEF Passed, InPlay, NoMore
  <2>2. QED
    BY <1>2, <1>10, <2>1 DEF Reaches
<1>11. QED
  BY <1>4, <1>7, <1>8, <1>9, <1>10, MergeCases

\* The entries that a step lists: each is on the page of its tier, and not passed.
LEMMA NewEntries ==
    ASSUME ListInv, Merge, NEW e \in listed', e \notin listed
    PROVE  /\ e.tier \in Tier /\ e.key \in Keys /\ e.round = round
           /\ e = [key |-> e.key, tier |-> e.tier, round |-> round]
           /\ e.key \in Merged(e.tier) /\ e.key \in Emitted(e.tier)
           /\ e.key \in page[e.tier].items
           /\ Fetched(e.tier) /\ InPlay(e.tier)
           /\ ~Passed(e.tier, e.key) /\ Reaches(e.tier, e.key)
<1> USE DEF ListInv
<1>1. PICK t \in Tier : e \in [key : Merged(t), tier : {t}, round : {round}]
  BY DEF Merge
<1> DEFINE k == e.key
<1>0. e = [key |-> k, tier |-> t, round |-> round] /\ k \in Merged(t)
  BY <1>1
<1>2. k \in Emitted(t)
  BY <1>0 DEF Merged, Tier
<1>3. k \in page[t].items
  BY <1>2, EmittedFromPage
<1>4. k \in Keys
  BY <1>3 DEF ListTypeOK, Page
<1>5. Fetched(t)
  BY <1>3 DEF PagesTrue, Unfetched
<1>6. QED
  BY <1>0, <1>2, <1>3, <1>4, <1>5 DEF PagesTrue

LEMMA MergeCovers ==
    ASSUME ListInv, Merge
    PROVE  Covered' /\ ListedTrue'
<1> USE DEF ListInv
<1>1. UNCHANGED <<stored, touched>> /\ listed \subseteq listed'
  BY DEF Merge
<1>2. \A t \in Tier : \A k \in Merged(t) : [key |-> k, tier |-> t, round |-> round] \in listed'
  BY DEF Merge
<1>3. Covered'
  <2> SUFFICES ASSUME NEW t \in Tier, NEW k \in Keys \ touched,
                      stored[t][k] # Nothing, Passed(t, k)'
               PROVE  \E e \in listed' : e.key = k /\ (t = "hot" => e.tier = "hot")
    BY <1>1 DEF Covered
  <2>1. CASE Passed(t, k)
    BY <2>1, <1>1 DEF Covered
  <2>2. CASE ~Passed(t, k)
    <3>1. k \in Emitted(t)
      BY <2>2, PassedWasEmitted
    <3>2. CASE k \in Emitted("hot")
      BY <3>2, <1>2 DEF Merged, Tier
    <3>3. CASE k \notin Emitted("hot")
      <4>1. t = "cold" /\ k \in Merged(t)
        BY <3>1, <3>3 DEF Merged, Tier
      <4>2. QED
        BY <4>1, <1>2
    <3>4. QED
      BY <3>2, <3>3
  <2>3. QED
    BY <2>1, <2>2
<1>4. ListedTrue'
  <2> SUFFICES ASSUME NEW e \in listed', e.key \notin touched
               PROVE  stored[e.tier][e.key] # Nothing
    BY <1>1 DEF ListedTrue
  <2>1. CASE e \in listed
    BY <2>1 DEF ListedTrue
  <2>2. CASE e \notin listed
    BY <2>2, NewEntries DEF PagesTrue
  <2>3. QED
    BY <2>1, <2>2
<1>5. QED
  BY <1>3, <1>4

\* A tier's numbers are integers.
LEMMA ListNumbers ==
    ASSUME ListInv, NEW t \in Tier
    PROVE  /\ slot[t].cursor \in Int /\ slot[t].skip \in Int /\ page[t].next \in Int
           /\ page[t].items \subseteq Keys
           /\ \A k \in Keys : k \in Int /\ k >= 1
BY LastKeyAssumption DEF ListInv, ListTypeOK, Slot, Page, Keys

\* What is passed comes before what is not.
LEMMA PassedBefore ==
    ASSUME ListInv, NEW t \in Tier, NEW j \in Keys, NEW k \in Keys, Passed(t, j), ~Passed(t, k)
    PROVE  j < k
BY ListNumbers DEF Passed

LEMMA MergeInStep ==
    ASSUME ListInv, Merge
    PROVE  InStep'
<1> USE DEF ListInv
<1>1. grown' = grown /\ \A t \in Tier : ~Fetched(t)'
  BY DEF Merge, Fetched, Unfetched
<1> SUFFICES ASSUME grown = "no", NEW e \in listed', NEW t \in Tier
             PROVE  Passed(t, e.key)'
  BY <1>1 DEF InStep
<1>2. e.key \in Keys
  BY NewEntries DEF ListTypeOK
<1>3. e \in listed => \A u \in Tier : Passed(u, e.key)
  BY DEF InStep
<1>4. CASE slot'[t] = Drained
  BY <1>4 DEF Passed, InPlay, Drained
<1>5. CASE /\ Fetched(t) /\ EmitNone /\ Emitted(t) = {}
           /\ slot'[t] = [cursor |-> slot[t].cursor, skip |-> slot[t].skip]
  <2>1. e \in listed
    BY <1>5, NewEntries DEF Emitted
  <2>2. QED
    BY <2>1, <1>3, <1>5 DEF Passed, InPlay
<1>6. CASE /\ Fetched(t) /\ ~EmitNone /\ ~EmitAll
           /\ slot'[t] = [cursor |-> slot[t].cursor, skip |-> Bound]
  <2>1. Bound \in Keys
    BY <1>6, BoundIsEntry
  <2>2. PICK u \in Continued : Bound \in page[u].items
    BY <1>6, BoundIsEntry
  <2>3. u \in Tier /\ Fetched(u) /\ ~Passed(u, Bound)
    BY <2>2 DEF PagesTrue, Continued, Unfetched
  <2>4. e.key <= Bound
    <3>1. CASE e \in listed
      BY <3>1, <1>2, <1>3, <2>1, <2>3, PassedBefore, ListNumbers
    <3>2. CASE e \notin listed
      <4>1. e.key \in Emitted(e.tier) /\ e.tier \in Tier
        BY <3>2, NewEntries
      <4>2. QED
        BY <4>1, <1>6 DEF Emitted
    <3>3. QED
      BY <3>1, <3>2
  <2>5. QED
    BY <2>4, <1>6 DEF Passed
<1>7. CASE /\ Fetched(t) /\ Emitted(t) = page[t].items /\ page[t].next # NoMore
           /\ slot'[t] = [cursor |-> page[t].next, skip |-> 0]
  <2>1. t \in Continued /\ InPlay(t)
    BY <1>7 DEF Continued, PagesTrue
  <2>2. e.key <= page[t].next
    <3>1. CASE e \in listed
      <4>1. e.key <= slot[t].cursor \/ e.key <= slot[t].skip
        BY <3>1, <1>3, <2>1 DEF Passed
      <4>2. slot[t].cursor < page[t].next
        BY <1>7, ListNumbers DEF PagesTrue
      <4>3. slot[t].skip <= page[t].next
        BY <1>7 DEF InStep, Reaches
      <4>4. QED
        BY <4>1, <4>2, <4>3, <1>2, ListNumbers
    <3>2. CASE e \notin listed
      <4>1. e.key \in Emitted(e.tier) /\ e.tier \in Tier
        BY <3>2, NewEntries
      <4>2. ~EmitNone /\ ~EmitAll
        BY <4>1, <2>1 DEF Emitted, EmitAll
      <4>3. e.key <= Bound
        BY <4>1, <4>2 DEF Emitted
      <4>4. Bound \in Keys
        BY <4>2, BoundIsEntry
      <4>5. PICK k \in page[t].items : Bound <= k
        BY <4>2, <2>1, BoundIsEntry
      <4>6. k <= page[t].next
        BY <1>7, <4>5 DEF PagesTrue, Reaches
      <4>7. QED
        BY <4>3, <4>4, <4>5, <4>6, <1>2, ListNumbers
    <3>3. QED
      BY <3>1, <3>2
  <2>3. QED
    BY <2>2, <1>7 DEF Passed
<1>8. QED
  BY <1>4, <1>5, <1>6, <1>7, MergeCases

LEMMA MergeOnce ==
    ASSUME ListInv, Merge
    PROVE  EarlierRounds' /\ ListedOnce'
<1> USE DEF ListInv
<1>1. round \in Nat /\ grown' = grown
  BY DEF ListTypeOK, Merge
<1>2. \A e \in listed : e.round \in Nat /\ e.round < round /\ e.key \in Keys
  BY DEF ListTypeOK, EarlierRounds
<1>3. EarlierRounds'
  <2> SUFFICES ASSUME NEW e \in listed'
               PROVE  e.round < round'
    BY DEF EarlierRounds
  <2>1. round' = IF listed' = listed THEN round ELSE round + 1
    BY DEF Merge
  <2>2. CASE e \in listed
    BY <2>1, <2>2, <1>1, <1>2
  <2>3. CASE e \notin listed
    <3>1. e.round = round /\ listed' # listed
      BY <2>3, NewEntries
    <3>2. QED
      BY <3>1, <2>1, <1>1
  <2>4. QED
    BY <2>2, <2>3
<1>4. ASSUME grown = "no", NEW e \in listed', NEW f \in listed'
      PROVE  (e.key = f.key => e = f) /\ (e.round < f.round => e.key < f.key)
  <2>1. CASE e \in listed /\ f \in listed
    BY <2>1, <1>4 DEF ListedOnce
  <2>2. ASSUME NEW o \in listed, NEW n \in listed', n \notin listed
        PROVE  o.key < n.key
    <3>1. n.tier \in Tier /\ ~Passed(n.tier, n.key) /\ n.key \in Keys
      BY <2>2, NewEntries
    <3>2. Passed(n.tier, o.key)
      BY <3>1, <1>4 DEF InStep
    <3>3. QED
      BY <3>1, <3>2, <1>2, PassedBefore
  <2>3. CASE e \in listed /\ f \notin listed
    <3>1. e.key < f.key /\ e.key \in Int /\ f.key \in Int
      BY <2>2, <2>3, <1>2, NewEntries, LastKeyAssumption DEF Keys
    <3>2. QED
      BY <3>1
  <2>4. CASE e \notin listed /\ f \in listed
    <3>1. f.key < e.key /\ e.key \in Int /\ f.key \in Int
      BY <2>2, <2>4, <1>2, NewEntries, LastKeyAssumption DEF Keys
    <3>2. e.round = round /\ f.round < round /\ f.round \in Nat
      BY <2>4, <1>2, NewEntries
    <3>3. QED
      BY <3>1, <3>2, <1>1
  <2>5. CASE e \notin listed /\ f \notin listed
    <3>1. e.round = round /\ f.round = round
      BY <2>5, NewEntries
    <3>2. e.key = f.key => e.tier = f.tier
      <4>1. /\ e.key \in Merged(e.tier) /\ e.tier \in Tier
            /\ f.key \in Merged(f.tier) /\ f.tier \in Tier
        BY <2>5, NewEntries
      <4>2. QED
        BY <4>1 DEF Merged, Tier
    <3>3. e = [key |-> e.key, tier |-> e.tier, round |-> round]
      BY <2>5, NewEntries
    <3>4. f = [key |-> f.key, tier |-> f.tier, round |-> round]
      BY <2>5, NewEntries
    <3>5. QED
      BY <3>1, <3>2, <3>3, <3>4, <1>1
  <2>6. QED
    BY <2>1, <2>3, <2>4, <2>5
<1>5. QED
  BY <1>1, <1>3, <1>4 DEF ListedOnce

LEMMA ListMerges ==
    ASSUME ListInv, Merge
    PROVE  ListInv'
<1>1. stored' = stored
  BY DEF Merge
<1>2. QED
  BY <1>1, MergeTyped, MergeCovers, MergeInStep, MergeOnce DEF ListInv

LEMMA ListDone == ListInv => ListedInFull
<1> SUFFICES ASSUME ListInv, listing = "done", NEW k \in Keys \ touched
             PROVE  /\ (\E t \in Tier : stored[t][k] # Nothing) <=> (\E e \in listed : e.key = k)
                    /\ stored["hot"][k] # Nothing => \E e \in listed : e.key = k /\ e.tier = "hot"
  BY DEF ListedInFull, ListedAll, ListInv
<1> USE DEF ListInv
<1>1. \A t \in Tier : Passed(t, k)
  BY DEF Stages, Passed
<1>2. \A t \in Tier : stored[t][k] # Nothing =>
         \E e \in listed : e.key = k /\ (t = "hot" => e.tier = "hot")
  BY <1>1 DEF Covered
<1>3. \A e \in listed : e.key = k => e.tier \in Tier /\ stored[e.tier][k] # Nothing
  BY DEF ListedTrue, ListTypeOK
<1>4. QED
  BY <1>2, <1>3 DEF Tier

(***************************************************************************)
(* What a change of one key in one tier does to the calls and the reads.   *)
(***************************************************************************)

\* What reads of a key may find after one of its copies changed to v.
LEMMA FindableAfter ==
    ASSUME IInv, UNCHANGED setup, NEW t \in Tier, NEW k \in Keys, NEW v,
           stored' = [stored EXCEPT ![t][k] = v]
    PROVE  /\ Findable(k)' \subseteq Findable(k) \cup {v}
           /\ Copies(k)' # {} => Findable(k)' \subseteq (Findable(k) \cup {v}) \ {Nothing}
           /\ \A j \in Keys \ {k} : Findable(j)' = Findable(j)
<1>1. stored \in [Tier -> [Keys -> Version]]
  BY DEF IInv, ListInv
<1>2. \A j \in Keys : Seen(j)' = Seen(j) /\ Seen(j) \subseteq Tier
  BY DEF setup, Seen, IInv, CallInv, CallTypes
<1>3. \A j \in Keys \ {k} : Findable(j)' = Findable(j)
  <2>1. \A u \in Tier, j \in Keys \ {k} : stored'[u][j] = stored[u][j]
    BY <1>1
  <2>2. \A j \in Keys \ {k} : Copies(j)' = Copies(j)
    BY <1>2, <2>1 DEF Copies
  <2>3. QED
    BY <2>2 DEF Findable
<1>4. \A u \in Tier : stored'[u][k] = IF u = t THEN v ELSE stored[u][k]
  BY <1>1
<1>5. Copies(k)' \subseteq (Copies(k) \cup {v}) \ {Nothing}
  BY <1>2, <1>4 DEF Copies
<1>6. Copies(k)' # {} => Findable(k)' \subseteq (Findable(k) \cup {v}) \ {Nothing}
  BY <1>5 DEF Findable
<1>7. CASE Copies(k)' = {} /\ Copies(k) = {}
  BY <1>3, <1>7 DEF Findable
<1>8. CASE Copies(k)' = {} /\ Copies(k) # {}
  <2>1. PICK u \in Seen(k) : stored[u][k] # Nothing
    BY <1>8 DEF Copies
  <2>2. stored'[u][k] = Nothing
    BY <1>2, <1>8, <2>1 DEF Copies
  <2>3. v = Nothing
    BY <1>2, <1>4, <2>1, <2>2
  <2>4. QED
    BY <1>3, <1>8, <2>3 DEF Findable
<1>9. QED
  BY <1>3, <1>6, <1>7, <1>8

\* A key that is not the one changed keeps its one copy.
LEMMA SingleElsewhere ==
    ASSUME IInv, NEW t \in Tier, NEW k \in Keys, NEW v, NEW more,
           stored' = [stored EXCEPT ![t][k] = v], may' = [may EXCEPT ![k] = more],
           NEW j \in Keys, j # k, Single(j)
    PROVE  Single(j)'
<1>1. stored \in [Tier -> [Keys -> Version]] /\ may \in [Keys -> SUBSET Version]
  BY DEF IInv, ListInv, CallInv, CallTypes
<1>2. may'[j] = may[j] /\ \A u \in Tier : stored'[u][j] = stored[u][j]
  BY <1>1
<1>3. QED
  BY <1>2 DEF Single, Tier

LEMMA WriteKeeps ==
    ASSUME IInv, NEW t \in Tier, NEW k \in Keys, NEW v \in Version, Write(t, k, v),
           UNCHANGED <<setup, readerVars, listVars>>
    PROVE  /\ ListInv' /\ MayCovers' /\ ReadFinds'
           /\ may' \in [Keys -> SUBSET Version] /\ possible' \subseteq Version /\ torn' = torn
           /\ stored' = [stored EXCEPT ![t][k] = v]
           /\ \A j \in Keys \ {k} : Single(j) => Single(j)'
<1> USE DEF Write
<1>1. /\ stored' = [stored EXCEPT ![t][k] = v] /\ torn' = torn
      /\ may' = [may EXCEPT ![k] = @ \cup {v}]
  BY DEF Put
<1>2. ListInv'
  BY ListPut DEF IInv
<1>3. /\ may \in [Keys -> SUBSET Version] /\ possible \subseteq Version /\ rkey \in Keys
      /\ stored \in [Tier -> [Keys -> Version]] /\ route \in [Keys -> Tier]
  BY DEF IInv, ListInv, CallInv, CallTypes
<1>4. may' \in [Keys -> SUBSET Version] /\ possible' \subseteq Version
  BY <1>1, <1>3
<1>5. /\ Findable(k)' \subseteq Findable(k) \cup {v}
      /\ \A j \in Keys \ {k} : Findable(j)' = Findable(j)
  BY <1>1, FindableAfter
<1>6. MayCovers'
  BY <1>1, <1>3, <1>5 DEF MayCovers, IInv, CallInv
<1>7. ReadFinds'
  <2>1. /\ possible \subseteq possible' /\ (k = rkey => v \in possible')
        /\ UNCHANGED <<rpc, rkey, answer, fallback, route>>
    BY DEF readerVars, setup
  <2>2. rpc = "first" => Findable(rkey)' \subseteq possible'
    BY <1>3, <1>5, <2>1 DEF ReadFinds, IInv, CallInv
  <2>3. \A u \in Tier : stored'[u][rkey] = stored[u][rkey] \/ (k = rkey /\ stored'[u][rkey] = v)
    BY <1>1, <1>3
  <2>4. Other(route[rkey]) \in Tier
    BY <1>3 DEF Other, Tier
  <2>5. QED
    BY <2>1, <2>2, <2>3, <2>4 DEF ReadFinds, ReadIsCurrent, IInv, CallInv
<1>8. \A j \in Keys \ {k} : Single(j) => Single(j)'
  BY <1>1, SingleElsewhere
<1>9. QED
  BY <1>1, <1>2, <1>4, <1>6, <1>7, <1>8

LEMMA EraseKeeps ==
    ASSUME IInv, NEW t \in Tier, NEW k \in Keys, NEW now, now \subseteq {Nothing},
           Erase(t, k, now), UNCHANGED <<setup, readerVars, listVars>>,
           now = {Nothing} \/ Copies(k)' # {}
    PROVE  /\ ListInv' /\ MayCovers' /\ ReadFinds'
           /\ may' \in [Keys -> SUBSET Version] /\ possible' \subseteq Version /\ torn' = torn
           /\ stored' = [stored EXCEPT ![t][k] = Nothing]
           /\ \A j \in Keys \ {k} : Single(j) => Single(j)'
<1> USE DEF Erase
<1>1. /\ stored' = [stored EXCEPT ![t][k] = Nothing] /\ torn' = torn
      /\ may' = [may EXCEPT ![k] = @ \cup now]
  BY DEF Remove
<1>2. ListInv'
  BY ListRemove DEF IInv
<1>3. /\ may \in [Keys -> SUBSET Version] /\ possible \subseteq Version /\ rkey \in Keys
      /\ stored \in [Tier -> [Keys -> Version]] /\ route \in [Keys -> Tier]
      /\ Nothing \in Version
  BY CallsAssumption DEF IInv, ListInv, CallInv, CallTypes, Nothing, Version
<1>4. may' \in [Keys -> SUBSET Version] /\ possible' \subseteq Version
  BY <1>1, <1>3
<1>5. /\ Findable(k)' \subseteq Findable(k) \cup {Nothing}
      /\ Copies(k)' # {} => Findable(k)' \subseteq (Findable(k) \cup {Nothing}) \ {Nothing}
      /\ \A j \in Keys \ {k} : Findable(j)' = Findable(j)
  BY <1>1, FindableAfter
<1>6. MayCovers'
  BY <1>1, <1>3, <1>5 DEF MayCovers, IInv, CallInv
<1>7. ReadFinds'
  <2>1. /\ possible \subseteq possible' /\ (k = rkey => Nothing \in possible')
        /\ UNCHANGED <<rpc, rkey, answer, fallback, route>>
    BY DEF readerVars, setup
  <2>2. rpc = "first" => Findable(rkey)' \subseteq possible'
    BY <1>3, <1>5, <2>1 DEF ReadFinds, IInv, CallInv
  <2>3. \A u \in Tier : \/ stored'[u][rkey] = stored[u][rkey]
                        \/ k = rkey /\ stored'[u][rkey] = Nothing
    BY <1>1, <1>3
  <2>4. Other(route[rkey]) \in Tier
    BY <1>3 DEF Other, Tier
  <2>5. QED
    BY <2>1, <2>2, <2>3, <2>4 DEF ReadFinds, ReadIsCurrent, IInv, CallInv
<1>8. \A j \in Keys \ {k} : Single(j) => Single(j)'
  BY <1>1, SingleElsewhere
<1>9. QED
  BY <1>1, <1>2, <1>4, <1>6, <1>7, <1>8

\* A step of the call that writes nowhere, before the call has changed anything.
LEMMA NothingWritten ==
    ASSUME IInv, UNCHANGED <<setup, readerVars, listVars, history, tierVars>>,
           ~HalfWay, ~HalfWay' \/ NothingToDo'
    PROVE  ListInv' /\ MayCovers' /\ ReadFinds' /\ Settled'
<1>1. UNCHANGED <<fallback, route, stored, may, torn, possible, rpc, rkey, answer>>
  BY DEF setup, readerVars, history, tierVars
<1>2. ListInv'
  BY ListFrame DEF IInv
<1>3. MayCovers'
  BY <1>1 DEF MayCovers, Findable, Copies, Seen, IInv, CallInv
<1>4. ReadFinds'
  BY <1>1 DEF ReadFinds, ReadIsCurrent, Findable, Copies, Seen, IInv, CallInv
<1>5. Settled'
  <2>1. fallback = "on" => \A k \in Keys \ torn : Single(k)
    BY DEF Settled, Changing, IInv, CallInv
  <2>2. QED
    BY <1>1, <2>1 DEF Settled, Single
<1>6. QED
  BY <1>2, <1>3, <1>4, <1>5

(***************************************************************************)
(* The steps of the calls.                                                 *)
(***************************************************************************)

LEMMA InitHolds == Init => IInv
<1> SUFFICES ASSUME Init PROVE IInv
  OBVIOUS
<1>1. ListInv
  BY ListInitHolds
<1>2. stored \in [Tier -> [Keys -> Version]]
  BY <1>1 DEF ListInv
<1>3. \A k \in Keys : Seen(k) \subseteq Tier
  BY DEF Init, Seen
<1>4. Nothing \in Version /\ 1 \in Keys
  BY LastKeyAssumption, CallsAssumption DEF Version, Nothing, Keys
<1>5. \A k \in Keys : Findable(k) \subseteq Version
  BY <1>2, <1>3, <1>4 DEF Findable, Copies
<1>6. CallTypes
  BY <1>4, <1>5 DEF Init, CallTypes, Pc, Op, Tier
<1>7. Settled
  <2> SUFFICES ASSUME fallback = "on", NEW k \in Keys \ torn
               PROVE  Single(k)
    BY DEF Settled
  <2>1. may[k] = Findable(k) /\ Seen(k) = Tier
    BY DEF Init, Seen
  <2>2. PICK t \in Tier : stored[t][k] = Nothing
    BY DEF Init
  <2>3. stored[Other(t)][k] \in Version
    BY <1>2, <2>2 DEF Other, Tier
  <2>4. Findable(k) = {stored[Other(t)][k]}
    BY <2>1, <2>2 DEF Findable, Copies, Other, Tier
  <2>5. QED
    BY <2>1, <2>2, <2>3, <2>4 DEF Single, Other, Tier
<1>8. CallAt /\ CallDone
  BY DEF Init, CallAt, CallDone
<1>9. MayCovers /\ ReadFinds
  BY DEF Init, MayCovers, ReadFinds, ReadIsCurrent
<1>10. QED
  BY <1>1, <1>6, <1>7, <1>8, <1>9 DEF IInv, CallInv

LEMMA BeginUploadHolds ==
    ASSUME IInv, NEW k \in Keys, NEW t \in Tier, BeginUpload(k, t)
    PROVE  IInv'
<1> USE DEF BeginUpload, Begins, CallsOnly
<1>1. pc = "idle" /\ pc' = "writing" /\ op' = "upload"
  OBVIOUS
<1>2. ListInv' /\ MayCovers' /\ ReadFinds' /\ Settled'
  BY <1>1, NothingWritten DEF HalfWay
<1>3. calls \in 0 .. MaxCalls /\ calls < MaxCalls
  BY DEF IInv, CallInv, CallTypes
<1>4. version' \in Version /\ version' # Nothing /\ calls' \in 0 .. MaxCalls
  BY <1>3, CallsAssumption DEF Version, Nothing
<1>5. CallTypes'
  BY <1>4 DEF IInv, CallInv, CallTypes, setup, readerVars, history, Pc, Op
<1>6. CallAt' /\ CallDone'
  BY <1>1, <1>4 DEF CallAt, CallDone, setup
<1>7. QED
  BY <1>2, <1>5, <1>6 DEF IInv, CallInv

LEMMA BeginDeleteHolds ==
    ASSUME IInv, NEW k \in Keys, BeginDelete(k)
    PROVE  IInv'
<1> USE DEF BeginDelete, Begins, CallsOnly
<1>1. pc = "idle" /\ pc' \in {"deletingHot", "deletingRouted"} /\ op' = "delete"
  OBVIOUS
<1>2. ListInv' /\ MayCovers' /\ ReadFinds' /\ Settled'
  BY <1>1, NothingWritten DEF HalfWay
<1>3. calls' \in 0 .. MaxCalls
  BY CallsAssumption DEF IInv, CallInv, CallTypes
<1>4. CallTypes'
  BY <1>3 DEF IInv, CallInv, CallTypes, setup, readerVars, history, Pc, Op
<1>5. fallback \in {"on", "off"}
  BY DEF IInv, CallInv, CallTypes
<1>6. CallAt' /\ CallDone'
  BY <1>1, <1>5 DEF CallAt, CallDone, setup
<1>7. QED
  BY <1>2, <1>4, <1>6 DEF IInv, CallInv

LEMMA BeginCopyOrMoveHolds ==
    ASSUME IInv, NEW o \in Op, NEW f \in Keys, NEW t \in Keys, BeginCopyOrMove(o, f, t)
    PROVE  IInv'
<1> USE DEF BeginCopyOrMove, Begins, CallsOnly
<1>1. pc = "idle" /\ pc' \in {"locating", "copying"} /\ op' \in {"copy", "move"}
  OBVIOUS
<1>2. ListInv' /\ MayCovers' /\ ReadFinds' /\ Settled'
  BY <1>1, NothingWritten DEF HalfWay
<1>3. calls' \in 0 .. MaxCalls
  BY CallsAssumption DEF IInv, CallInv, CallTypes
<1>4. CallTypes'
  BY <1>3 DEF IInv, CallInv, CallTypes, setup, readerVars, history, Pc, Op
<1>5. fallback \in {"on", "off"}
  BY DEF IInv, CallInv, CallTypes
<1>6. CallAt' /\ CallDone'
  BY <1>1, <1>5 DEF CallAt, CallDone, setup
<1>7. QED
  BY <1>2, <1>4, <1>6 DEF IInv, CallInv

LEMMA BeginTierHolds ==
    ASSUME IInv, NEW k \in Keys, NEW t \in Tier, BeginTier(k, t)
    PROVE  IInv'
<1> USE DEF BeginTier, Begins, CallsOnly
<1>1. pc = "idle" /\ pc' = "locating" /\ op' = "tier" /\ fallback = "on"
  OBVIOUS
<1>2. ListInv' /\ MayCovers' /\ ReadFinds' /\ Settled'
  BY <1>1, NothingWritten DEF HalfWay
<1>3. calls' \in 0 .. MaxCalls
  BY CallsAssumption DEF IInv, CallInv, CallTypes
<1>4. CallTypes'
  BY <1>3 DEF IInv, CallInv, CallTypes, setup, readerVars, history, Pc, Op
<1>5. CallAt' /\ CallDone'
  BY <1>1 DEF CallAt, CallDone, setup
<1>6. QED
  BY <1>2, <1>4, <1>5 DEF IInv, CallInv

\* locate() ends at tier t.
LEMMA FoundHolds ==
    ASSUME IInv, pc \in {"locating", "locatingOther"}, LocateOnly, NEW t \in Tier, Found(t)
    PROVE  IInv'
<1> USE DEF LocateOnly, CallsOnly, Found
<1>1. /\ op \in {"copy", "move", "tier"} /\ fallback = "on"
      /\ op \in {"upload", "delete", "tier"} => from = to
  BY DEF IInv, CallInv, CallAt
<1>2. ~HalfWay /\ (~HalfWay' \/ NothingToDo')
  BY DEF HalfWay, NothingToDo
<1>3. ListInv' /\ MayCovers' /\ ReadFinds' /\ Settled'
  BY <1>2, NothingWritten
<1>4. CallTypes'
  BY DEF IInv, CallInv, CallTypes, setup, readerVars, history, Pc
<1>5. CallAt' /\ CallDone'
  BY <1>1 DEF CallAt, CallDone, NothingToDo, setup
<1>6. QED
  BY <1>3, <1>4, <1>5 DEF IInv, CallInv

LEMMA LocateHolds ==
    ASSUME IInv, Locate
    PROVE  IInv'
<1>1. pc = "locating" /\ LocateOnly /\ src \in Tier
  BY DEF Locate, IInv, CallInv, CallTypes
<1>2. CASE stored[src][from] # Nothing
  BY <1>1, <1>2, FoundHolds DEF Locate
<1>3. CASE stored[src][from] = Nothing
  <2> USE DEF LocateOnly, CallsOnly
  <2>1. pc' = "locatingOther" /\ src' = src
    BY <1>3 DEF Locate
  <2>2. ListInv' /\ MayCovers' /\ ReadFinds' /\ Settled'
    BY <1>1, <2>1, NothingWritten DEF HalfWay
  <2>3. CallTypes'
    BY <1>1, <2>1 DEF IInv, CallInv, CallTypes, setup, readerVars, history, Pc
  <2>4. CallAt' /\ CallDone'
    BY <1>1, <2>1 DEF IInv, CallInv, CallAt, CallDone, setup
  <2>5. QED
    BY <2>2, <2>3, <2>4 DEF IInv, CallInv
<1>4. QED
  BY <1>2, <1>3

LEMMA LocateOtherHolds ==
    ASSUME IInv, LocateOther
    PROVE  IInv'
<1>1. pc = "locatingOther" /\ LocateOnly /\ src \in Tier /\ Other(src) \in Tier
  BY DEF LocateOther, IInv, CallInv, CallTypes, Other, Tier
<1>2. QED
  BY <1>1, FoundHolds DEF LocateOther

LEMMA CallTyped ==
    ASSUME IInv
    PROVE  /\ stored \in [Tier -> [Keys -> Version]]
           /\ fallback \in {"on", "off"} /\ route \in [Keys -> Tier]
           /\ from \in Keys /\ to \in Keys /\ src \in Tier /\ dst \in Tier /\ version \in Version
           /\ Other(dst) \in Tier /\ Other(dst) # dst
           /\ \A t \in Tier : t # dst => t = Other(dst)
           /\ \A k \in Keys : Seen(k) = IF fallback = "on" THEN Tier ELSE {route[k]}
BY DEF IInv, ListInv, CallInv, CallTypes, Other, Tier, Seen

LEMMA UploadLandsHolds ==
    ASSUME IInv, UploadLands
    PROVE  IInv'
<1> USE DEF UploadLands, Goes, CallsOnly
<1>1. pc = "writing" /\ op = "upload" /\ version # Nothing /\ from = to
  BY DEF IInv, CallInv, CallAt
<1>2. /\ ListInv' /\ MayCovers' /\ ReadFinds'
      /\ may' \in [Keys -> SUBSET Version] /\ possible' \subseteq Version /\ torn' = torn
      /\ stored' = [stored EXCEPT ![dst][to] = version]
      /\ \A j \in Keys \ {to} : Single(j) => Single(j)'
  BY CallTyped, WriteKeeps
<1>3. pc' \in {"evicting", "returning"} /\ (fallback = "on" => pc' = "evicting")
  BY DEF Evicted
<1>4. CallTypes'
  BY <1>2, <1>3 DEF IInv, CallInv, CallTypes, setup, readerVars, Pc
<1>5. Settled'
  BY <1>1, <1>2, <1>3 DEF Settled, Changing, HalfWay, NothingToDo, setup, IInv, CallInv
<1>6. stored'[dst][to] = version
  BY <1>2, CallTyped
<1>7. CallAt'
  BY <1>1, <1>3 DEF IInv, CallInv, CallAt, setup, Evicted
<1>8. CallDone'
  BY <1>1, <1>3, <1>6 DEF CallDone, setup
<1>9. QED
  BY <1>2, <1>4, <1>5, <1>7, <1>8 DEF IInv, CallInv

LEMMA CopyLandsHolds ==
    ASSUME IInv, CopyLands
    PROVE  IInv'
<1> USE DEF CopyLands, Goes, CallsOnly
<1>1. /\ pc = "copying" /\ op \in {"copy", "move", "tier"}
      /\ op = "tier" => from = to /\ src # dst /\ fallback = "on"
      /\ fallback = "off" => dst = route[to] /\ src = route[from]
  BY CallTyped DEF IInv, CallInv, CallAt
<1>2. version' \in Version /\ version' # Nothing
  BY CallTyped
<1>3. /\ ListInv' /\ MayCovers' /\ ReadFinds'
      /\ may' \in [Keys -> SUBSET Version] /\ possible' \subseteq Version /\ torn' = torn
      /\ stored' = [stored EXCEPT ![dst][to] = version']
      /\ \A j \in Keys \ {to} : Single(j) => Single(j)'
  BY <1>2, CallTyped, WriteKeeps
<1>4. /\ pc' \in {"removing", "evicting", "returning"}
      /\ pc' = "removing" => op \in {"move", "tier"} /\ <<src, from>> # <<dst, to>>
      /\ pc' # "removing" => op # "tier" /\ (op = "move" => from = to)
      /\ pc' = "evicting" => fallback = "on"
      /\ pc' = "returning" => fallback = "off"
  BY <1>1, CallTyped DEF Evicted
<1>5. CallTypes'
  BY <1>2, <1>3, <1>4 DEF IInv, CallInv, CallTypes, setup, readerVars, Pc
<1>6. Settled'
  BY <1>1, <1>3, <1>4 DEF Settled, Changing, HalfWay, NothingToDo, setup, IInv, CallInv
<1>7. stored'[dst][to] = version'
  BY <1>3, CallTyped
<1>8. CallAt'
  BY <1>1, <1>4, CallTyped DEF IInv, CallInv, CallAt, setup
<1>9. ASSUME from # to, from \notin torn
      PROVE  \A t \in Seen(from)' \ {src} : stored'[t][from] = Nothing
  <2>1. Seen(from)' = Seen(from)
    BY DEF Seen, setup
  <2>2. \A t \in Tier : stored'[t][from] = stored[t][from]
    BY <1>3, <1>9, CallTyped
  <2>3. CASE fallback = "on"
    <3>1. Single(from)
      BY <1>1, <1>9, <2>3, CallTyped DEF IInv, CallInv, Settled, Changing, HalfWay
    <3>2. stored[src][from] # Nothing
      OBVIOUS
    <3>3. \A t \in Tier \ {src} : stored[t][from] = Nothing
      BY <3>1, <3>2, CallTyped DEF Single, Tier
    <3>4. QED
      BY <2>1, <2>2, <2>3, <3>3, CallTyped
  <2>4. CASE fallback = "off"
    BY <1>1, <2>1, <2>4, CallTyped
  <2>5. QED
    BY <2>3, <2>4, CallTyped
<1>10. CallDone'
  BY <1>2, <1>3, <1>4, <1>7, <1>9, <1>1 DEF CallDone, setup
<1>11. QED
  BY <1>3, <1>5, <1>6, <1>8, <1>10 DEF IInv, CallInv

LEMMA RemoveSourceHolds ==
    ASSUME IInv, RemoveSource
    PROVE  IInv'
<1> USE DEF RemoveSource, Goes, CallsOnly
<1>1. /\ pc = "removing" /\ op \in {"move", "tier"} /\ <<src, from>> # <<dst, to>>
      /\ op = "tier" => from = to /\ src # dst /\ fallback = "on"
      /\ fallback = "off" => dst = route[to] /\ src = route[from]
      /\ stored[dst][to] = version /\ version # Nothing
  BY CallTyped DEF IInv, CallInv, CallAt, CallDone
<1>2. PICK now : now = IF op = "move" /\ from # to THEN {Nothing} ELSE {}
  OBVIOUS
<1>3. Erase(src, from, now) /\ now \subseteq {Nothing}
  BY <1>2
<1>4. stored' = [stored EXCEPT ![src][from] = Nothing]
  BY <1>3 DEF Erase, Remove
<1>5. stored'[dst][to] = version
  BY <1>1, <1>4, CallTyped
<1>6. \A t \in Tier : stored'[t][from] = IF t = src THEN Nothing ELSE stored[t][from]
  BY <1>4, CallTyped
<1>7. UNCHANGED <<setup, readerVars, listVars, op, from, to, src, dst, version, calls>>
  OBVIOUS
<1>8. Seen(from)' = Seen(from) /\ Seen(to)' = Seen(to)
  BY <1>7 DEF Seen, setup
<1>9. now = {Nothing} \/ Copies(from)' # {}
  <2>1. CASE op = "move" /\ from # to
    BY <1>2, <2>1
  <2>2. CASE ~(op = "move" /\ from # to)
    <3>1. from = to /\ fallback = "on"
      BY <1>1, <2>2, CallTyped
    <3>2. dst \in Seen(from)'
      BY <1>8, <3>1, CallTyped
    <3>3. version \in Copies(from)'
      BY <1>1, <1>5, <1>7, <3>1, <3>2 DEF Copies
    <3>4. QED
      BY <3>3
  <2>3. QED
    BY <2>1, <2>2
<1>10. /\ ListInv' /\ MayCovers' /\ ReadFinds'
       /\ may' \in [Keys -> SUBSET Version] /\ possible' \subseteq Version /\ torn' = torn
       /\ \A j \in Keys \ {from} : Single(j) => Single(j)'
  BY <1>3, <1>7, <1>9, CallTyped, EraseKeeps
<1>11. /\ pc' \in {"evicting", "returning"}
       /\ pc' = "evicting" => op = "move" /\ fallback = "on"
       /\ pc' = "returning" => op = "tier" \/ fallback = "off"
  BY <1>1, CallTyped DEF Evicted
<1>12. CallTypes'
  BY <1>7, <1>10, <1>11 DEF IInv, CallInv, CallTypes, setup, readerVars, Pc
<1>13. Settled'
  BY <1>1, <1>7, <1>10, <1>11 DEF Settled, Changing, HalfWay, NothingToDo, setup, IInv, CallInv
<1>14. CallAt'
  BY <1>1, <1>7, <1>11 DEF IInv, CallInv, CallAt, setup
<1>15. pc' = "returning" /\ fallback = "on" => stored'[Other(dst)][to] = Nothing
  BY <1>1, <1>6, <1>11, CallTyped
<1>16. op = "move" /\ from # to /\ from \notin torn => Gone(from)'
  BY <1>1, <1>6, <1>8, CallTyped DEF IInv, CallInv, CallDone, Gone
<1>17. CallDone'
  BY <1>1, <1>5, <1>7, <1>10, <1>11, <1>15, <1>16 DEF CallDone, setup
<1>18. QED
  BY <1>10, <1>12, <1>13, <1>14, <1>17 DEF IInv, CallInv

LEMMA EvictHolds ==
    ASSUME IInv, Evict
    PROVE  IInv'
<1> USE DEF Evict, Goes, CallsOnly
<1>1. /\ pc = "evicting" /\ op \in {"upload", "copy", "move"} /\ fallback = "on"
      /\ op = "upload" => from = to
      /\ stored[dst][to] = version /\ version # Nothing
      /\ op = "move" /\ from # to /\ from \notin torn => Gone(from)
  BY DEF IInv, CallInv, CallAt, CallDone
<1>2. UNCHANGED <<setup, readerVars, listVars, op, from, to, src, dst, version, calls>>
  OBVIOUS
<1>3. stored' = [stored EXCEPT ![Other(dst)][to] = Nothing]
  BY DEF Erase, Remove
<1>4. stored'[dst][to] = version /\ stored'[Other(dst)][to] = Nothing
  BY <1>1, <1>3, CallTyped
<1>5. Seen(from)' = Seen(from) /\ Seen(to)' = Seen(to)
  BY <1>2 DEF Seen, setup
<1>6. version \in Copies(to)'
  BY <1>1, <1>2, <1>4, <1>5, CallTyped DEF Copies
<1>7. /\ ListInv' /\ MayCovers' /\ ReadFinds'
      /\ may' \in [Keys -> SUBSET Version] /\ possible' \subseteq Version /\ torn' = torn
      /\ \A j \in Keys \ {to} : Single(j) => Single(j)'
  BY <1>2, <1>6, CallTyped, EraseKeeps
<1>8. CallTypes'
  BY <1>2, <1>7 DEF IInv, CallInv, CallTypes, setup, readerVars, Pc
<1>9. Settled'
  BY <1>1, <1>2, <1>7 DEF Settled, Changing, HalfWay, NothingToDo, setup, IInv, CallInv
<1>10. CallAt'
  BY <1>1, <1>2 DEF IInv, CallInv, CallAt, setup
<1>11. op = "move" /\ from # to /\ from \notin torn => Gone(from)'
  <2>1. from # to => \A t \in Tier : stored'[t][from] = stored[t][from]
    BY <1>3, CallTyped
  <2>2. QED
    BY <1>1, <1>2, <1>5, <2>1, CallTyped DEF Gone
<1>12. CallDone'
  BY <1>1, <1>2, <1>4, <1>7, <1>11 DEF CallDone, setup
<1>13. QED
  BY <1>7, <1>8, <1>9, <1>10, <1>12 DEF IInv, CallInv

\* One of the deletes of a key, in tier t.
LEMMA DeleteHolds ==
    ASSUME IInv, pc \in {"deletingHot", "deletingCold", "deletingRouted"},
           NEW t \in Tier, Erase(t, to, {Nothing}),
           UNCHANGED <<setup, readerVars, listVars, op, from, to, src, dst, version, calls>>,
           pc' = "deletingCold" => t = "hot" /\ fallback = "on",
           pc' = "returning" => \A u \in Seen(to) \ {t} : stored[u][to] = Nothing,
           pc' \in {"deletingCold", "returning"}
    PROVE  IInv'
<1>1. op = "delete" /\ from = to
  BY DEF IInv, CallInv, CallAt
<1>2. /\ ListInv' /\ MayCovers' /\ ReadFinds'
      /\ may' \in [Keys -> SUBSET Version] /\ possible' \subseteq Version /\ torn' = torn
      /\ stored' = [stored EXCEPT ![t][to] = Nothing]
      /\ \A j \in Keys \ {to} : Single(j) => Single(j)'
  BY CallTyped, EraseKeeps
<1>3. CallTypes'
  BY <1>2 DEF IInv, CallInv, CallTypes, setup, readerVars, Pc
<1>4. Settled'
  BY <1>1, <1>2 DEF Settled, Changing, HalfWay, NothingToDo, setup, IInv, CallInv
<1>5. CallAt'
  BY <1>1 DEF IInv, CallInv, CallAt, setup
<1>6. \A u \in Tier : stored'[u][to] = IF u = t THEN Nothing ELSE stored[u][to]
  BY <1>2, CallTyped
<1>7. Seen(to)' = Seen(to) /\ Seen(to) \subseteq Tier
  BY CallTyped DEF Seen, setup
<1>8. pc' = "returning" => Gone(to)'
  BY <1>6, <1>7 DEF Gone
<1>9. CallDone'
  BY <1>1, <1>6, <1>8 DEF CallDone
<1>10. QED
  BY <1>2, <1>3, <1>4, <1>5, <1>9 DEF IInv, CallInv

LEMMA DeletesHold ==
    ASSUME IInv, DeleteHot \/ DeleteCold \/ DeleteRouted
    PROVE  IInv'
<1> USE DEF Goes, CallsOnly
<1>1. CASE DeleteHot
  <2>1. fallback = "on"
    BY <1>1 DEF DeleteHot, IInv, CallInv, CallAt
  <2>2. QED
    BY <1>1, <2>1, DeleteHolds DEF DeleteHot, Tier
<1>2. CASE DeleteCold
  <2>1. stored["hot"][to] = Nothing
    BY <1>2 DEF DeleteCold, IInv, CallInv, CallDone
  <2>2. \A u \in Seen(to) \ {"cold"} : stored[u][to] = Nothing
    BY <2>1, CallTyped DEF Tier
  <2>3. QED
    BY <1>2, <2>2, DeleteHolds DEF DeleteCold, Tier
<1>3. CASE DeleteRouted
  <2>1. fallback = "off" /\ dst = route[to]
    BY <1>3 DEF DeleteRouted, IInv, CallInv, CallAt
  <2>2. \A u \in Seen(to) \ {dst} : stored[u][to] = Nothing
    BY <2>1, CallTyped
  <2>3. QED
    BY <1>3, <2>2, CallTyped, DeleteHolds DEF DeleteRouted
<1>4. QED
  BY <1>1, <1>2, <1>3

\* A call resolves: what it promised of its keys is what the tiers hold.
LEMMA ReturnHolds ==
    ASSUME IInv, Return
    PROVE  IInv'
<1> USE DEF Return, Goes, CallsOnly
<1>1. /\ pc = "returning" /\ pc' = "idle" /\ fallback \in {"on", "off"}
      /\ fallback = "off" => dst = route[to]
      /\ op \in {"upload", "delete", "tier"} => from = to
  BY CallTyped DEF IInv, CallInv, CallAt
<1>2. UNCHANGED <<fallback, route, stored, possible, rpc, rkey, answer>>
  BY DEF setup, readerVars, tierVars
<1>3. /\ \A k \in Keys : may'[k] = Promised(k)
      /\ torn' = IF NothingToDo THEN torn ELSE torn \ {to}
  OBVIOUS
<1>4. may \in [Keys -> SUBSET Version] /\ torn \subseteq Keys /\ Nothing \in Version
  BY CallsAssumption DEF IInv, CallInv, CallTypes, Version, Nothing
<1>5. \A k \in Keys : Promised(k) \subseteq Version
  BY <1>4, CallTyped DEF Promised
<1>6. may' \in [Keys -> SUBSET Version] /\ torn' \subseteq Keys
  BY <1>3, <1>4, <1>5
<1>7. ListInv'
  BY ListFrame DEF IInv
<1>8. CallTypes'
  BY <1>6 DEF IInv, CallInv, CallTypes, setup, readerVars, Pc
<1>9. CallAt' /\ CallDone'
  BY <1>1 DEF CallAt, CallDone
<1>10. ReadFinds'
  BY <1>2 DEF ReadFinds, ReadIsCurrent, Findable, Copies, Seen, IInv, CallInv
<1>11. \A k \in Keys : Findable(k)' = Findable(k)
  BY <1>2 DEF Findable, Copies, Seen
<1>12. CASE NothingToDo
  <2>1. \A k \in Keys : may'[k] = may[k]
    BY <1>3, <1>12 DEF Promised
  <2>2. torn' = torn
    BY <1>3, <1>12
  <2>3. MayCovers'
    BY <1>11, <2>1 DEF MayCovers, IInv, CallInv
  <2>4. Settled'
    BY <1>2, <1>12, <2>1, <2>2 DEF Settled, Changing, Single, IInv, CallInv
  <2>5. QED
    BY <1>7, <1>8, <1>9, <1>10, <2>3, <2>4 DEF IInv, CallInv
<1>13. CASE ~NothingToDo
  <2>1. op = "delete" => Gone(to)
    BY <1>1 DEF IInv, CallInv, CallDone
  <2>2. op # "delete" => /\ stored[dst][to] = version /\ version # Nothing
                         /\ fallback = "on" => stored[Other(dst)][to] = Nothing
    BY <1>1, <1>13 DEF IInv, CallInv, CallDone
  <2>3. op = "move" /\ from # to /\ from \notin torn => Gone(from)
    BY <1>1 DEF IInv, CallInv, CallDone
  <2>4. \A k \in Keys : Gone(k) => Findable(k) = {Nothing}
    BY DEF Gone, Findable, Copies
  <2>5. op # "delete" => Findable(to) = {version}
    <3>1. op # "delete" => Copies(to) = {version}
      BY <1>1, <2>2, CallTyped DEF Copies
    <3>2. QED
      BY <3>1 DEF Findable
  <2>6. \A k \in Keys : Findable(k) \subseteq Promised(k)
    <3> SUFFICES ASSUME NEW k \in Keys PROVE Findable(k) \subseteq Promised(k)
      OBVIOUS
    <3>1. CASE k = to
      BY <1>13, <2>1, <2>4, <2>5, <3>1, CallTyped DEF Promised
    <3>2. CASE k # to /\ op = "move" /\ k = from /\ from \notin torn
      BY <1>13, <2>3, <2>4, <3>2 DEF Promised
    <3>3. CASE k # to /\ ~(op = "move" /\ k = from /\ from \notin torn)
      BY <1>13, <3>3 DEF Promised, MayCovers, IInv, CallInv
    <3>4. QED
      BY <3>1, <3>2, <3>3
  <2>7. MayCovers'
    BY <1>3, <1>11, <2>6 DEF MayCovers
  <2>8. Settled'
    <3> SUFFICES ASSUME fallback = "on", NEW k \in Keys \ torn' PROVE Single(k)'
      BY <1>2 DEF Settled
    <3>1. CASE k = to /\ op = "delete"
      <4>1. may'[k] = {Nothing} /\ \A t \in Tier : stored'[t][k] = Nothing
        BY <1>2, <1>3, <1>13, <2>1, <3>1, CallTyped DEF Promised, Gone
      <4>2. QED
        BY <4>1, <1>4 DEF Single
    <3>2. CASE k = to /\ op # "delete"
      <4>1. may'[k] = {version}
        BY <1>3, <1>13, <3>2 DEF Promised
      <4>2. stored'[dst][k] = version /\ stored'[Other(dst)][k] = Nothing /\ version # Nothing
        BY <1>2, <2>2, <3>2
      <4>3. QED
        BY <4>1, <4>2, CallTyped DEF Single, Tier
    <3>3. CASE k # to /\ op = "move" /\ k = from
      <4>1. k \notin torn
        BY <1>3, <1>13, <3>3
      <4>2. may'[k] = {Nothing} /\ \A t \in Tier : stored'[t][k] = Nothing
        BY <1>2, <1>3, <1>13, <2>3, <3>3, <4>1, CallTyped DEF Promised, Gone
      <4>3. QED
        BY <4>2, <1>4 DEF Single
    <3>4. CASE k # to /\ ~(op = "move" /\ k = from)
      <4>1. k \notin torn /\ ~Changing(k)
        BY <1>3, <1>13, <3>4 DEF Changing
      <4>2. Single(k)
        BY <4>1 DEF Settled, IInv, CallInv
      <4>3. may'[k] = may[k]
        BY <1>3, <1>13, <3>4 DEF Promised
      <4>4. QED
        BY <1>2, <4>2, <4>3 DEF Single
    <3>5. QED
      BY <3>1, <3>2, <3>3, <3>4
  <2>9. QED
    BY <1>7, <1>8, <1>9, <1>10, <2>7, <2>8 DEF IInv, CallInv
<1>14. QED
  BY <1>12, <1>13

LEMMA CallFailsHolds ==
    ASSUME IInv, CallFails
    PROVE  IInv'
<1> USE DEF CallFails, Goes, CallsOnly
<1>1. UNCHANGED <<fallback, route, stored, may, possible, rpc, rkey, answer>> /\ pc' = "idle"
  BY DEF setup, readerVars, tierVars
<1>2. torn' \subseteq Keys /\ torn \subseteq torn'
  BY CallTyped DEF IInv, CallInv, CallTypes
<1>3. ListInv'
  BY ListFrame DEF IInv
<1>4. CallTypes'
  BY <1>2 DEF IInv, CallInv, CallTypes, setup, readerVars, Pc
<1>5. CallAt' /\ CallDone'
  BY <1>1 DEF CallAt, CallDone
<1>6. ReadFinds'
  BY <1>1 DEF ReadFinds, ReadIsCurrent, Findable, Copies, Seen, IInv, CallInv
<1>7. MayCovers'
  BY <1>1 DEF MayCovers, Findable, Copies, Seen, IInv, CallInv
<1>8. \A k \in Keys \ torn' : k \notin torn /\ ~Changing(k)
  BY DEF Changing
<1>9. Settled'
  BY <1>1, <1>8 DEF Settled, Single, IInv, CallInv
<1>10. QED
  BY <1>3, <1>4, <1>5, <1>6, <1>7, <1>9 DEF IInv, CallInv

(***************************************************************************)
(* The reads, and the listing beside them.                                 *)
(***************************************************************************)

\* A step of a read leaves everything of the calls and of the listing as it is.
LEMMA ReadAside ==
    ASSUME IInv, ReadOnly
    PROVE  ListInv' /\ Settled' /\ CallAt' /\ CallDone' /\ MayCovers'
<1> USE DEF ReadOnly, setup, callVars, tierVars, IInv, CallInv
<1>1. ListInv'
  BY ListFrame
<1>2. Settled'
  BY DEF Settled, Changing, HalfWay, NothingToDo, Single
<1>3. CallAt'
  BY DEF CallAt
<1>4. CallDone'
  BY DEF CallDone, NothingToDo, Gone, Seen
<1>5. MayCovers'
  BY DEF MayCovers, Findable, Copies, Seen
<1>6. QED
  BY <1>1, <1>2, <1>3, <1>4, <1>5

LEMMA BeginReadHolds ==
    ASSUME IInv, NEW k \in Keys, BeginRead(k)
    PROVE  IInv'
<1>1. ReadOnly /\ rpc' = "first" /\ rkey' = k /\ possible' = may[k]
  BY DEF BeginRead
<1>2. Nothing \in Version /\ reads' \in 0 .. MaxReads
  BY CallsAssumption, ReadsAssumption DEF BeginRead, Version, Nothing, IInv, CallInv, CallTypes
<1>3. CallTypes'
  BY <1>1, <1>2 DEF BeginRead, ReadOnly, setup, callVars, IInv, CallInv, CallTypes
<1>4. Findable(k)' = Findable(k)
  BY <1>1 DEF ReadOnly, setup, tierVars, Findable, Copies, Seen
<1>5. ReadFinds'
  BY <1>1, <1>4 DEF ReadFinds, ReadIsCurrent, MayCovers, IInv, CallInv
<1>6. QED
  BY <1>1, <1>3, <1>5, ReadAside DEF IInv, CallInv

LEMMA ReadFirstHolds ==
    ASSUME IInv, ReadFirst
    PROVE  IInv'
<1>1. /\ ReadOnly /\ rpc = "first" /\ UNCHANGED <<rkey, possible, reads>>
      /\ UNCHANGED <<fallback, route, stored>>
  BY DEF ReadFirst, ReadOnly, setup, tierVars
<1>2. Findable(rkey) \subseteq possible /\ rkey \in Keys /\ route[rkey] \in Seen(rkey)
  BY <1>1, CallTyped DEF ReadFinds, IInv, CallInv, CallTypes
<1>3. \A t \in Seen(rkey) : stored[t][rkey] # Nothing => stored[t][rkey] \in possible
  BY <1>2 DEF Findable, Copies
<1>4. (\A t \in Seen(rkey) : stored[t][rkey] = Nothing) => Nothing \in possible
  BY <1>2 DEF Findable, Copies
<1>5. route[rkey] \in Tier /\ Other(route[rkey]) \in Tier
      /\ \A t \in Tier : t = route[rkey] \/ t = Other(route[rkey])
  BY <1>2, CallTyped DEF Other, Tier
<1> DEFINE v == stored[route[rkey]][rkey]
<1>6. CASE v = Nothing /\ FallsThrough
  <2>1. rpc' = "second" /\ answer' = answer /\ fallback = "on"
    BY <1>6 DEF ReadFirst, FallsThrough
  <2>2. Other(route[rkey]) \in Seen(rkey) /\ Seen(rkey) = Tier
    BY <1>2, <1>5, <2>1, CallTyped
  <2>3. stored[Other(route[rkey])][rkey] \in possible
    <3>1. CASE stored[Other(route[rkey])][rkey] # Nothing
      BY <1>3, <2>2, <3>1
    <3>2. CASE stored[Other(route[rkey])][rkey] = Nothing
      BY <1>4, <1>5, <1>6, <2>2, <3>2
    <3>3. QED
      BY <3>1, <3>2
  <2>4. ReadFinds'
    BY <1>1, <2>1, <2>3 DEF ReadFinds, ReadIsCurrent
  <2>5. CallTypes'
    BY <1>1, <2>1 DEF ReadOnly, setup, callVars, IInv, CallInv, CallTypes
  <2>6. QED
    BY <1>1, <2>4, <2>5, ReadAside DEF IInv, CallInv
<1>7. CASE ~(v = Nothing /\ FallsThrough)
  <2>1. rpc' = "done" /\ answer' = v
    BY <1>7 DEF ReadFirst, Answers
  <2>2. v \in possible
    <3>1. CASE v # Nothing
      BY <1>2, <1>3, <3>1
    <3>2. CASE v = Nothing
      <4>1. Seen(rkey) = {route[rkey]}
        BY <1>2, <1>7, <3>2, CallTyped DEF FallsThrough
      <4>2. QED
        BY <1>4, <3>2, <4>1
    <3>3. QED
      BY <3>1, <3>2
  <2>3. v \in Version
    BY <1>2, <1>5, CallTyped
  <2>4. ReadFinds'
    BY <1>1, <2>1, <2>2 DEF ReadFinds, ReadIsCurrent
  <2>5. CallTypes'
    BY <1>1, <2>1, <2>3 DEF ReadOnly, setup, callVars, IInv, CallInv, CallTypes
  <2>6. QED
    BY <1>1, <2>4, <2>5, ReadAside DEF IInv, CallInv
<1>8. QED
  BY <1>6, <1>7

LEMMA ReadSecondHolds ==
    ASSUME IInv, ReadSecond
    PROVE  IInv'
<1>1. /\ ReadOnly /\ rpc = "second" /\ UNCHANGED <<rkey, possible, reads>>
      /\ rpc' = "done" /\ answer' = stored[Other(route[rkey])][rkey]
  BY DEF ReadSecond, Answers
<1>2. answer' \in possible
  BY <1>1 DEF ReadFinds, IInv, CallInv
<1>3. possible \subseteq Version
  BY DEF IInv, CallInv, CallTypes
<1>4. ReadFinds'
  BY <1>1, <1>2 DEF ReadFinds, ReadIsCurrent
<1>5. CallTypes'
  BY <1>1, <1>2, <1>3 DEF ReadOnly, setup, callVars, IInv, CallInv, CallTypes
<1>6. QED
  BY <1>1, <1>4, <1>5, ReadAside DEF IInv, CallInv

\* Steps of the listing change no tier.
LEMMA CallAside ==
    ASSUME IInv, ListInv', UNCHANGED <<setup, callVars, readerVars, history, stored>>
    PROVE  IInv'
<1> USE DEF setup, callVars, readerVars, history, IInv, CallInv
<1>1. CallTypes' /\ CallAt'
  BY DEF CallTypes, CallAt
<1>2. Settled'
  BY DEF Settled, Changing, HalfWay, NothingToDo, Single
<1>3. CallDone'
  BY DEF CallDone, NothingToDo, Gone, Seen
<1>4. MayCovers'
  BY DEF MayCovers, Findable, Copies, Seen
<1>5. ReadFinds'
  BY DEF ReadFinds, ReadIsCurrent, Findable, Copies, Seen
<1>6. QED
  BY <1>1, <1>2, <1>3, <1>4, <1>5

LEMMA ListsHolds ==
    ASSUME IInv, Lists
    PROVE  IInv'
<1>1. ListInv /\ UNCHANGED <<setup, callVars, readerVars, history>>
  BY DEF IInv, Lists
<1>2. CASE StartListing
  BY <1>1, <1>2, ListStarts, CallAside DEF StartListing
<1>3. CASE FetchFails
  BY <1>1, <1>3, ListFetchFails, CallAside DEF FetchFails
<1>4. CASE Merge
  BY <1>1, <1>4, ListMerges, CallAside DEF Merge
<1>5. ASSUME NEW t \in Tier, NEW upTo \in Keys, FetchPage(t, upTo)
      PROVE  IInv'
  <2>1. stored' = stored
    BY <1>5 DEF FetchPage
  <2>2. QED
    BY <1>1, <1>5, <2>1, ListFetches, CallAside
<1>6. QED
  BY <1>2, <1>3, <1>4, <1>5 DEF Lists, ListStep

(***************************************************************************)
(* The theorems.                                                           *)
(***************************************************************************)

LEMMA StepHolds == IInv /\ [Next]_vars => IInv'
<1> SUFFICES ASSUME IInv, [Next]_vars PROVE IInv'
  OBVIOUS
<1>1. CASE UNCHANGED vars
  BY <1>1, ListFrame, CallAside DEF vars, IInv, tierVars
<1>2. CASE Begin
  BY <1>2, BeginUploadHolds, BeginTierHolds, BeginDeleteHolds, BeginCopyOrMoveHolds DEF Begin
<1>3. CASE Locate \/ LocateOther
  BY <1>3, LocateHolds, LocateOtherHolds
<1>4. CASE Change
  BY <1>4, UploadLandsHolds, CopyLandsHolds, RemoveSourceHolds, EvictHolds, DeletesHold DEF Change
<1>5. CASE Return \/ CallFails
  BY <1>5, ReturnHolds, CallFailsHolds
<1>6. CASE Read
  BY <1>6, BeginReadHolds, ReadFirstHolds, ReadSecondHolds DEF Read
<1>7. CASE Lists
  BY <1>7, ListsHolds
<1>8. QED
  BY <1>1, <1>2, <1>3, <1>4, <1>5, <1>6, <1>7 DEF Next

LEMMA AlwaysIInv == Spec => []IInv
  BY InitHolds, StepHolds, PTL DEF Spec

\* The types, of the tiers, the listing, the calls and the reads of tiering/index.ts,
\* for any number of keys.
THEOREM TieringTyped == Spec => []TypeOK
<1>1. IInv => TypeOK
  BY DEF IInv, ListInv, CallInv, CallTypes, TypeOK
<1>2. QED
  BY <1>1, AlwaysIInv, PTL

\* With fallback, a key whose last call resolved has one copy, the last write's,
\* whatever calls failed half-way before it.
THEOREM OneCopyKept == Spec => []OneCopy
<1>1. IInv => OneCopy
  BY DEF IInv, CallInv, Settled, OneCopy, Busy, Changing, HalfWay, Single
<1>2. QED
  BY <1>1, AlwaysIInv, PTL

\* A read beside the calls finds a version that was current while it looked, and
\* misses only a key that may be gone or that changed tiers.
THEOREM ReadsAreCurrent == Spec => []ReadIsCurrent
<1>1. IInv => ReadIsCurrent
  BY DEF IInv, CallInv, ReadFinds
<1>2. QED
  BY <1>1, AlwaysIInv, PTL

\* The merged listing shows every key that stays, as its tier has it, and while no
\* tier gains an entry shows none twice and all in order, for any lengths of pages.
THEOREM ListingIsFull == Spec => []ListedInFull
<1>1. IInv => ListedInFull
  BY ListDone DEF IInv
<1>2. QED
  BY <1>1, AlwaysIInv, PTL

(***************************************************************************)
(* Pages.  What the model takes for granted of a tier's page, of the       *)
(* adapters that walk and cut: the loop is a recursive function, for which *)
(* induction shows that it is defined and what it has read.                *)
(***************************************************************************)

Walked == INSTANCE WalkPaginate

\* Induction, in the form the provers can use: what holds at 0, and after a number holds
\* at the turned, holds up to N.
LEMMA UpTo ==
    ASSUME NEW N \in Nat, NEW P, 0 \in P, \A n \in 1 .. N : n - 1 \in P => n \in P
    PROVE  \A n \in 0 .. N : n \in P
<1> DEFINE R == {p \in Nat \X Nat : p[1] < p[2]}
           T == {n \in 0 .. N : n \notin P}
<1>1. IsWellFoundedOn(R, Nat)
    BY NatLessThanWellFounded DEF OpToRel
<1>2. SUFFICES ASSUME T # {} PROVE FALSE
    OBVIOUS
<1>3. \E n \in T : \A m \in T : <<m, n>> \notin R
    <2>1. T \subseteq Nat
        OBVIOUS
    <2> HIDE DEF R, T
    <2>2. QED
        BY <1>1, <1>2, <2>1, WFMin
<1>4. PICK n \in T : \A m \in T : <<m, n>> \notin R
    <2> HIDE DEF R, T
    <2>1. QED
        BY <1>3
<1>5. n \in 1 .. N /\ n - 1 \in 0 .. N /\ <<n - 1, n>> \in R
    OBVIOUS
<1>6. n - 1 \in P /\ n \notin P
    <2> HIDE DEF R
    <2>1. QED
        BY <1>4, <1>5
<1>7. QED
    BY <1>5, <1>6

\* The states of a loop over 1 .. N: f[n] is the one after n turns.
Turns(S, N, base, step, f) ==
    /\ f \in [0 .. N -> S]
    /\ f = [n \in 0 .. N |-> IF n = 0 THEN base ELSE step[<<n, f[n - 1]>>]]

HasTurns(S, N, base, step) == \E f : Turns(S, N, base, step, f)

\* A loop that keeps its state in S has a state after each turn.
LEMMA LoopsTurn ==
    ASSUME NEW S, NEW N \in Nat, NEW base \in S, NEW step \in [(1 .. N) \X S -> S]
    PROVE  HasTurns(S, N, base, step)
<1> DEFINE To(k) == \E f \in [0 .. k -> S] :
                        /\ f[0] = base
                        /\ \A n \in 1 .. k : f[n] = step[<<n, f[n - 1]>>]
           P == {k \in 0 .. N : To(k)}
<1>1. 0 \in P
    <2> DEFINE f == [n \in 0 .. 0 |-> base]
    <2>1. f \in [0 .. 0 -> S] /\ f[0] = base /\ \A n \in 1 .. 0 : f[n] = step[<<n, f[n - 1]>>]
        OBVIOUS
    <2> HIDE DEF f
    <2>2. QED
        BY <2>1
<1>2. ASSUME NEW k \in 1 .. N, k - 1 \in P
      PROVE  k \in P
    <2>1. PICK f \in [0 .. k - 1 -> S] :
                  /\ f[0] = base
                  /\ \A n \in 1 .. k - 1 : f[n] = step[<<n, f[n - 1]>>]
        BY <1>2
    <2> DEFINE last == step[<<k, f[k - 1]>>]
               g == [n \in 0 .. k |-> IF n = k THEN last ELSE f[n]]
    <2>2. last \in S
        BY <2>1
    <2>3. g \in [0 .. k -> S] /\ \A n \in 0 .. k : g[n] = IF n = k THEN last ELSE f[n]
        <3> HIDE DEF last
        <3>1. QED
            BY <2>1, <2>2
    <2>4. g[0] = base
        BY <2>1, <2>3
    <2>5. ASSUME NEW n \in 1 .. k
          PROVE  g[n] = step[<<n, g[n - 1]>>]
        <3>1. n - 1 \in 0 .. k /\ n - 1 # k
            OBVIOUS
        <3> HIDE DEF g
        <3>2. g[n - 1] = f[n - 1]
            BY <2>3, <3>1
        <3>3. CASE n = k
            <4>1. g[k] = last /\ last = step[<<k, g[k - 1]>>]
                BY <2>3, <3>2, <3>3
            <4>2. QED
                BY <3>3, <4>1
        <3>4. CASE n # k
            BY <2>1, <2>3, <3>2, <3>4
        <3>5. QED
            BY <3>3, <3>4
    <2> HIDE DEF g
    <2>6. QED
        BY <2>3, <2>4, <2>5
<1>3. N \in P
    <2> HIDE DEF P
    <2>1. \A n \in 1 .. N : n - 1 \in P => n \in P
        BY <1>2
    <2>2. QED
        BY <1>1, <2>1, UpTo
<1>4. PICK f \in [0 .. N -> S] : /\ f[0] = base
                                 /\ \A n \in 1 .. N : f[n] = step[<<n, f[n - 1]>>]
    BY <1>3
<1>5. f = [n \in 0 .. N |-> IF n = 0 THEN base ELSE step[<<n, f[n - 1]>>]]
    BY <1>4
<1>6. QED
    BY <1>5 DEF HasTurns, Turns

\* A key list as paginateHierarchy() gets it: sorted, and the keys of a group together.
Sorted(rest) == \A i, j \in 1 .. Len(rest) : i < j => rest[i] < rest[j]
Together(group, rest) ==
    \A i, j, k \in 1 .. Len(rest) :
        /\ i <= j /\ j <= k
        /\ group[rest[i]] = group[rest[k]] /\ group[rest[i]] # Walked!NoGroup
        => group[rest[j]] = group[rest[i]]

\* Every key has its group, or none.
Grouping(group) == \A k \in Nat : group[k] \in Nat

Loops == [items : Seq(Nat), prefixes : Seq(Nat), budget : Nat, active : Nat, last : Nat,
          scanned : Nat, over : BOOLEAN]

\* What one turn does.
LEMMA OneTurn ==
    ASSUME NEW loop \in Loops, NEW key \in Nat, NEW group, Grouping(group)
    PROVE  LET turned == Walked!Turn(group, loop, key)
               open == loop.active # 0 /\ group[key] = loop.active
           IN  /\ turned \in Loops
               /\ loop.over => turned = loop
               /\ ~loop.over /\ open =>
                     turned = [items |-> loop.items, prefixes |-> loop.prefixes,
                             budget |-> loop.budget, active |-> loop.active,
                             last |-> key, scanned |-> loop.scanned + 1, over |-> FALSE]
               /\ ~loop.over /\ ~open /\ loop.budget = 0 =>
                     turned = [items |-> loop.items, prefixes |-> loop.prefixes,
                             budget |-> loop.budget, active |-> loop.active,
                             last |-> loop.last, scanned |-> loop.scanned, over |-> TRUE]
               /\ ~loop.over /\ ~open /\ loop.budget # 0 =>
                     turned = [items |-> IF group[key] = 0 THEN Append(loop.items, key)
                                                         ELSE loop.items,
                             prefixes |-> IF group[key] = 0 THEN loop.prefixes
                                          ELSE Append(loop.prefixes, group[key]),
                             budget |-> loop.budget - 1, active |-> group[key],
                             last |-> key, scanned |-> loop.scanned + 1, over |-> FALSE]
<1> DEFINE turned == Walked!Turn(group, loop, key)
           open == loop.active # 0 /\ group[key] = loop.active
           Result(items, prefixes, budget, active, last, scanned, over) ==
             [items |-> items, prefixes |-> prefixes, budget |-> budget, active |-> active,
              last |-> last, scanned |-> scanned, over |-> over]
<1>1. loop = Result(loop.items, loop.prefixes, loop.budget, loop.active, loop.last,
                    loop.scanned, loop.over)
    BY DEF Loops
<1>2. /\ loop.items \in Seq(Nat) /\ loop.prefixes \in Seq(Nat) /\ loop.budget \in Nat
      /\ loop.active \in Nat /\ loop.last \in Nat /\ loop.scanned \in Nat
      /\ loop.over \in BOOLEAN /\ group[key] \in Nat
    BY DEF Loops, Grouping
<1>result. ASSUME NEW items \in Seq(Nat), NEW prefixes \in Seq(Nat), NEW budget \in Nat,
              NEW active \in Nat, NEW last \in Nat, NEW scanned \in Nat, NEW over \in BOOLEAN
       PROVE  Result(items, prefixes, budget, active, last, scanned, over) \in Loops
    BY DEF Loops
<1>scanned. loop.scanned \in Nat
    BY DEF Loops
<1>budget. loop.budget \in Nat
    BY DEF Loops
<1>3. CASE loop.over
    BY <1>3 DEF Walked!Turn
<1>4. CASE ~loop.over /\ open
    <2>1. turned = Result(loop.items, loop.prefixes, loop.budget, loop.active, key,
                        loop.scanned + 1, FALSE)
        BY <1>1, <1>2, <1>4 DEF Walked!Turn, Walked!Consumed, Walked!NoGroup
    <2>2. loop.scanned + 1 \in Nat
        BY <1>scanned
    <2>3. turned \in Loops
        <3> HIDE DEF turned, Result
        <3>1. QED
            BY <1>2, <1>result, <2>1, <2>2
    <2>4. QED
        BY <1>4, <2>1, <2>3
<1>5. CASE ~loop.over /\ ~open /\ loop.budget = 0
    <2>1. turned = Result(loop.items, loop.prefixes, loop.budget, loop.active, loop.last,
                        loop.scanned, TRUE)
        BY <1>1, <1>2, <1>5 DEF Walked!Turn, Walked!Consumed, Walked!NoGroup
    <2>2. QED
        BY <1>2, <1>5, <2>1 DEF Loops
<1>6. CASE ~loop.over /\ ~open /\ loop.budget # 0
    <2> DEFINE items == IF group[key] = 0 THEN Append(loop.items, key) ELSE loop.items
               prefixes == IF group[key] = 0 THEN loop.prefixes
                           ELSE Append(loop.prefixes, group[key])
    <2>1. turned = Result(items, prefixes, loop.budget - 1, group[key], key,
                        loop.scanned + 1, FALSE)
        <3>1. CASE group[key] = 0
            BY <1>1, <1>2, <1>6, <3>1 DEF Walked!Turn, Walked!Consumed, Walked!NoGroup
        <3>2. CASE group[key] # 0
            BY <1>1, <1>2, <1>6, <3>2 DEF Walked!Turn, Walked!Consumed, Walked!NoGroup
        <3>3. QED
            BY <3>1, <3>2
    <2>2. items \in Seq(Nat) /\ prefixes \in Seq(Nat)
        BY <1>2
    <2>counts. loop.budget - 1 \in Nat /\ loop.scanned + 1 \in Nat
        BY <1>6, <1>scanned, <1>budget
    <2>3. turned \in Loops
        <3> HIDE DEF items, prefixes, turned, Result
        <3>1. QED
            BY <1>2, <1>result, <2>1, <2>2, <2>counts
    <2>4. QED
        BY <1>6, <2>1, <2>3
<1>7. QED
    BY <1>2, <1>3, <1>4, <1>5, <1>6

Elems(s) == {s[i] : i \in 1 .. Len(s)}
Taken(rest, n) == {rest[m] : m \in 1 .. n}
Alone(group, keys) == {k \in keys : group[k] = 0}
Groups(group, keys) == {group[k] : k \in {key \in keys : group[key] # 0}}
Distinct(s) == \A i, j \in 1 .. Len(s) : i < j => s[i] # s[j]

\* The loop has read the first n keys.
Reached(group, rest, limit, n, loop) ==
    /\ loop \in Loops
    /\ IF loop.over
         THEN /\ loop.scanned < n /\ loop.budget = 0
              /\ \/ group[rest[loop.scanned + 1]] = 0
                 \/ group[rest[loop.scanned + 1]] # loop.active
         ELSE loop.scanned = n
    /\ loop.last = IF loop.scanned = 0 THEN 0 ELSE rest[loop.scanned]
    /\ loop.active = IF loop.scanned = 0 THEN 0 ELSE group[rest[loop.scanned]]
    /\ loop.budget + Len(loop.items) + Len(loop.prefixes) = limit
    /\ Elems(loop.items) = Alone(group, Taken(rest, loop.scanned))
    /\ Elems(loop.prefixes) = Groups(group, Taken(rest, loop.scanned))
    /\ Sorted(loop.items) /\ Distinct(loop.prefixes)

LEMMA AppendElems ==
    ASSUME NEW s \in Seq(Nat), NEW e \in Nat
    PROVE  /\ Elems(Append(s, e)) = Elems(s) \cup {e}
           /\ (\A i \in 1 .. Len(s) : s[i] < e) /\ Sorted(s) => Sorted(Append(s, e))
           /\ e \notin Elems(s) /\ Distinct(s) => Distinct(Append(s, e))
<1> DEFINE t == Append(s, e)
<1>1. /\ Len(t) = Len(s) + 1 /\ Len(s) \in Nat
      /\ \A i \in 1 .. Len(s) : t[i] = s[i] /\ s[i] \in Nat
      /\ t[Len(s) + 1] = e
    OBVIOUS
<1> HIDE DEF t
<1>2. 1 .. Len(t) = (1 .. Len(s)) \cup {Len(s) + 1}
    BY <1>1
<1>3. Elems(t) = Elems(s) \cup {e}
    BY <1>1, <1>2 DEF Elems
<1>4. ASSUME \A i \in 1 .. Len(s) : s[i] < e, Sorted(s)
      PROVE  Sorted(t)
    BY <1>1, <1>2, <1>4 DEF Sorted
<1>5. ASSUME e \notin Elems(s), Distinct(s)
      PROVE  Distinct(t)
    BY <1>1, <1>2, <1>5 DEF Distinct, Elems
<1>6. QED
    BY <1>3, <1>4, <1>5 DEF t

LEMMA TakenNext ==
    ASSUME NEW group, Grouping(group), NEW rest \in Seq(Nat), NEW n \in 1 .. Len(rest)
    PROVE  /\ Taken(rest, n) = Taken(rest, n - 1) \cup {rest[n]}
           /\ Alone(group, Taken(rest, n)) =
                 Alone(group, Taken(rest, n - 1))
                    \cup (IF group[rest[n]] = 0 THEN {rest[n]} ELSE {})
           /\ Groups(group, Taken(rest, n)) =
                 Groups(group, Taken(rest, n - 1))
                    \cup (IF group[rest[n]] = 0 THEN {} ELSE {group[rest[n]]})
<1>1. Taken(rest, n) = Taken(rest, n - 1) \cup {rest[n]}
    <2>1. 1 .. n = (1 .. n - 1) \cup {n}
        OBVIOUS
    <2>2. QED
        BY <2>1 DEF Taken
<1>2. Alone(group, Taken(rest, n)) =
         Alone(group, Taken(rest, n - 1)) \cup (IF group[rest[n]] = 0 THEN {rest[n]} ELSE {})
    BY <1>1 DEF Alone
<1>3. Groups(group, Taken(rest, n)) =
         Groups(group, Taken(rest, n - 1))
            \cup (IF group[rest[n]] = 0 THEN {} ELSE {group[rest[n]]})
    BY <1>1 DEF Groups
<1>4. QED
    BY <1>1, <1>2, <1>3

LEMMA NextKey ==
    ASSUME NEW group, Grouping(group),
           NEW rest \in Seq(Nat), Sorted(rest), Together(group, rest),
           NEW limit \in Nat, NEW n \in 1 .. Len(rest), NEW loop \in Loops,
           Reached(group, rest, limit, n - 1, loop)
    PROVE  Reached(group, rest, limit, n, Walked!Turn(group, loop, rest[n]))
<1> DEFINE key == rest[n]
           turned == Walked!Turn(group, loop, key)
           open == loop.active # 0 /\ group[key] = loop.active
<1>1. key \in Nat /\ group[key] \in Nat /\ Len(rest) \in Nat
    BY DEF Grouping
<1>2. /\ loop.items \in Seq(Nat) /\ loop.prefixes \in Seq(Nat) /\ loop.over \in BOOLEAN
    BY DEF Loops
<1>3. loop.budget \in Nat
    BY DEF Loops
<1>4. loop.scanned \in Nat
    BY DEF Loops
<1>5. /\ turned \in Loops
      /\ loop.over => turned = loop
      /\ ~loop.over /\ open =>
            turned = [items |-> loop.items, prefixes |-> loop.prefixes,
                    budget |-> loop.budget, active |-> loop.active,
                    last |-> key, scanned |-> loop.scanned + 1, over |-> FALSE]
      /\ ~loop.over /\ ~open /\ loop.budget = 0 =>
            turned = [items |-> loop.items, prefixes |-> loop.prefixes,
                    budget |-> loop.budget, active |-> loop.active,
                    last |-> loop.last, scanned |-> loop.scanned, over |-> TRUE]
      /\ ~loop.over /\ ~open /\ loop.budget # 0 =>
            turned = [items |-> IF group[key] = 0 THEN Append(loop.items, key) ELSE loop.items,
                    prefixes |-> IF group[key] = 0 THEN loop.prefixes
                                 ELSE Append(loop.prefixes, group[key]),
                    budget |-> loop.budget - 1, active |-> group[key],
                    last |-> key, scanned |-> loop.scanned + 1, over |-> FALSE]
    <2> HIDE DEF key
    <2>1. QED
        BY <1>1, OneTurn
<1>6. CASE loop.over
    <2>1. turned = loop
        BY <1>5, <1>6
    <2>2. loop.scanned < n - 1 => loop.scanned < n
        BY <1>4
    <2> HIDE DEF turned
    <2>3. QED
        BY <1>6, <2>1, <2>2 DEF Reached, turned
<1>7. ASSUME ~loop.over
      PROVE  loop.scanned = n - 1 /\ loop.scanned + 1 = n
    BY <1>7 DEF Reached
<1> DEFINE before == Taken(rest, n - 1)
           after == Taken(rest, n)
<1>8. /\ Alone(group, after) =
            Alone(group, before) \cup (IF group[key] = 0 THEN {key} ELSE {})
      /\ Groups(group, after) =
            Groups(group, before) \cup (IF group[key] = 0 THEN {} ELSE {group[key]})
    BY TakenNext
<1>9. /\ loop.active = IF loop.scanned = 0 THEN 0 ELSE group[rest[loop.scanned]]
      /\ loop.last = IF loop.scanned = 0 THEN 0 ELSE rest[loop.scanned]
      /\ Elems(loop.items) = Alone(group, Taken(rest, loop.scanned))
      /\ Elems(loop.prefixes) = Groups(group, Taken(rest, loop.scanned))
      /\ Sorted(loop.items) /\ Distinct(loop.prefixes)
    BY DEF Reached
<1>10. loop.budget + Len(loop.items) + Len(loop.prefixes) = limit
    BY DEF Reached
<1>11. CASE ~loop.over /\ open
    <2>1. /\ turned.items = loop.items /\ turned.prefixes = loop.prefixes
          /\ turned.budget = loop.budget /\ turned.active = loop.active
          /\ turned.last = key /\ turned.scanned = n /\ ~turned.over
        BY <1>5, <1>7, <1>11
    <2>2. loop.active \in Groups(group, before) /\ group[key] = loop.active /\ group[key] # 0
        <3>1. loop.scanned # 0 /\ loop.scanned \in 1 .. n - 1
            BY <1>4, <1>7, <1>9, <1>11
        <3>2. rest[loop.scanned] \in before
            BY <3>1 DEF Taken
        <3> HIDE DEF before, key
        <3>3. QED
            BY <1>9, <1>11, <3>1, <3>2 DEF Groups
    <2>3. /\ Alone(group, after) = Alone(group, before)
          /\ Groups(group, after) = Groups(group, before)
        <3> HIDE DEF before, after
        <3>1. QED
            BY <1>8, <2>2
    <2>4. /\ Elems(turned.items) = Alone(group, after)
          /\ Elems(turned.prefixes) = Groups(group, after)
        <3> HIDE DEF turned
        <3>1. QED
            BY <1>7, <1>9, <1>11, <2>1, <2>3
    <2>5. n # 0 /\ turned.last = rest[n] /\ turned.active = group[rest[n]]
        <3> HIDE DEF turned
        <3>1. QED
            BY <2>1, <2>2
    <2> HIDE DEF turned
    <2>6. QED
        BY <1>5, <1>9, <1>10, <2>1, <2>4, <2>5 DEF Reached, turned
<1>12. CASE ~loop.over /\ ~open /\ loop.budget = 0
    <2>1. /\ turned.items = loop.items /\ turned.prefixes = loop.prefixes
          /\ turned.budget = loop.budget /\ turned.active = loop.active
          /\ turned.last = loop.last /\ turned.scanned = loop.scanned /\ turned.over
        BY <1>5, <1>12
    <2>2. loop.scanned < n /\ rest[loop.scanned + 1] = key
        BY <1>7, <1>12
    <2>3. group[key] = 0 \/ group[key] # loop.active
        BY <1>12
    <2> HIDE DEF turned, key
    <2>4. /\ turned.over /\ turned.scanned < n /\ turned.budget = 0
          /\ \/ group[rest[turned.scanned + 1]] = 0
             \/ group[rest[turned.scanned + 1]] # turned.active
        BY <1>12, <2>1, <2>2, <2>3
    <2>5. /\ turned.last = IF turned.scanned = 0 THEN 0 ELSE rest[turned.scanned]
          /\ turned.active = IF turned.scanned = 0 THEN 0 ELSE group[rest[turned.scanned]]
          /\ Elems(turned.items) = Alone(group, Taken(rest, turned.scanned))
          /\ Elems(turned.prefixes) = Groups(group, Taken(rest, turned.scanned))
          /\ Sorted(turned.items) /\ Distinct(turned.prefixes)
          /\ turned.budget + Len(turned.items) + Len(turned.prefixes) = limit
        BY <1>9, <1>10, <2>1
    <2>6. turned \in Loops
        BY <1>5
    <2>7. QED
        BY <2>4, <2>5, <2>6 DEF Reached, turned, key
<1>13. CASE ~loop.over /\ ~open /\ loop.budget # 0
    <2>1. /\ turned.items = IF group[key] = 0 THEN Append(loop.items, key) ELSE loop.items
          /\ turned.prefixes = IF group[key] = 0 THEN loop.prefixes
                             ELSE Append(loop.prefixes, group[key])
          /\ turned.budget = loop.budget - 1 /\ turned.active = group[key]
          /\ turned.last = key /\ turned.scanned = n /\ ~turned.over
        <3>1. turned = [items |-> IF group[key] = 0 THEN Append(loop.items, key) ELSE loop.items,
                      prefixes |-> IF group[key] = 0 THEN loop.prefixes
                                   ELSE Append(loop.prefixes, group[key]),
                      budget |-> loop.budget - 1, active |-> group[key],
                      last |-> key, scanned |-> loop.scanned + 1, over |-> FALSE]
            BY <1>5, <1>13
        <3>2. loop.scanned + 1 = n
            BY <1>7, <1>13
        <3> HIDE DEF turned, key
        <3>3. QED
            BY <3>1, <3>2
    <2>2. CASE group[key] = 0
        <3>1. \A i \in 1 .. Len(loop.items) : loop.items[i] < key
            <4> SUFFICES ASSUME NEW i \in 1 .. Len(loop.items) PROVE loop.items[i] < key
                OBVIOUS
            <4>1. loop.items[i] \in before
                <5>1. loop.items[i] \in Elems(loop.items)
                    BY DEF Elems
                <5> HIDE DEF before, key
                <5>2. QED
                    BY <1>7, <1>9, <1>13, <5>1 DEF Alone, before
            <4>2. PICK m \in 1 .. n - 1 : loop.items[i] = rest[m]
                BY <4>1 DEF Taken
            <4>3. m \in 1 .. Len(rest) /\ m < n
                BY <1>1
            <4>4. QED
                BY <4>2, <4>3 DEF Sorted
        <3>2. /\ Elems(Append(loop.items, key)) = Elems(loop.items) \cup {key}
              /\ Sorted(Append(loop.items, key))
            <4> HIDE DEF key
            <4>1. QED
                BY <1>1, <1>2, <1>9, <3>1, AppendElems
        <3>3. /\ Elems(turned.items) = Alone(group, after)
              /\ Elems(turned.prefixes) = Groups(group, after)
            <4> HIDE DEF turned, key, after
            <4>1. QED
                BY <1>7, <1>8, <1>9, <1>13, <2>1, <2>2, <3>2
        <3>4. turned.budget + Len(turned.items) + Len(turned.prefixes) = limit
            <4>1. /\ Len(turned.items) = Len(loop.items) + 1
                  /\ Len(turned.prefixes) = Len(loop.prefixes)
                BY <1>1, <1>2, <2>1, <2>2
            <4>2. Len(loop.items) \in Nat /\ Len(loop.prefixes) \in Nat
                BY <1>2
            <4>3. turned.budget = loop.budget - 1
                BY <2>1
            <4> DEFINE budget == loop.budget
                       shown == Len(loop.items)
                       folded == Len(loop.prefixes)
            <4>4. budget \in Nat /\ shown \in Nat /\ folded \in Nat
                BY <1>3, <4>2
            <4>5. budget + shown + folded = limit
                BY <1>10
            <4>6. turned.budget = budget - 1
                BY <4>3
            <4>7. Len(turned.items) = shown + 1 /\ Len(turned.prefixes) = folded
                BY <4>1
            <4> HIDE DEF turned, budget, shown, folded
            <4>8. QED
                BY <4>4, <4>5, <4>6, <4>7
        <3>5. n # 0
            OBVIOUS
        <3> HIDE DEF turned
        <3>6. QED
            BY <1>5, <1>9, <2>1, <2>2, <3>2, <3>3, <3>4, <3>5 DEF Reached, turned
    <2>3. CASE group[key] # 0
        <3>1. group[key] \notin Elems(loop.prefixes)
            <4> SUFFICES ASSUME group[key] \in Groups(group, before) PROVE FALSE
                BY <1>7, <1>9, <1>13
            <4>1. PICK m \in 1 .. n - 1 : group[rest[m]] = group[key]
                BY DEF Groups, Taken
            <4>2. /\ m \in 1 .. Len(rest) /\ n - 1 \in 1 .. Len(rest) /\ m <= n - 1 /\ n - 1 <= n
                BY <1>1
            <4>3. group[rest[n - 1]] = group[key]
                BY <2>3, <4>1, <4>2 DEF Together, Walked!NoGroup
            <4>4. loop.active = group[key]
                BY <1>7, <1>9, <1>13, <4>2, <4>3
            <4>5. QED
                BY <1>13, <2>3, <4>4
        <3>2. /\ Elems(Append(loop.prefixes, group[key])) =
                    Elems(loop.prefixes) \cup {group[key]}
              /\ Distinct(Append(loop.prefixes, group[key]))
            <4> HIDE DEF key
            <4>1. QED
                BY <1>1, <1>2, <1>9, <3>1, AppendElems
        <3>3. /\ Elems(turned.items) = Alone(group, after)
              /\ Elems(turned.prefixes) = Groups(group, after)
            <4> HIDE DEF turned, key, after
            <4>1. QED
                BY <1>7, <1>8, <1>9, <1>13, <2>1, <2>3, <3>2
        <3>4. turned.budget + Len(turned.items) + Len(turned.prefixes) = limit
            <4>1. /\ Len(turned.items) = Len(loop.items)
                  /\ Len(turned.prefixes) = Len(loop.prefixes) + 1
                BY <1>1, <1>2, <2>1, <2>3
            <4>2. Len(loop.items) \in Nat /\ Len(loop.prefixes) \in Nat
                BY <1>2
            <4>3. turned.budget = loop.budget - 1
                BY <2>1
            <4> DEFINE budget == loop.budget
                       shown == Len(loop.items)
                       folded == Len(loop.prefixes)
            <4>4. budget \in Nat /\ shown \in Nat /\ folded \in Nat
                BY <1>3, <4>2
            <4>5. budget + shown + folded = limit
                BY <1>10
            <4>6. turned.budget = budget - 1
                BY <4>3
            <4>7. Len(turned.items) = shown /\ Len(turned.prefixes) = folded + 1
                BY <4>1
            <4> HIDE DEF turned, budget, shown, folded
            <4>8. QED
                BY <4>4, <4>5, <4>6, <4>7
        <3>5. n # 0
            OBVIOUS
        <3> HIDE DEF turned
        <3>6. QED
            BY <1>5, <1>9, <2>1, <2>3, <3>2, <3>3, <3>4, <3>5 DEF Reached, turned
    <2>4. QED
        BY <2>2, <2>3
<1>14. QED
    BY <1>2, <1>6, <1>11, <1>12, <1>13

\* A cut of paginateHierarchy() covers the list up to some key: of any sorted list, in which the
\* keys of a group stand together, it shows the keys and the groups up to there, each once and in
\* key order; never a part of a group; at most as many as were asked for, and so many unless it
\* is the last cut; and its cursor is the key where it ends, or none at the end of the list.
THEOREM PagesAreWhole ==
    ASSUME NEW group, Grouping(group), NEW rest \in Seq(Nat \ {Walked!NoCursor}),
           Sorted(rest), Together(group, rest), NEW limit \in Nat \ {0}
    PROVE  LET cut == Walked!CutPage(group, rest, limit)
           IN  \E n \in 0 .. Len(rest) :
                  /\ Elems(cut.items) = {k \in Taken(rest, n) : group[k] = Walked!NoGroup}
                  /\ Elems(cut.prefixes) =
                        {group[k] : k \in {key \in Taken(rest, n) : group[key] # Walked!NoGroup}}
                  /\ Sorted(cut.items) /\ Distinct(cut.prefixes)
                  /\ Len(cut.items) + Len(cut.prefixes) <= limit
                  /\ n < Len(rest) => Len(cut.items) + Len(cut.prefixes) = limit
                  /\ \A i \in 1 .. n, j \in n + 1 .. Len(rest) :
                        group[rest[i]] # Walked!NoGroup => group[rest[j]] # group[rest[i]]
                  /\ cut.cursor = IF n < Len(rest) THEN rest[n] ELSE Walked!NoCursor
                  /\ rest # <<>> => n > 0
<1> DEFINE N == Len(rest)
           base == Walked!Unread(limit)
           Turned(n, s) == Walked!Turn(group, s, rest[n])
           step == [a \in (1 .. N) \X Loops |-> Turned(a[1], a[2])]
           after == Walked!LoopOver(group, rest, limit)
<1>1. N \in Nat /\ (\A n \in 1 .. N : rest[n] \in Nat /\ rest[n] # 0) /\ rest \in Seq(Nat)
    BY DEF Walked!NoCursor
<1>2. base \in Loops
    BY DEF Loops, Walked!Unread, Walked!NoGroup, Walked!NoCursor
<1>3. ASSUME NEW n \in 1 .. N, NEW s \in Loops
      PROVE  Turned(n, s) \in Loops
    BY <1>1, OneTurn
<1>4. step \in [(1 .. N) \X Loops -> Loops]
    <2> HIDE DEF Turned, N
    <2>1. QED
        BY <1>3
<1>5. PICK f : Turns(Loops, N, base, step, f)
    <2> HIDE DEF step, base, N
    <2>1. HasTurns(Loops, N, base, step)
        BY <1>1, <1>2, <1>4, LoopsTurn
    <2>2. QED
        BY <2>1 DEF HasTurns
<1>6. \A n \in 1 .. N : step[<<n, f[n - 1]>>] = Turned(n, f[n - 1])
    <2> HIDE DEF Turned
    <2>1. \A n \in 1 .. N : n - 1 \in 0 .. N /\ f[n - 1] \in Loops
        <3> HIDE DEF N, step, base
        <3>1. QED
            BY <1>1, <1>5 DEF Turns
    <2>2. QED
        BY <2>1
<1>7. f = [n \in 0 .. N |-> IF n = 0 THEN base ELSE Turned(n, f[n - 1])]
    <2> HIDE DEF Turned, step, base
    <2>1. \A n \in 0 .. N : n # 0 => n \in 1 .. N
        BY <1>1
    <2>2. QED
        BY <1>5, <1>6, <2>1 DEF Turns
<1>8. after = [n \in 0 .. N |-> IF n = 0 THEN base ELSE Turned(n, after[n - 1])]
    BY <1>7 DEF Walked!LoopOver
<1> DEFINE P == {n \in 0 .. N : Reached(group, rest, limit, n, after[n])}
<1>9. 0 \in P
    <2>1. after[0] = base
        <3> HIDE DEF after, Turned, base
        <3>1. QED
            BY <1>1, <1>8
    <2>2. /\ base.items = <<>> /\ base.prefixes = <<>> /\ base.budget = limit /\ base.active = 0
          /\ base.last = 0 /\ base.scanned = 0 /\ ~base.over
        BY DEF Walked!Unread, Walked!NoGroup, Walked!NoCursor
    <2>3. Elems(<<>>) = {} /\ Taken(rest, 0) = {} /\ Sorted(<<>>) /\ Distinct(<<>>)
        BY DEF Elems, Taken, Sorted, Distinct
    <2>4. Alone(group, {}) = {} /\ Groups(group, {}) = {}
        BY DEF Alone, Groups
    <2>5. Len(<<>>) = 0 /\ limit + 0 + 0 = limit
        OBVIOUS
    <2> HIDE DEF base
    <2>6. base.budget + Len(base.items) + Len(base.prefixes) = limit
        BY <2>2, <2>5
    <2>7. Reached(group, rest, limit, 0, base)
        BY <1>2, <2>2, <2>3, <2>4, <2>6 DEF Reached
    <2> HIDE DEF after
    <2>8. QED
        BY <1>1, <2>1, <2>7
<1>10. ASSUME NEW n \in 1 .. N, n - 1 \in P
       PROVE  n \in P
    <2>1. after[n] = Turned(n, after[n - 1])
        <3> HIDE DEF after, Turned, base
        <3>1. n \in 0 .. N /\ n # 0
            BY <1>1
        <3> HIDE DEF N
        <3>2. QED
            BY <1>8, <3>1
    <2> HIDE DEF after
    <2>2. Reached(group, rest, limit, n - 1, after[n - 1])
        BY <1>10
    <2>3. after[n - 1] \in Loops
        BY <2>2 DEF Reached
    <2>4. QED
        BY <1>1, <2>1, <2>2, <2>3, NextKey
<1>11. Reached(group, rest, limit, N, after[N])
    <2> HIDE DEF P
    <2>1. \A n \in 0 .. N : n \in P
        BY <1>1, <1>9, <1>10, UpTo
    <2>2. N \in P
        BY <1>1, <2>1
    <2>3. QED
        BY <2>2 DEF P
<1> DEFINE loop == after[N]
           cut == Walked!CutPage(group, rest, limit)
<1>12. cut = [items |-> loop.items, prefixes |-> loop.prefixes,
               cursor |-> IF loop.scanned < N THEN loop.last ELSE 0]
    BY DEF Walked!CutPage, Walked!CursorAfter, Walked!NoCursor
<1> HIDE DEF after, cut
<1>13. /\ loop.items \in Seq(Nat) /\ loop.prefixes \in Seq(Nat) /\ loop.over \in BOOLEAN
    BY <1>11 DEF Loops, Reached
<1>14. loop.budget \in Nat
    BY <1>11 DEF Loops, Reached
<1>15. loop.scanned \in Nat
    BY <1>11 DEF Loops, Reached
<1>16. /\ Len(loop.items) \in Nat /\ Len(loop.prefixes) \in Nat
       /\ loop.budget + Len(loop.items) + Len(loop.prefixes) = limit
    BY <1>11, <1>13 DEF Reached
<1>17. /\ loop.scanned <= N
       /\ loop.scanned < N => /\ loop.over /\ loop.budget = 0
                              /\ \/ group[rest[loop.scanned + 1]] = 0
                                 \/ group[rest[loop.scanned + 1]] # loop.active
       /\ loop.last = IF loop.scanned = 0 THEN 0 ELSE rest[loop.scanned]
       /\ loop.active = IF loop.scanned = 0 THEN 0 ELSE group[rest[loop.scanned]]
       /\ Elems(loop.items) = Alone(group, Taken(rest, loop.scanned))
       /\ Elems(loop.prefixes) = Groups(group, Taken(rest, loop.scanned))
       /\ Sorted(loop.items) /\ Distinct(loop.prefixes)
    BY <1>1, <1>11, <1>13, <1>15 DEF Reached
<1> HIDE DEF loop
<1>18. loop.scanned = 0 => N = 0
    <2> SUFFICES ASSUME loop.scanned = 0, N # 0 PROVE FALSE
        OBVIOUS
    <2>1. Taken(rest, 0) = {} /\ loop.scanned < N
        BY <1>1 DEF Taken
    <2>2. Elems(loop.items) = {} /\ Elems(loop.prefixes) = {}
        BY <1>17, <2>1 DEF Alone, Groups
    <2>3. Len(loop.items) = 0 /\ Len(loop.prefixes) = 0
        <3>1. ASSUME NEW s \in Seq(Nat), Elems(s) = {} PROVE Len(s) = 0
            <4>1. Len(s) # 0 => s[1] \in Elems(s)
                BY DEF Elems
            <4>2. QED
                BY <3>1, <4>1
        <3>2. QED
            BY <1>13, <2>2, <3>1
    <2>4. QED
        BY <1>14, <1>16, <1>17, <2>1, <2>3
<1>19. ASSUME NEW i \in 1 .. loop.scanned, NEW j \in loop.scanned + 1 .. N,
              group[rest[i]] # 0, group[rest[j]] = group[rest[i]]
       PROVE  FALSE
    <2> DEFINE n == loop.scanned
    <2>1. /\ n \in 1 .. N /\ n + 1 \in 1 .. N /\ i \in 1 .. N /\ j \in 1 .. N
          /\ i <= n /\ n <= j /\ i <= n + 1 /\ n + 1 <= j /\ n < N /\ n # 0
        <3>1. n \in Nat /\ n <= N /\ N \in Nat
            BY <1>1, <1>15, <1>17
        <3> HIDE DEF n, N
        <3>2. QED
            BY <3>1 DEF n, N
    <2> HIDE DEF n
    <2>2. group[rest[n]] = group[rest[i]] /\ group[rest[n + 1]] = group[rest[i]]
        BY <1>19, <2>1 DEF Together, Walked!NoGroup
    <2>3. QED
        BY <1>17, <1>19, <2>1, <2>2 DEF n
<1>20. cut.items = loop.items /\ cut.prefixes = loop.prefixes
       /\ cut.cursor = IF loop.scanned < N THEN loop.last ELSE 0
    BY <1>12
<1> DEFINE n == loop.scanned
<1>21. n \in 0 .. N /\ (n < N => n # 0) /\ (rest # <<>> => n > 0)
    BY <1>1, <1>15, <1>17, <1>18
<1>22. /\ Len(cut.items) + Len(cut.prefixes) <= limit
       /\ n < N => Len(cut.items) + Len(cut.prefixes) = limit
    <2> DEFINE budget == loop.budget
               shown == Len(loop.items)
               folded == Len(loop.prefixes)
    <2>1. /\ budget \in Nat /\ shown \in Nat /\ folded \in Nat
          /\ budget + shown + folded = limit
          /\ n < N => budget = 0
        BY <1>14, <1>16, <1>17
    <2>2. Len(cut.items) = shown /\ Len(cut.prefixes) = folded
        BY <1>20
    <2> HIDE DEF budget, shown, folded
    <2>3. QED
        BY <2>1, <2>2
<1>23. cut.cursor = IF n < N THEN rest[n] ELSE Walked!NoCursor
    BY <1>17, <1>20, <1>21 DEF Walked!NoCursor
<1>24. /\ Elems(cut.items) = {k \in Taken(rest, n) : group[k] = Walked!NoGroup}
       /\ Elems(cut.prefixes) =
             {group[k] : k \in {key \in Taken(rest, n) : group[key] # Walked!NoGroup}}
       /\ Sorted(cut.items) /\ Distinct(cut.prefixes)
    BY <1>17, <1>20 DEF Alone, Groups, Walked!NoGroup
<1>25. \A i \in 1 .. n, j \in n + 1 .. N :
          group[rest[i]] # Walked!NoGroup => group[rest[j]] # group[rest[i]]
    BY <1>19 DEF Walked!NoGroup
<1> HIDE DEF n
<1>26. QED
    BY <1>21, <1>22, <1>23, <1>24, <1>25 DEF cut
=============================================================================
