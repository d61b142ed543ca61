----------------------------- MODULE TieredList -----------------------------
(***************************************************************************)
(* The merged listing of the tiering plugin, listMerged of                 *)
(* tiering/index.ts, and the two tiers it lists.  A caller walks it to its *)
(* end, passing back the composite cursor of each call to the next one,    *)
(* while the tiers' contents may change (Put and Remove).                  *)
(*                                                                         *)
(* An entry, be it a key or a delimiter prefix, is a number, its position  *)
(* in key order, and a cursor is the position a page ended at; 0 stands    *)
(* for the top.                                                            *)
(***************************************************************************)
EXTENDS Integers, FiniteSetsExt

CONSTANTS
    LastKey,      \* the number of keys
    MaxRefusals   \* bound: how many calls of the listing fail and are repeated

ASSUME LastKeyAssumption == LastKey \in Nat \ {0}
ASSUME RefusalsAssumption == MaxRefusals \in Nat

Keys == 1 .. LastKey
Nothing == 0
Tier == {"hot", "cold"}
Other(t) == IF t = "hot" THEN "cold" ELSE "hot"

VARIABLES
    stored,     \* stored[t][k]: the version of k in tier t, or Nothing
    listing,    \* "idle", "calling", "done"
    slot,       \* slot[t]: the tier's slot of the composite cursor
    page,       \* page[t]: what it answered in this call
    listed,     \* what the calls have returned: key, tier and number of the call
    round,      \* how many calls have returned an entry
    refusals,
    touched,    \* history: the keys written since the listing began
    grown       \* history: "yes" once a tier has got an entry more since then

listVars == <<listing, slot, page, listed, round, refusals>>

\* A tier without a slot is drained and emitted.
Drained == [cursor |-> -1, skip |-> 0]
Top == [cursor |-> 0, skip |-> 0]
Slot == [cursor : -1 .. LastKey, skip : 0 .. LastKey]
InPlay(t) == slot[t].cursor # -1

NoMore == -1
Unfetched == [asked |-> -1, items |-> {}, next |-> NoMore]
Page == [asked : -1 .. LastKey, items : SUBSET Keys, next : -1 .. LastKey]
Fetched(t) == page[t].asked # -1

ListTypeOK ==
    /\ listing \in {"idle", "calling", "done"}
    /\ slot \in [Tier -> Slot] /\ page \in [Tier -> Page]
    /\ listed \subseteq [key : Keys, tier : Tier, round : Nat]
    /\ round \in Nat /\ refusals \in 0 .. MaxRefusals
    /\ touched \subseteq Keys /\ grown \in {"yes", "no"}

ListInit ==
    /\ listing = "idle"
    /\ slot = [t \in Tier |-> Top] /\ page = [t \in Tier |-> Unfetched]
    /\ listed = {} /\ round = 0 /\ refusals = 0 /\ touched = {} /\ grown = "no"

(***************************************************************************)
(* Writes to a tier.                                                       *)
(***************************************************************************)

Put(t, k, v) ==
    /\ stored' = [stored EXCEPT ![t][k] = v]
    /\ touched' = touched \cup {k}
    /\ grown' = IF stored[t][k] = Nothing THEN "yes" ELSE grown

Remove(t, k) ==
    /\ stored' = [stored EXCEPT ![t][k] = Nothing]
    /\ touched' = touched \cup {k}
    /\ UNCHANGED grown

(***************************************************************************)
(* One call of list().                                                     *)
(***************************************************************************)

StartListing ==
    /\ listing = "idle"
    /\ listing' = "calling"
    /\ touched' = {} /\ grown' = "no"
    /\ UNCHANGED <<stored, slot, page, listed, round, refusals>>

\* A tier in play answers with a page that covers the positions up to `upTo`, of
\* the provider's choice, and none at all when the entries in them are not for
\* this caller to see.  A page that was fetched before does not get shorter than
\* what was emitted of it, unless entries were added.
FetchPage(t, upTo) ==
    /\ listing = "calling" /\ InPlay(t) /\ ~Fetched(t)
    /\ upTo \in Keys /\ upTo > slot[t].cursor
    /\ upTo < slot[t].skip => grown = "yes"
    /\ page' = [page EXCEPT ![t] =
          [asked |-> slot[t].cursor,
           items |-> {k \in Keys : /\ stored[t][k] # Nothing
                                   /\ slot[t].cursor < k /\ k <= upTo
                                   /\ k > slot[t].skip},
           next  |-> IF upTo = LastKey THEN NoMore ELSE upTo]]
    /\ UNCHANGED <<stored, listing, slot, listed, round, refusals, touched, grown>>

\* The tiers whose page is not the last.
Continued == {t \in Tier : page[t].next # NoMore}

\* Slip: the bound is the furthest page, not the nearest.
PageMaxFurthest(t) == LastKey

PageMax(t) == Max(page[t].items)

\* emissionBound(): nothing can be emitted beside an empty page that has a
\* continuation, everything when no page has one.
EmitNone == \E t \in Continued : page[t].items = {}
EmitAll == Continued = {}
Bound == Min({PageMax(t) : t \in Continued})

Emitted(t) ==
    IF EmitNone THEN {}
    ELSE IF EmitAll THEN page[t].items
    ELSE {k \in page[t].items : k <= Bound}

\* Slip: an empty page is held as well, and asked for again.
HeldEmpty(t) == EmitNone \/ Emitted(t) # page[t].items

Held(t) == Emitted(t) # page[t].items

\* nextSlot(): a held page is asked for again, without what was emitted of it.
NextSlot(t) ==
    IF ~InPlay(t) THEN Drained
    ELSE IF Held(t)
      THEN [cursor |-> page[t].asked, skip |-> IF EmitNone THEN slot[t].skip ELSE Bound]
    ELSE IF page[t].next = NoMore THEN Drained
    ELSE [cursor |-> page[t].next, skip |-> 0]

\* mergeItems(): the hot tier's entry wins.
Merged(t) == IF t = "hot" THEN Emitted("hot") ELSE Emitted("cold") \ Emitted("hot")

\* Both pages are there: the call returns, and the caller calls again for as long
\* as it is given a cursor.
Merge ==
    /\ listing = "calling"
    /\ \A t \in Tier : InPlay(t) => Fetched(t)
    /\ listed' = listed \cup UNION {[key : Merged(t), tier : {t}, round : {round}] : t \in Tier}
    /\ slot' = [t \in Tier |-> NextSlot(t)]
    /\ page' = [t \in Tier |-> Unfetched]
    /\ listing' = IF \A t \in Tier : NextSlot(t) = Drained THEN "done" ELSE "calling"
    /\ round' = IF listed' = listed THEN round ELSE round + 1
    /\ UNCHANGED <<stored, refusals, touched, grown>>

\* A tier refuses; the caller repeats the call with the cursor it has.
FetchFails ==
    /\ listing = "calling" /\ refusals < MaxRefusals
    /\ refusals' = refusals + 1
    /\ page' = [t \in Tier |-> Unfetched]
    /\ UNCHANGED <<stored, listing, slot, listed, round, touched, grown>>

ListStep == (\E t \in Tier : \E upTo \in Keys : FetchPage(t, upTo)) \/ Merge

(***************************************************************************)
(* Properties.                                                             *)
(***************************************************************************)

\* As long as no tier got an entry more, no entry is listed twice, and the calls
\* return entries in key order, whatever is overwritten or deleted meanwhile.
ListedOnce ==
    grown = "no" =>
        \A e, f \in listed : /\ e.key = f.key => e = f
                             /\ e.round < f.round => e.key < f.key

\* An entry that stayed where it was while the tiers were listed is listed, and
\* as the hot tier has it if it is in both; one that was nowhere is not.
ListedAll ==
    listing = "done" =>
        \A k \in Keys \ touched :
            /\ (\E t \in Tier : stored[t][k] # Nothing) <=> (\E e \in listed : e.key = k)
            /\ stored["hot"][k] # Nothing => \E e \in listed : e.key = k /\ e.tier = "hot"

ListedInFull == ListedOnce /\ ListedAll

\* A walk of the listing ends, also past empty pages and held entries.
ListingEnds == listing = "calling" ~> listing = "done"
=============================================================================
