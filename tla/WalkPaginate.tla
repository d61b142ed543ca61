---------------------------- MODULE WalkPaginate ----------------------------
(***************************************************************************)
(* Listing for providers that have no pages or no delimiter of their own:  *)
(* internal/walk-paginate.ts.  The adapter gathers every key under the     *)
(* prefix, sorts them, and cuts one page out of the list; the cursor is    *)
(* the last key that the page before consumed.                             *)
(*                                                                         *)
(* A key is its position in key order, and group[k] the group (the prefix  *)
(* up to the next delimiter) that it collapses into, NoGroup if it has no  *)
(* delimiter.  Keys of one group begin alike and so stand together.  The   *)
(* operators are pure; the named assumptions at the end compare them with  *)
(* a definition by sets, for every tree of up to four keys.                *)
(***************************************************************************)
EXTENDS Integers, Sequences, FiniteSets
LOCAL INSTANCE SequencesExt

NoCursor == 0
NoGroup == 0

(***************************************************************************)
(* The pages.                                                              *)
(***************************************************************************)

\* findIndex() of the first key beyond the cursor, and slice() from there.
From(keys, cursor) == SetToSortSeq({k \in keys : k > cursor}, <)

\* The page's cursor: where it ended, if it did not reach the end of the list.
CursorAfter(scanned, rest, last) == IF scanned < Len(rest) THEN last ELSE NoCursor

\* paginateKeys()
FlatPage(keys, cursor, limit) ==
    LET rest == From(keys, cursor)
        slice == SubSeq(rest, 1, IF limit < Len(rest) THEN limit ELSE Len(rest))
        last == IF slice = <<>> THEN NoCursor ELSE Last(slice)
    IN  [items |-> slice, prefixes |-> <<>>,
         cursor |-> CursorAfter(Len(slice), rest, last)]

\* The loop of paginateHierarchy() before its first turn.
Unread(limit) ==
    [items |-> <<>>, prefixes |-> <<>>, budget |-> limit, active |-> NoGroup,
     last |-> NoCursor, scanned |-> 0, over |-> FALSE]

Consumed(loop, key) == [loop EXCEPT !.last = key, !.scanned = @ + 1]

\* One turn: a key of the group that is open is consumed for nothing, and any
\* other opens an entry of its own while there is budget.
Turn(group, loop, key) ==
    IF loop.over THEN loop
    ELSE IF loop.active # NoGroup /\ group[key] = loop.active THEN Consumed(loop, key)
    ELSE IF loop.budget = 0 THEN [loop EXCEPT !.over = TRUE]
    ELSE [Consumed(loop, key) EXCEPT
            !.budget = @ - 1,
            !.active = group[key],
            !.items = IF group[key] = NoGroup THEN Append(@, key) ELSE @,
            !.prefixes = IF group[key] = NoGroup THEN @ ELSE Append(@, group[key])]

\* The loop after each of the keys that are left.
LoopOver(group, rest, limit) ==
    LET after[n \in 0 .. Len(rest)] ==
            IF n = 0 THEN Unread(limit) ELSE Turn(group, after[n - 1], rest[n])
    IN  after

\* paginateHierarchy(), from the cursor on.
CutPage(group, rest, limit) ==
    LET loop == LoopOver(group, rest, limit)[Len(rest)]
    IN  [items |-> loop.items, prefixes |-> loop.prefixes,
         cursor |-> CursorAfter(loop.scanned, rest, loop.last)]

FoldedPage(group, keys, cursor, limit) == CutPage(group, From(keys, cursor), limit)

\* pageKeyList(): the delimiter decides.
PageKeyList(delimited, group, keys, cursor, limit) ==
    IF delimited THEN FoldedPage(group, keys, cursor, limit)
    ELSE FlatPage(keys, cursor, limit)

\* list() of the fs adapter leaves out the files that have gone since the walk.
WithoutGone(listing, gone) ==
    [listing EXCEPT !.items = SelectSeq(@, LAMBDA k : k \notin gone)]

\* A caller that passes each page's cursor on to the next call, while the call
\* number i finds the keys views[i].
Walk(delimited, group, views, limit) ==
    FoldLeft(LAMBDA walk, keys :
                IF walk.ended THEN walk
                ELSE LET got == PageKeyList(delimited, group, keys, walk.cursor, limit)
                     IN  [items |-> walk.items \o got.items,
                          prefixes |-> walk.prefixes \o got.prefixes,
                          cursor |-> got.cursor,
                          ended |-> got.cursor = NoCursor],
             [items |-> <<>>, prefixes |-> <<>>, cursor |-> NoCursor, ended |-> FALSE],
             views)

(***************************************************************************)
(* What they should be.                                                    *)
(***************************************************************************)

All == 1 .. 4

\* Trees: neighbours in one group, and no group in two places.
Trees ==
    {group \in [All -> 0 .. 2] :
        \A i, k \in All : (i < k /\ group[i] = group[k] /\ group[i] # NoGroup)
                              => \A j \in i .. k : group[j] = group[i]}

Flat == [k \in All |-> NoGroup]

\* The entry of key k among `keys`: itself, or its whole group.
EntryOf(group, keys, k) ==
    IF group[k] = NoGroup THEN {k} ELSE {j \in keys : group[j] = group[k]}

Entries(group, keys) == {EntryOf(group, keys, k) : k \in keys}

Before(d, e) == \A j \in d, k \in e : j < k

\* The first `limit` entries, in key order.
FirstOf(entries, limit) ==
    {e \in entries : Cardinality({d \in entries : Before(d, e)}) < limit}

\* The entries a page shows of `keys`.
Shown(group, keys, listing) ==
    {{k} : k \in ToSet(listing.items)}
        \cup {{k \in keys : group[k] = g} : g \in ToSet(listing.prefixes)}

Ascending(s) == \A i, j \in DOMAIN s : i < j => s[i] < s[j]

\* The pages are exact.  A page of internal/walk-paginate.ts shows the first
\* `limit` entries beyond the cursor, each once and a group never in part, and it
\* has a cursor just when entries remain, which then is the last key of what it
\* shows.  With limit 0 it shows nothing and claims to be the last.
ASSUME PagesAreExact ==
    \A group \in Trees, keys \in SUBSET All, cursor \in {NoCursor} \cup All, limit \in 0 .. 3 :
        LET beyond == {k \in keys : k > cursor}
            first == FirstOf(Entries(group, beyond), limit)
            got == FoldedPage(group, keys, cursor, limit)
        IN  /\ Shown(group, beyond, got) = first
            /\ Len(got.items) + Len(got.prefixes) = Cardinality(first)
            /\ Ascending(got.items)
            /\ IF first = Entries(group, beyond) \/ limit = 0
                 THEN got.cursor = NoCursor
                 ELSE got.cursor \in UNION first /\ \A k \in UNION first : k <= got.cursor

\* Without a group the folded page is the flat one.
ASSUME FlatIsFolded ==
    \A keys \in SUBSET All, cursor \in {NoCursor} \cup All, limit \in 0 .. 3 :
        FlatPage(keys, cursor, limit) = FoldedPage(Flat, keys, cursor, limit)

\* A listing beside changes.  While a caller walks the pages the keys change once,
\* from `before` to `after`.  The walk ends; a key that stays is shown once, a key
\* that comes or goes at most once, and no other; a group with a key that stays is
\* shown, and twice only if it gained a key.
ASSUME WalksAreWhole ==
    \A group \in Trees, before, after \in SUBSET All, changed \in 0 .. 2, limit \in {1, 2} :
        LET views == [i \in 1 .. Cardinality(All) + 1 |-> IF i <= changed THEN before ELSE after]
            walk == Walk(TRUE, group, views, limit)
            seen == IF changed = 0 THEN after ELSE before
            stay == {k \in All : k \in seen /\ k \in after}
            Times(g) == Cardinality({i \in DOMAIN walk.prefixes : walk.prefixes[i] = g})
        IN  /\ walk.ended
            /\ Ascending(walk.items)
            /\ {k \in stay : group[k] = NoGroup} \subseteq ToSet(walk.items)
            /\ ToSet(walk.items) \subseteq {k \in seen \cup after : group[k] = NoGroup}
            /\ \A k \in stay : group[k] # NoGroup => Times(group[k]) >= 1
            /\ \A g \in ToSet(walk.prefixes) :
                  Times(g) > 1 => \E k \in after \ seen : group[k] = g

\* What the tiering plugin takes for granted of a tier's page: it covers a stretch
\* of the keys from the cursor on, all of them or none beyond its own cursor, and
\* files that have gone do not move that cursor.
ASSUME PagesFitTiering ==
    \A group \in Trees, keys, gone \in SUBSET All,
       cursor \in {NoCursor} \cup 1 .. 3, limit \in {1, 2} :
        LET page == FoldedPage(group, keys, cursor, limit)
            got == WithoutGone(page, gone)
        IN  \E upTo \in cursor + 1 .. 4 :
               /\ got.cursor = IF upTo = 4 THEN NoCursor ELSE upTo
               /\ Shown(group, {k \in keys : k > cursor}, got)
                    = {e \in Entries(group, {k \in keys : cursor < k /\ k <= upTo}) :
                          \A k \in e : group[k] = NoGroup => k \notin gone}
=============================================================================
