---------------------------- MODULE AdapterLists ----------------------------
(***************************************************************************)
(* list() of the adapters, and what listAll() makes of it.  An adapter     *)
(* asks its provider for one page and hands out a cursor, made of what the *)
(* provider offers: a token, the last file shown, a page number, an        *)
(* offset, or nothing.  The pages differ in what they run over, where the  *)
(* prefix is applied and how folders are shown.                            *)
(*                                                                         *)
(* A key is its position in the provider's order.  A tree has the keys     *)
(* present and the folder of each, Root for those without a "/".  A        *)
(* folder among the provider's entries stands at its first key.  A prefix  *)
(* is the folder it leads into, the keys that begin with it, and the       *)
(* folder that it names once its slashes are trimmed.                      *)
(*                                                                         *)
(* The operators are pure; the named assumptions at the end say how far    *)
(* each adapter's pages add up, for every small tree.                      *)
(***************************************************************************)
EXTENDS Integers, FiniteSets
LOCAL INSTANCE SequencesExt
LOCAL INSTANCE WalkPaginate

Root == NoGroup
Nowhere == 3
NoLimit == 0
Unfailed(items, cursor) == [items |-> items, cursor |-> cursor, failed |-> FALSE]

(***************************************************************************)
(* The adapters.  cursor: what it says.  over: what the provider's page    *)
(* runs over, all keys, the children of the root folder, or the files of   *)
(* the prefix's folder.  prefix: who filters by it, and when.  ends: whose *)
(* word it is that there is more.  own: the page size without a limit.     *)
(* folds: how a delimiter is served.                                       *)
(***************************************************************************)

\* list() of s3
S3 == [cursor |-> "token", over |-> "tree", prefix |-> "provider", ends |-> "provider",
       own |-> NoLimit, folds |-> "provider"]

\* list() of the r2 binding, of azure, gcs, firebase-storage, vercel-blob
R2 == S3
Azure == S3
Gcs == S3
Firebase == S3
VercelBlob == S3

\* Some adapters ask for a page size of their own, the number in the source; here
\* two entries stand for it.
OwnSize == 2

\* list() of supabase
Supabase == [S3 EXCEPT !.own = OwnSize]

\* list() of bun-s3, whose answers have no common prefixes.
BunS3 == [S3 EXCEPT !.folds = "no"]

\* list() of cloudinary: with a delimiter it gathers all keys and pages them itself.
Cloudinary == [S3 EXCEPT !.own = OwnSize, !.folds = "gathered"]

\* list() of google-drive: every file is in one Drive folder and has its key as a
\* property, so that the prefix can be applied only to the page.
GoogleDrive == [S3 EXCEPT !.prefix = "page", !.folds = "gathered"]

\* list() of convex
Convex == [S3 EXCEPT !.prefix = "page", !.own = OwnSize, !.folds = "no"]

\* list() of dropbox: with a delimiter it lists the folder that the prefix names.
Dropbox == [S3 EXCEPT !.prefix = "page", !.folds = "folder"]

\* list() of onedrive, and so of sharepoint
OneDrive == [S3 EXCEPT !.over = "top", !.prefix = "page", !.folds = "entries"]

\* list() of box
Box == [OneDrive EXCEPT !.cursor = "offset", !.ends = "full page", !.own = OwnSize]

\* list() of uploadthing
UploadThing == [S3 EXCEPT !.cursor = "offset", !.prefix = "page", !.folds = "no"]

\* list() of bunny-storage: it slices the whole listing of one folder.
Bunny == [S3 EXCEPT !.cursor = "offset", !.over = "folder", !.folds = "no"]

\* list() of pocketbase
PocketBase == [S3 EXCEPT !.cursor = "page", !.own = OwnSize, !.folds = "no"]

\* list() of appwrite
Appwrite == [S3 EXCEPT !.cursor = "file", !.ends = "full page", !.own = OwnSize,
                       !.folds = "no"]

\* list() of netlify-blobs, which is offered no cursor.
Netlify == [S3 EXCEPT !.cursor = "none", !.folds = "pages"]

\* list() of memory, and that of fs, ftp and sftp once the tree is walked.
Memory == [S3 EXCEPT !.own = OwnSize, !.folds = "gathered"]
Fs == Memory
Ftp == Memory
Sftp == Memory

Listers == {S3, R2, Azure, Gcs, Firebase, VercelBlob, Supabase, BunS3, Cloudinary,
            GoogleDrive, Convex, Dropbox, OneDrive, Box, UploadThing, Bunny, PocketBase,
            Appwrite, Netlify, Memory, Fs, Ftp, Sftp}

(***************************************************************************)
(* One page.                                                               *)
(***************************************************************************)

Sorted(entries) == SetToSortSeq(entries, <)

\* A folder's entry stands at its first key.
TopEntries(tree) ==
    {k \in tree.keys :
        \/ tree.folder[k] = Root
        \/ \A j \in tree.keys : tree.folder[j] = tree.folder[k] => k <= j}

\* listDirectoryForPrefix() of bunny-storage: the folder the prefix leads into.
FolderFiles(tree, prefix) == {k \in tree.keys : tree.folder[k] = prefix.leads}

\* What the provider's pages run over.
Offered(a, tree, prefix) ==
    CASE a.over = "top" -> TopEntries(tree)
      [] a.over = "folder" -> FolderFiles(tree, prefix) \cap prefix.keys
      [] OTHER -> IF a.prefix = "provider" THEN tree.keys \cap prefix.keys ELSE tree.keys

\* The entries the adapter makes items of.
IsItem(a, tree, prefix, entry) ==
    /\ entry \in prefix.keys
    /\ a.over = "top" => tree.folder[entry] = Root

Asked(a, limit) == IF limit = NoLimit THEN a.own ELSE limit

\* The provider serves at most `cap` entries, and so many if not told a number.
Served(asked, cap) == IF asked = NoLimit \/ asked > cap THEN cap ELSE asked

\* How many entries a page passes over.
Skipped(a, entries, cursor, served) ==
    CASE a.cursor = "offset" -> cursor
      [] a.cursor = "page" -> IF cursor = NoCursor THEN 0 ELSE (cursor - 1) * served
      [] OTHER -> Cardinality({e \in entries : e <= cursor})

\* The cursor of a page that began after `skipped` of `total` entries.
NextCursor(a, window, skipped, total, cursor, asked, served) ==
    LET reached == skipped + Len(window)
        more == CASE a.ends = "full page" /\ a.cursor = "offset" ->
                        Len(window) = asked /\ reached < total
                  [] a.ends = "full page" -> Len(window) = asked
                  [] a.cursor = "none" -> FALSE
                  [] OTHER -> reached < total
    IN  CASE ~more -> NoCursor
          [] a.cursor = "offset" -> reached
          [] a.cursor = "page" -> (IF cursor = NoCursor THEN 1 ELSE cursor) + 1
          [] OTHER -> Last(window)

\* How many entries a page has.  The adapter of bunny-storage has all entries in hand,
\* and that of netlify-blobs takes the provider's pages until it has enough.
PageSize(a, total, limit, cap) ==
    Served(Asked(a, limit), IF a.cursor = "none" \/ a.over = "folder" THEN total ELSE cap)

\* The provider's page.  A cursor that is a file's id needs the file.
PageOf(a, tree, prefix, cursor, limit, cap) ==
    LET entries == Offered(a, tree, prefix)
        total == Cardinality(entries)
        asked == Asked(a, limit)
        served == PageSize(a, total, limit, cap)
        skipped == Skipped(a, entries, cursor, served)
        end == IF skipped + served < total THEN skipped + served ELSE total
        window == SubSeq(Sorted(entries), skipped + 1, end)
        failed == a.cursor = "file" /\ cursor \notin entries \cup {NoCursor}
    IN  [entries |-> IF failed THEN <<>> ELSE window,
         cursor |-> IF failed THEN NoCursor
                    ELSE NextCursor(a, window, skipped, total, cursor, asked, served),
         failed |-> failed]

\* list() without a delimiter
ListFlat(a, tree, prefix, cursor, limit, cap) ==
    LET page == PageOf(a, tree, prefix, cursor, limit, cap)
    IN  [items |-> SelectSeq(page.entries, LAMBDA e : IsItem(a, tree, prefix, e)),
         prefixes |-> <<>>, cursor |-> page.cursor, failed |-> page.failed]

(***************************************************************************)
(* The folder view.                                                        *)
(***************************************************************************)

\* What a delimiter leaves to collapse: inside a folder nothing.
GroupsBelow(tree, prefix) ==
    IF prefix.leads = Root THEN tree.folder ELSE [k \in DOMAIN tree.folder |-> NoGroup]

\* The common prefixes of a store that knows them, or of paginateHierarchy().
LevelPage(tree, prefix, cursor, served) ==
    FoldedPage(GroupsBelow(tree, prefix), tree.keys \cap prefix.keys, cursor, served)

\* filesListFolder() of the path that the prefix names; no such folder, no entries.
FolderPage(tree, prefix, cursor, served) ==
    IF prefix.names = Root THEN FoldedPage(tree.folder, tree.keys, cursor, served)
    ELSE FlatPage({k \in tree.keys : tree.folder[k] = prefix.names}, cursor, served)

\* The children of the root folder, files and folders that begin with the prefix.
EntriesPage(a, tree, prefix, cursor, limit, cap) ==
    LET page == PageOf(a, tree, prefix, cursor, limit, cap)
        matching == SelectSeq(page.entries,
                              LAMBDA e : prefix.leads = Root /\ e \in prefix.keys)
        IsFile(e) == tree.folder[e] = Root
        folders == SelectSeq(matching, LAMBDA e : ~IsFile(e))
    IN  [items |-> SelectSeq(matching, IsFile),
         prefixes |-> [i \in DOMAIN folders |-> tree.folder[folders[i]]],
         cursor |-> page.cursor]

\* The loop over the pages of netlify-blobs: every folder of a page, and its files
\* until there are `limit` of them.
PagesUntilEnough(tree, prefix, limit, cap) ==
    LET Enough(got) == limit # NoLimit /\ Len(got.items) >= limit
        Read(got, i) ==
            IF Enough(got) \/ (i > 1 /\ got.next = NoCursor) THEN got
            ELSE LET page == LevelPage(tree, prefix, got.next, cap)
                     all == got.items \o page.items
                 IN  [items |-> IF limit # NoLimit /\ Len(all) > limit
                                THEN SubSeq(all, 1, limit) ELSE all,
                      prefixes |-> got.prefixes \o page.prefixes,
                      next |-> page.cursor]
        got == FoldLeftDomain(Read, [items |-> <<>>, prefixes |-> <<>>, next |-> NoCursor],
                              <<1, 2, 3, 4, 5>>)
    IN  [items |-> got.items, prefixes |-> got.prefixes, cursor |-> NoCursor]

\* list() with a delimiter
ListFolded(a, tree, prefix, cursor, limit, cap) ==
    LET served == Served(Asked(a, limit), IF a.folds = "gathered" THEN 4 ELSE cap)
    IN  CASE a.folds = "folder" -> FolderPage(tree, prefix, cursor, served)
          [] a.folds = "entries" -> EntriesPage(a, tree, prefix, cursor, limit, cap)
          [] a.folds = "pages" -> PagesUntilEnough(tree, prefix, limit, cap)
          [] OTHER -> LevelPage(tree, prefix, cursor, served)

(***************************************************************************)
(* All pages.                                                              *)
(***************************************************************************)

Unwalked == [items |-> <<>>, prefixes |-> <<>>, cursor |-> NoCursor, ended |-> FALSE,
             failed |-> FALSE]

Followed(walk, page) ==
    [items |-> walk.items \o page.items, prefixes |-> walk.prefixes \o page.prefixes,
     cursor |-> page.cursor, ended |-> page.cursor = NoCursor, failed |-> FALSE]

\* Enough calls for any walk of up to four entries.
Calls == 1 .. 7

\* listAll(): call number i finds views[i], less what the caller has deleted, which
\* is everything shown before if `deletes`.
ListAll(a, folder, views, prefix, limit, cap, deletes) ==
    FoldLeft(LAMBDA walk, keys :
                IF walk.ended THEN walk
                ELSE LET gone == IF deletes THEN ToSet(walk.items) ELSE {}
                         page == ListFlat(a, [keys |-> keys \ gone, folder |-> folder],
                                          prefix, walk.cursor, limit, cap)
                     IN  [Followed(walk, page) EXCEPT !.failed = page.failed],
             Unwalked, views)

\* A file browser: every page of a folder.
Browse(a, tree, prefix, limit, cap) ==
    FoldLeft(LAMBDA walk, i :
                IF walk.ended THEN walk
                ELSE Followed(walk, ListFolded(a, tree, prefix, walk.cursor, limit, cap)),
             Unwalked, [i \in Calls |-> i])

Always(keys) == [i \in Calls |-> keys]

(***************************************************************************)
(* The directory walks of the network and local file systems, beside a     *)
(* process that removes the folders `gone` after their parent was read.    *)
(***************************************************************************)

FoldersOf(tree) == {tree.folder[k] : k \in tree.keys} \ {Root}

\* walk() of fs: a stack of directories, and the end at one that is no more.
WalkOfFs(tree, gone) ==
    {k \in tree.keys :
        \/ tree.folder[k] = Root
        \/ \A g \in gone \cap FoldersOf(tree) : tree.folder[k] > g}

\* walk() in list() of ftp and sftp: NotFound anywhere is an empty bucket.
WalkOfFtp(tree, gone) == IF gone \cap FoldersOf(tree) = {} THEN tree.keys ELSE {}

(***************************************************************************)
(* What they should be.                                                    *)
(***************************************************************************)

\* Trees of n keys with at most two folders.
TreesOf(n) ==
    {[keys |-> 1 .. n, folder |-> f] :
        f \in {f \in [1 .. n -> 0 .. 2] :
            \A i, k \in 1 .. n : (i < k /\ f[i] # Root /\ f[k] # Root)
                => f[i] <= f[k] /\ (f[i] = f[k] => \A j \in i .. k : f[j] = f[i])}}

FolderNames(tree) == {tree.folder[k] : k \in DOMAIN tree.folder} \ {Root}

\* No prefix at all; the path of folder g; and that path without its slash.
Anything(tree) == [leads |-> Root, keys |-> DOMAIN tree.folder, names |-> Root]
PathOf(tree, g) ==
    [leads |-> g, keys |-> {k \in DOMAIN tree.folder : tree.folder[k] = g}, names |-> g]
NameOf(tree, g) == [PathOf(tree, g) EXCEPT !.leads = Root]

\* The beginning of some names, in the root folder or in another.
Beginnings(tree) ==
    {[leads |-> Root, keys |-> keys, names |-> Nowhere] :
        keys \in {s \in SUBSET DOMAIN tree.folder : \A g \in FolderNames(tree) :
                      PathOf(tree, g).keys \subseteq s \/ PathOf(tree, g).keys \cap s = {}}}
    \cup UNION {{[leads |-> g, keys |-> keys, names |-> Nowhere] :
                    keys \in SUBSET PathOf(tree, g).keys} : g \in FolderNames(tree)}

AllPrefixes(tree) ==
    {Anything(tree)} \cup Beginnings(tree)
        \cup {PathOf(tree, g) : g \in FolderNames(tree)}
        \cup {NameOf(tree, g) : g \in FolderNames(tree)}

Limits == {NoLimit, 1, 2}
Caps == {1, 2}

\* The keys under the prefix that the adapter can show at all.
Reach(a, tree, prefix) ==
    {k \in tree.keys \cap prefix.keys :
        CASE a.over = "top" -> tree.folder[k] = Root /\ prefix.leads = Root
          [] a.over = "folder" -> tree.folder[k] = prefix.leads
          [] OTHER -> TRUE}

\* A full page is taken to mean that there is more: a provider that serves fewer
\* than asked looks finished.
Misled(a, limit, cap) == a.ends = "full page" /\ Asked(a, limit) > cap

\* Where a limit is a cap on the whole walk.
Capped(a, limit) == a.cursor = "none" /\ limit # NoLimit

Beginning(s, n) == SubSeq(s, 1, IF n < Len(s) THEN n ELSE Len(s))

\* A listing on its own.  A walk over all pages of a bucket that nobody changes ends,
\* and shows every key under the prefix once and in order: of all keys for a store
\* with a flat key space, of the root folder for box and onedrive, whose nested keys
\* are never listed, of one folder for bunny-storage.  With netlify-blobs the limit
\* is a cap on the walk, and box and appwrite stop after one page if the provider
\* serves less than the limit.
ASSUME WalksAddUp ==
    \A a \in Listers, tree \in TreesOf(3), limit \in Limits, cap \in Caps :
        \A prefix \in AllPrefixes(tree) :
            LET walk == ListAll(a, tree.folder, Always(tree.keys), prefix, limit, cap, FALSE)
                reach == Sorted(Reach(a, tree, prefix))
            IN  /\ walk.ended /\ ~walk.failed
                /\ CASE Capped(a, limit) -> walk.items = Beginning(reach, limit)
                     [] Misled(a, limit, cap) ->
                            LET page == Beginning(Sorted(Offered(a, tree, prefix)), cap)
                            IN  walk.items = SelectSeq(page, LAMBDA e : e \in ToSet(reach))
                     [] OTHER -> walk.items = reach

AllRoot(n) == [k \in 1 .. n |-> Root]
Positional(a) == a.cursor \in {"offset", "page"}
EachOnce(s) == \A i, j \in DOMAIN s : i < j => s[i] < s[j]

\* Deleting while walking, as in `for await (const f of files.listAll()) delete(f)`.
\* With a cursor that stands for a place in key order everything is found.  With an
\* offset or a page number every other page is passed over, and appwrite refuses the
\* cursor, whose file is gone.  None finds nothing while something is left, so that
\* walking until nothing is shown does delete all.
ASSUME DeletesBesideWalks ==
    \A a \in Listers, limit \in Limits, cap \in Caps :
        LET walk == ListAll(a, AllRoot(4), Always(1 .. 4), Anything([folder |-> AllRoot(4)]),
                            limit, cap, TRUE)
            size == PageSize(a, 4, limit, cap)
            EvenPage(k) == ((k - 1) \div size) % 2 = 0
        IN  /\ walk.ended
            /\ walk.failed = (a.cursor = "file" /\ ~Misled(a, limit, cap) /\ size < 4)
            /\ walk.items =
                 CASE Positional(a) /\ ~Misled(a, limit, cap) ->
                        SelectSeq(<<1, 2, 3, 4>>, EvenPage)
                   [] a.cursor = "file" \/ Misled(a, limit, cap) \/ Capped(a, limit) ->
                        Beginning(<<1, 2, 3, 4>>, size)
                   [] OTHER -> <<1, 2, 3, 4>>

\* Others' changes beside a walk.  A key that stays is shown once, one that comes or
\* goes at most once.  For an offset or a page number that holds only while as many
\* entries as before stand ahead of the cursor; if not, a key that stays can be left
\* out, or shown twice.  Appwrite refuses a cursor whose file is gone.
ASSUME ChangesBesideWalks ==
    LET WalkBeside(a, before, after, changed, limit) ==
            ListAll(a, AllRoot(4), [i \in Calls |-> IF i <= changed THEN before ELSE after],
                    Anything([folder |-> AllRoot(4)]), limit, 2, FALSE)
        Displaced(a, before, after, changed, limit) ==
            LET passed == Beginning(Sorted(before), changed * PageSize(a, 4, limit, 2))
            IN  passed # <<>> /\ Cardinality({k \in after : k <= Last(passed)}) # Len(passed)
        Whole(walk, before, after) ==
            /\ EachOnce(walk.items)
            /\ (before \cap after) \subseteq ToSet(walk.items)
            /\ ToSet(walk.items) \subseteq before \cup after
    IN  /\ \A a \in Listers, before, after \in SUBSET (1 .. 4) :
               \A changed \in {1, 2}, limit \in {1, 2} :
               LET walk == WalkBeside(a, before, after, changed, limit)
               IN  \/ Whole(walk, before, after)
                   \/ a.cursor = "file" /\ walk.failed
                   \/ Positional(a) /\ Displaced(a, before, after, changed, limit)
                   \/ Capped(a, limit)
        /\ \A a \in {b \in Listers : Positional(b)} :
               \E before, after, other \in SUBSET (1 .. 4) :
                   /\ ~EachOnce(WalkBeside(a, before, after, 1, 1).items)
                   /\ \E k \in before \cap other :
                         k \notin ToSet(WalkBeside(a, before, other, 1, 1).items)

\* The folder view on its own.  Browsing a prefix shows once each file under it that is
\* in the folder the prefix leads into, and each folder there that begins with it.
\* Onedrive and box list the children of the root folder alone: in a folder they show
\* nothing.  Dropbox reads the prefix as the name of a folder, whose files it shows, or
\* nothing if there is no such folder.  With netlify-blobs a limit ends it early.
ASSUME FoldersOpen ==
    \A a \in {b \in Listers : b.folds # "no"}, limit \in Limits, cap \in Caps :
        \A tree \in TreesOf(3) : \A prefix \in AllPrefixes(tree) :
            LET walk == Browse(a, tree, prefix, limit, cap)
                Files(g) == Sorted({k \in prefix.keys : tree.folder[k] = g})
                folders == Sorted({tree.folder[k] : k \in prefix.keys} \ {Root, prefix.leads})
            IN  /\ walk.ended
                /\ CASE Misled(a, limit, cap) -> TRUE
                     [] a.folds = "entries" /\ prefix.leads # Root ->
                            walk.items = <<>> /\ walk.prefixes = <<>>
                     [] a.folds = "folder" /\ prefix.names # Root ->
                            walk.items = Files(prefix.names) /\ walk.prefixes = <<>>
                     [] Capped(a, limit) ->
                            /\ walk.items = Beginning(Files(prefix.leads), limit)
                            /\ IsPrefix(walk.prefixes, folders)
                     [] OTHER ->
                            walk.items = Files(prefix.leads) /\ walk.prefixes = folders

\* A folder that goes while the tree is walked.  The adapters of fs, ftp and sftp do
\* not fail: fs leaves out what the walk had not come to, whole folders that are still
\* there included, and ftp and sftp show an empty bucket.  Nothing tells the listing
\* from a whole one; files in the root folder are safe with fs.
ASSUME WalksBesideRemovals ==
    /\ \A tree \in TreesOf(4), gone \in SUBSET {1, 2} :
           LET left == {k \in tree.keys : tree.folder[k] \notin gone}
           IN  /\ WalkOfFs(tree, gone) \subseteq left
               /\ {k \in tree.keys : tree.folder[k] = Root} \subseteq WalkOfFs(tree, gone)
               /\ gone \cap FoldersOf(tree) = {} =>
                      WalkOfFs(tree, gone) = left /\ WalkOfFtp(tree, gone) = left
    /\ \E tree \in TreesOf(4), gone \in SUBSET {1, 2} :
           {k \in tree.keys : tree.folder[k] \notin gone} \ WalkOfFs(tree, gone) # {}
=============================================================================
