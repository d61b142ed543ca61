-------------------------------- MODULE Uploads --------------------------------
(***************************************************************************)
(* upload() of the adapters in one piece: the request that stores the      *)
(* bytes, the one that some make afterwards to learn what was stored or to *)
(* share it, and what the caller is told.  The runner around it repeats a  *)
(* buffered body.  The sessions that Dropbox and OneDrive open on their    *)
(* own for long bodies.                                                    *)
(*                                                                         *)
(* The operators are pure.  The assumptions look at every way in which one *)
(* of the requests can fail, and at another client that writes or deletes  *)
(* the same key between two of them.                                       *)
(***************************************************************************)
EXTENDS Integers, Sequences, FiniteSets
LOCAL INSTANCE SequencesExt

Vacant == [by |-> "none", len |-> 0]
Mine == {[by |-> "me", len |-> n] : n \in 1 .. 2}
Theirs == [by |-> "other", len |-> 5]
Older == [by |-> "older", len |-> 4]
Forms == {"stream", "buffer"}

(***************************************************************************)
(* The adapters.                                                           *)
(***************************************************************************)

\* check: whether the object is looked up after it was stored, and what a lookup that
\* fails makes of the call: nothing ("lenient") or a failure ("strict").  etag, size:
\* what they are from: the "body", the reply to the "put", the "check", or nothing.
\* unchecked: the size where the lookup failed.
Told(check, etag, size, unchecked) ==
    [check |-> check, etag |-> etag, size |-> size, unchecked |-> unchecked]
AtOnce(etag, size) == Told("no", etag, size, size)

\* puts: whether the upload "replaces" what is there, "refuses" to, may do either
\* ("unknown"), or "assigns" a key of its own.  shares: whether publicByDefault makes a
\* second request, for a link or a permission.
Writes(streamed, buffered, puts, shares) ==
    [stream |-> streamed, buffer |-> buffered, puts |-> puts, shares |-> shares]
Both(told, puts, shares) == Writes(told, told, puts, shares)

S3Puts == Writes(Told("lenient", "put", "check", "zero"), AtOnce("put", "body"),
                 "replaces", FALSE)
GcsPuts == Writes(Told("strict", "check", "check", "none"),
                  Told("strict", "check", "body", "none"), "replaces", FALSE)
FirebasePuts == Writes(Told("strict", "check", "check", "none"),
                       Told("strict", "check", "body", "none"), "replaces", FALSE)
R2Puts == Both(AtOnce("put", "put"), "replaces", FALSE)
AzurePuts == Writes(Told("lenient", "put", "check", "zero"), AtOnce("put", "body"),
                    "replaces", FALSE)
BunPuts == Both(Told("lenient", "check", "check", "put"), "replaces", FALSE)
MemoryPuts == Both(AtOnce("put", "body"), "replaces", FALSE)
FtpPuts == Writes(Told("strict", "none", "check", "none"), AtOnce("none", "body"),
                  "replaces", FALSE)
SftpPuts == Writes(Told("strict", "none", "check", "none"), AtOnce("none", "body"),
                   "replaces", FALSE)
BoxPuts == Both(AtOnce("put", "body"), "replaces", TRUE)
DropboxPuts == Both(AtOnce("put", "body"), "replaces", TRUE)
DrivePuts == Writes(AtOnce("put", "put"), AtOnce("put", "body"), "replaces", TRUE)
OneDrivePuts == Both(AtOnce("put", "body"), "replaces", TRUE)
CloudinaryPuts == Both(AtOnce("put", "put"), "replaces", FALSE)
UploadThingPuts == Writes(AtOnce("put", "put"), AtOnce("put", "body"), "unknown", FALSE)
VercelPuts == Writes(Told("strict", "put", "check", "none"), AtOnce("put", "body"),
                     "replaces", FALSE)
SupabasePuts == Writes(Told("lenient", "check", "check", "zero"), AtOnce("none", "body"),
                       "replaces", FALSE)
ConvexPuts == Both(Told("strict", "check", "check", "body"), "assigns", FALSE)
NetlifyPuts == Both(AtOnce("put", "body"), "replaces", FALSE)
BunnyPuts == Writes(Told("lenient", "check", "check", "zero"),
                    Told("lenient", "check", "check", "body"), "replaces", FALSE)
AppwritePuts == Both(AtOnce("none", "put"), "refuses", FALSE)
PocketBasePuts == Both(AtOnce("none", "body"), "replaces", FALSE)

Putters == {S3Puts, GcsPuts, FirebasePuts, R2Puts, AzurePuts, BunPuts, MemoryPuts, FtpPuts,
            SftpPuts, BoxPuts, DropboxPuts, DrivePuts, OneDrivePuts, CloudinaryPuts,
            UploadThingPuts, VercelPuts, SupabasePuts, ConvexPuts, NetlifyPuts, BunnyPuts,
            AppwritePuts, PocketBasePuts}

(***************************************************************************)
(* One attempt.                                                            *)
(***************************************************************************)

\* What happens to an attempt: its put lands or not, and is answered or not; another
\* client replaces or deletes the object; the second request is answered or not.
Courses == [put : {"ok", "lost", "unsent"}, between : {"quiet", "replaced", "deleted"},
            then : BOOLEAN]
Smooth == [put |-> "ok", between |-> "quiet", then |-> TRUE]

\* object: what is under the key; files: how many files a provider that assigns keys has.
Stores == {[object |-> object, files |-> 0] : object \in {Vacant, Older}}

\* A key that was just assigned is nobody else's yet.
Between(a, object, course) ==
    CASE a.puts = "assigns" \/ course.between = "quiet" -> object
      [] a.puts # "assigns" /\ course.between = "replaced" -> Theirs
      [] a.puts # "assigns" /\ course.between = "deleted" -> Vacant

Rejects(code, store) == [code |-> code, etag |-> "none", size |-> 0, store |-> store]

\* upload(), where the body's object is mine and refused says that the provider will not
\* have it over what is there.
Attempted(a, form, public, store, mine, course, refused) ==
    LET told == a[form]
        landed == course.put # "unsent" /\ ~refused
        put == [object |-> IF landed THEN mine ELSE store.object,
                files |-> store.files + IF landed /\ a.puts = "assigns" THEN 1 ELSE 0]
        now == [put EXCEPT !.object = Between(a, @, course)]
        missing == now.object = Vacant
        known == course.then /\ ~missing
        From(what) == CASE what = "check" -> now.object [] OTHER -> mine
        size == IF told.check # "no" /\ ~known THEN told.unchecked ELSE told.size
    IN  CASE course.put # "ok" -> Rejects("Provider", now)
          [] course.put = "ok" /\ refused -> Rejects("Conflict", now)
          [] ~refused /\ course.put = "ok" /\ told.check = "strict" /\ ~known ->
               Rejects(IF course.then THEN "NotFound" ELSE "Provider", now)
          [] ~refused /\ course.put = "ok" /\ a.shares /\ public /\ ~known ->
               Rejects(IF course.then THEN "NotFound" ELSE "Provider", now)
          [] OTHER ->
               [code |-> "ok", store |-> now,
                etag |-> CASE told.etag = "none" \/ (told.etag = "check" /\ ~known) -> "none"
                           [] OTHER -> From(told.etag).by,
                size |-> IF size = "zero" THEN 0 ELSE From(size).len]

\* Whether the provider refuses, is its own business where that is not known.
Attempt(a, form, public, store, mine, course) ==
    LET may == IF store.object = Vacant THEN {FALSE}
               ELSE CASE a.puts = "refuses" -> {TRUE}
                      [] a.puts = "unknown" -> BOOLEAN
                      [] OTHER -> {FALSE}
    IN  {Attempted(a, form, public, store, mine, course, refused) : refused \in may}

\* #run() around it: a stream is sent once, a buffered body again after a failure that
\* may pass.
Call(a, form, public, store, mine, courses) ==
    LET Again(replies, course) ==
            UNION {IF reply.code = "Provider" /\ form = "buffer"
                     THEN Attempt(a, form, public, reply.store, mine, course)
                     ELSE {reply} : reply \in replies}
    IN  FoldLeft(Again, Attempt(a, form, public, store, mine, courses[1]), Tail(courses))

(***************************************************************************)
(* Long bodies.                                                            *)
(***************************************************************************)

Request(kind, offset, len) == [kind |-> kind, offset |-> offset, len |-> len]

\* uploadSession(): the loop from an offset on, and the whole, for total bytes in chunks;
\* the rest is sent with the request that finishes.
DropboxRest(total, chunk) ==
    LET rest[offset \in 0 .. total] ==
            IF total - offset > chunk
              THEN <<Request("append", offset, chunk)>> \o rest[offset + chunk]
              ELSE <<Request("finish", offset, total - offset)>>
    IN  rest

DropboxSession(total, chunk) ==
    LET first == IF chunk < total THEN chunk ELSE total
    IN  <<Request("start", 0, first)>> \o DropboxRest(total, chunk)[first]

\* makeStreamChunker(): what next() returns until it returns null, for a stream that is
\* read in the given pieces.
Chunked(pieces, chunk) ==
    LET n == Len(pieces)
        total == FoldLeft(LAMBDA sum, piece : sum + piece, 0, pieces)
        fill[read \in 0 .. n, pending \in 0 .. total] ==
            IF pending < chunk /\ read < n
              THEN fill[read + 1, pending + pieces[read + 1]]
              ELSE [read |-> read, pending |-> pending]
        next[read \in 0 .. n, pending \in 0 .. total] ==
            LET filled == fill[read, pending]
                take == IF chunk < filled.pending THEN chunk ELSE filled.pending
            IN  IF take = 0 THEN <<>> ELSE <<take>> \o next[filled.read, filled.pending - take]
    IN  next[0, 0]

\* uploadSessionFromStream(): a chunk is sent when the one after it is there.
DropboxStream(pieces, chunk) ==
    LET chunks == Chunked(pieces, chunk)
        n == Len(chunks)
        last == IF n < 2 THEN 0 ELSE chunks[n]
    IN  CASE n = 0 -> <<Request("simple", 0, 0)>>
          [] n > 0 /\ chunks[1] < chunk -> <<Request("simple", 0, chunks[1])>>
          [] OTHER ->
               <<Request("start", 0, chunk)>>
               \o [m \in 1 .. (IF n > 2 THEN n - 2 ELSE 0) |->
                      Request("append", m * chunk, chunks[m + 1])]
               \o <<Request("finish", (IF n < 2 THEN 1 ELSE n - 1) * chunk, last)>>

\* uploadViaSession(): the loop from an offset on; the reply to the last range is the item.
GraphRanges(total, range) ==
    LET rest[offset \in 0 .. total] ==
            IF offset >= total THEN <<>>
            ELSE LET end == IF offset + range < total THEN offset + range ELSE total
                 IN  <<Request("range", offset, end - offset)>> \o rest[end]
    IN  rest

GraphSession(total, range) == GraphRanges(total, range)[0]

(***************************************************************************)
(* What a caller can rely on.                                              *)
(***************************************************************************)

\* Undisturbed, every upload resolves with the size of the body; the ETag, where there is
\* one, is of it.  Appwrite alone does not overwrite (and UploadThing may not).
ASSUME UploadsAlone ==
    \A a \in Putters, form \in Forms, public \in BOOLEAN, store \in Stores, mine \in Mine :
    \A reply \in Call(a, form, public, store, mine, <<Smooth>>) :
        IF reply.code = "ok"
          THEN /\ reply.size = mine.len /\ reply.etag \in {"me", "none"}
               /\ reply.store.object = mine
          ELSE /\ a.puts \in {"refuses", "unknown"} /\ store.object # Vacant
               /\ reply.code = "Conflict" /\ reply.store = store

\* When another client writes the key in between, an ETag or a size that was looked up
\* afterwards is the other's; the call resolves with it all the same.
ASSUME OwnETag ==
    \A a \in Putters, form \in Forms, mine \in Mine :
        LET replies == Call(a, form, FALSE, [object |-> Vacant, files |-> 0], mine,
                            <<[Smooth EXCEPT !.between = "replaced"]>>)
        IN  \A reply \in replies :
                /\ reply.code = "ok"
                /\ reply.etag = "other" <=>
                      \/ a \in {GcsPuts, FirebasePuts, BunPuts, BunnyPuts}
                      \/ a = SupabasePuts /\ form = "stream"
                /\ reply.size = Theirs.len <=>
                      \/ a \in {BunPuts, BunnyPuts}
                      \/ /\ form = "stream"
                         /\ a \in {S3Puts, GcsPuts, FirebasePuts, AzurePuts, FtpPuts, SftpPuts,
                                   VercelPuts, SupabasePuts}

\* An upload rejects although its bytes are in place where the second request decides:
\* on GCS and Firebase always, on Convex, which then keeps the id to itself, on FTP, SFTP
\* and Vercel Blob for streams, and on the drives where they share.  The object is new,
\* the caller is told that it is not.
ASSUME DoneButRejected ==
    \A a \in Putters, form \in Forms, public \in BOOLEAN, store \in Stores, mine \in Mine :
    LET replies == Call(a, form, public, store, mine, <<[Smooth EXCEPT !.then = FALSE]>>)
        done == {reply \in replies : reply.store.object = mine}
    IN  done # {} =>
           ((\E reply \in done : reply.code # "ok")
              <=> \/ a \in {GcsPuts, FirebasePuts, ConvexPuts}
                  \/ form = "stream" /\ a \in {FtpPuts, SftpPuts, VercelPuts}
                  \/ public /\ a \in {BoxPuts, DropboxPuts, DrivePuts, OneDrivePuts})

\* Where the second request only adds to the reply, its failure costs the size of a
\* stream, which is then said to be 0, or the ETag.
ASSUME ToldLess ==
    \A a \in Putters, form \in Forms, mine \in Mine :
    \A reply \in Call(a, form, FALSE, [object |-> Vacant, files |-> 0], mine,
                      <<[Smooth EXCEPT !.then = FALSE]>>) :
        reply.code = "ok" =>
            /\ reply.size # mine.len <=>
                  form = "stream" /\ a \in {S3Puts, AzurePuts, SupabasePuts, BunnyPuts}
            /\ reply.size \in {mine.len, 0}
            /\ reply.etag \in {"me", "none"}

\* When another client deletes the key in between, a lookup that has to succeed makes the
\* upload answer NotFound, and it is not repeated; all others resolve, with nothing there.
ASSUME DeletedAtOnce ==
    \A a \in Putters \ {ConvexPuts}, form \in Forms, public \in BOOLEAN, mine \in Mine :
    \A reply \in Call(a, form, public, [object |-> Vacant, files |-> 0], mine,
                      <<[Smooth EXCEPT !.between = "deleted"], Smooth>>) :
        /\ reply.store.object = Vacant
        /\ reply.code = IF \/ a[form].check = "strict"
                           \/ public /\ a.shares
                          THEN "NotFound" ELSE "ok"
        /\ reply.code = "ok" => reply.etag \in {"me", "none"}

\* A buffered upload that is repeated, whatever became of the first attempt: once the
\* second one succeeds the body is there, and only once; but Convex has stored it a second
\* time under an id that nobody knows, and Appwrite answers Conflict although it has it.
ASSUME RepeatedOnce ==
    \A a \in Putters, mine \in Mine, course \in Courses :
    \A reply \in Call(a, "buffer", FALSE, [object |-> Vacant, files |-> 0], mine,
                      <<course, Smooth>>) :
        /\ (reply.code = "ok" /\ course.between = "quiet") =>
              reply.store.object = mine /\ reply.size = mine.len
        /\ reply.code = "Conflict" => /\ a.puts \in {"refuses", "unknown"}
                                      /\ course.put = "lost" \/ course.between = "replaced"
        /\ (a = AppwritePuts /\ course.put = "lost" /\ course.between # "deleted") =>
              reply.code = "Conflict"
        /\ reply.store.files = IF a # ConvexPuts THEN 0
                               ELSE IF course.put = "lost" \/ (course.put = "ok" /\ ~course.then)
                                      THEN 2 ELSE 1

\* A retry that follows the failure of the second request writes the body over what
\* another client stored meanwhile, whose own call has resolved.
ASSUME RetryOverwrites ==
    \A a \in Putters, mine \in Mine :
        LET Overwritten(course) ==
                \E reply \in Call(a, "buffer", FALSE, [object |-> Vacant, files |-> 0], mine,
                                  <<course, Smooth>>) :
                    reply.code = "ok" /\ reply.store.object = mine
        IN  Overwritten([put |-> "ok", between |-> "replaced", then |-> FALSE])
              <=> a \in {GcsPuts, FirebasePuts, ConvexPuts}

\* Whatever the length, the chunk and the pieces a stream comes in, a session sends the
\* bytes in order and each once; every request but the last with bytes in it has a full
\* chunk, as the providers demand; and one request finishes.
InOrder(requests, total) ==
    /\ requests[1].offset = 0
    /\ \A m \in 2 .. Len(requests) :
          requests[m].offset = requests[m - 1].offset + requests[m - 1].len
    /\ LET last == requests[Len(requests)] IN last.offset + last.len = total
FullChunks(requests, chunk) ==
    \A m \in 1 .. Len(requests) :
        requests[m].len = chunk \/ \A k \in m + 1 .. Len(requests) : requests[k].len = 0
ASSUME SessionsSendTheBody ==
    \A chunk \in 1 .. 4 :
        /\ \A total \in 1 .. 13 :
              LET dropbox == DropboxSession(total, chunk)
                  graph == GraphSession(total, chunk)
              IN  /\ InOrder(dropbox, total) /\ FullChunks(dropbox, chunk)
                  /\ \A m \in 1 .. Len(dropbox) :
                        /\ dropbox[m].kind = "finish" <=> m = Len(dropbox)
                        /\ dropbox[m].len = 0 => m = Len(dropbox) /\ total <= chunk
                  /\ InOrder(graph, total) /\ FullChunks(graph, chunk)
                  /\ \A m \in 1 .. Len(graph) : graph[m].len > 0
        /\ \A n \in 0 .. 4 : \A pieces \in [1 .. n -> 0 .. 5] :
              LET requests == DropboxStream(pieces, chunk)
                  total == FoldLeft(LAMBDA sum, piece : sum + piece, 0, pieces)
              IN  /\ InOrder(requests, total) /\ FullChunks(requests, chunk)
                  /\ total < chunk <=> requests = <<Request("simple", 0, total)>>
                  /\ \A m \in 1 .. Len(requests) :
                        requests[m].kind \in {"finish", "simple"} <=> m = Len(requests)
=============================================================================
