------------------------------- MODULE Downloads -------------------------------
(***************************************************************************)
(* download() and head() of the adapters: which requests each makes for    *)
(* the metadata and for the bytes of an object, in which order, what it    *)
(* makes of a byte range, and where the size it reports is from.  The      *)
(* StoredFile that comes of it, whose body is read later.                  *)
(*                                                                         *)
(* The operators are pure.  The assumptions look at an object that stays,  *)
(* that is replaced, or that goes between any two of the requests.         *)
(***************************************************************************)
EXTENDS Integers, Sequences, FiniteSets

\* What lies under a key: so many bytes, at the positions from 0 on, of one version.
NoObject == [version |-> 0, len |-> 0]
OldObjects == {[version |-> 1, len |-> n] : n \in 0 .. 3}
NewObjects == {[version |-> 2, len |-> n] : n \in 0 .. 3}
Positions(object) == 0 .. object.len - 1

\* A range has its first and its last byte, both inclusive, or is open to the end; no
\* range at all is the whole.
Open == -1
WholeFile == [start |-> 0, end |-> -2]
ByteRanges == {[start |-> s, end |-> e] : s \in -1 .. 4, e \in -1 .. 4}
Modes == {"stream", "blob"}

(***************************************************************************)
(* The adapters.                                                           *)
(***************************************************************************)

\* A plan: "one" request answers with metadata and bytes; or the "meta" comes first, or
\* the "body"; or both go out "together"; or the metadata "names" the bytes of its
\* version.  The size is that of the "bytes" that came, is what the "meta" says, or is
\* the "length" that the response to the request for the bytes announces.
Plan(order, size) == [order |-> order, size |-> size]

\* ends: how the adapter says where a range ends.  past: what comes of a range that
\* starts past the end.  checked: whether a response with all the bytes is refused.
\* bare: whether bytes whose metadata is missing are passed on.  later: what reading the
\* body of a head() reads.
Reads(streamed, buffered, ends, past) ==
    [stream |-> streamed, blob |-> buffered, streamPart |-> streamed, blobPart |-> buffered,
     ends |-> ends, past |-> past, checked |-> FALSE, bare |-> FALSE, later |-> "key"]

S3Reads == Reads(Plan("one", "length"), Plan("one", "bytes"), "inclusive", "refused")
GcsReads == Reads(Plan("meta", "meta"), Plan("together", "bytes"), "inclusive", "refused")
FirebaseReads == Reads(Plan("meta", "meta"), Plan("together", "bytes"), "inclusive", "refused")
R2Reads == [Reads(Plan("one", "meta"), Plan("one", "meta"), "counted", "unknown")
            EXCEPT !.later = "lenient"]
AzureReads == Reads(Plan("one", "length"), Plan("meta", "bytes"), "counted", "refused")
BunReads == [Reads(Plan("meta", "meta"), Plan("meta", "meta"), "exclusive", "unknown")
             EXCEPT !.blobPart.size = "bytes"]
MemoryReads == [Reads(Plan("one", "bytes"), Plan("one", "bytes"), "exclusive", "empty")
                EXCEPT !.later = "snapshot"]
FsReads == Reads(Plan("meta", "meta"), Plan("meta", "bytes"), "inclusive", "empty")
SftpReads == Reads(Plan("meta", "meta"), Plan("meta", "bytes"), "inclusive", "empty")
FtpReads == [Reads(Plan("meta", "meta"), Plan("body", "bytes"), "cut", "unknown")
             EXCEPT !.streamPart = Plan("body", "bytes"), !.bare = TRUE]
BoxReads == [Reads(Plan("meta", "meta"), Plan("meta", "bytes"), "inclusive", "refused")
             EXCEPT !.streamPart.size = "length", !.checked = TRUE]
DropboxReads == [Reads(Plan("meta", "meta"), Plan("one", "bytes"), "inclusive", "refused")
                 EXCEPT !.streamPart.size = "length", !.blobPart.order = "meta",
                        !.checked = TRUE]
DriveReads == [Reads(Plan("together", "meta"), Plan("together", "bytes"), "inclusive", "refused")
               EXCEPT !.checked = TRUE, !.later = "id"]
OneDriveReads == Reads(Plan("together", "meta"), Plan("together", "bytes"), "inclusive", "refused")
PocketBaseReads == [Reads(Plan("names", "bytes"), Plan("names", "bytes"), "inclusive", "refused")
                    EXCEPT !.checked = TRUE, !.later = "named"]
CloudinaryReads ==
    [Reads(Plan("together", "meta"), Plan("together", "meta"), "inclusive", "refused")
     EXCEPT !.streamPart.size = "bytes", !.blobPart.size = "bytes", !.checked = TRUE]
UploadThingReads == [Reads(Plan("one", "length"), Plan("one", "bytes"), "inclusive", "refused")
                     EXCEPT !.checked = TRUE]
VercelReads == [Reads(Plan("meta", "meta"), Plan("meta", "bytes"), "inclusive", "refused")
                EXCEPT !.streamPart.size = "length", !.checked = TRUE, !.later = "lenient"]
VercelPrivateReads == Reads(Plan("meta", "meta"), Plan("meta", "bytes"), "none", "none")
SupabaseReads == [Reads(Plan("body", "meta"), Plan("body", "bytes"), "none", "none")
                  EXCEPT !.bare = TRUE]
ConvexReads == [Reads(Plan("body", "metaOrBytes"), Plan("body", "metaOrBytes"), "none", "none")
                EXCEPT !.bare = TRUE]
NetlifyReads == Reads(Plan("one", "meta"), Plan("one", "bytes"), "none", "none")
BunnyReads == Reads(Plan("meta", "meta"), Plan("meta", "bytes"), "none", "none")
AppwriteReads == Reads(Plan("together", "meta"), Plan("together", "meta"), "none", "none")

Fetchers == {BoxReads, DropboxReads, DriveReads, PocketBaseReads, CloudinaryReads,
             UploadThingReads, VercelReads}
Rangers == Fetchers \cup {S3Reads, GcsReads, FirebaseReads, R2Reads, AzureReads, BunReads,
                          MemoryReads, FsReads, SftpReads, FtpReads, OneDriveReads}
Readers == Rangers \cup {VercelPrivateReads, SupabaseReads, ConvexReads, NetlifyReads,
                         BunnyReads, AppwriteReads}
\* Convex gives each file a key of its own: it can go, and nothing takes its place.
Replaceable == Readers \ {ConvexReads}

(***************************************************************************)
(* Ranges.                                                                 *)
(***************************************************************************)

\* #assertRangeSupported()
RangeRefused(a, range) ==
    \/ range.start < 0
    \/ range.end # Open /\ range.end < range.start
    \/ a.ends = "none"
Answered(a) == {WholeFile} \cup {range \in ByteRanges : ~RangeRefused(a, range)}

\* rangedSize()
RangedSize(len, range) ==
    LET last == IF range.end = Open \/ range.end > len - 1 THEN len - 1 ELSE range.end
        size == last - range.start + 1
    IN  IF size < 0 THEN 0 ELSE size

\* What comes of the request that each adapter makes of a range.
Onward(object, range) == {n \in Positions(object) : n >= range.start}
BytesOf(a, object, range) ==
    IF range = WholeFile THEN Positions(object)
    ELSE IF range.end = Open THEN Onward(object, range)
    ELSE LET count == range.end - range.start + 1
             until == range.end + 1
         IN  CASE a.ends = "inclusive" -> {n \in Onward(object, range) : n <= range.end}
               [] a.ends = "counted" -> {n \in Onward(object, range) : n - range.start < count}
               [] a.ends = "exclusive" -> {n \in Onward(object, range) : n < until}
               [] a.ends = "cut" ->
                    {n \in Onward(object, range) :
                        Cardinality({m \in Onward(object, range) : m < n}) < count}
Slice(object, range) ==
    IF range = WholeFile THEN Positions(object)
    ELSE {n \in Onward(object, range) : range.end = Open \/ n <= range.end}

(***************************************************************************)
(* Calls.                                                                  *)
(***************************************************************************)

Fails(code) == [code |-> code, of |-> 0, bytesOf |-> 0, bytes |-> {}, size |-> 0]

PlanOf(a, mode, range) ==
    CASE range = WholeFile -> IF mode = "stream" THEN a.stream ELSE a.blob
      [] OTHER -> IF mode = "stream" THEN a.streamPart ELSE a.blobPart

\* What the two requests can see of an object that is replaced, or goes, in between.
Seen(plan, before, after) ==
    CASE plan.order = "one" -> {[meta |-> before, body |-> before]}
      [] plan.order \in {"meta", "names"} -> {[meta |-> before, body |-> after]}
      [] plan.order = "body" -> {[meta |-> after, body |-> before]}
      [] plan.order = "together" -> {[meta |-> before, body |-> after],
                                     [meta |-> after, body |-> before]}

\* rangedResponseSize(), and what the adapters make of other sizes.
SizeOf(plan, range, meta, bytes) ==
    CASE plan.size \in {"bytes", "length"} -> Cardinality(bytes)
      [] plan.size = "metaOrBytes" /\ meta = NoObject -> Cardinality(bytes)
      [] OTHER -> IF range = WholeFile THEN meta.len ELSE RangedSize(meta.len, range)

\* download() with what its requests saw, from a host that does or does not honor a range.
Downloaded(a, mode, range, seen, honors) ==
    LET plan == PlanOf(a, mode, range)
        got == IF honors THEN range ELSE WholeFile
        bytes == BytesOf(a, seen.body, got)
        gone == \/ seen.body = NoObject
                \/ seen.meta = NoObject /\ ~a.bare
                \/ plan.order = "names" /\ seen.meta # seen.body
        past == got # WholeFile /\ got.start >= seen.body.len
    IN  CASE gone -> {Fails("NotFound")}
          [] ~gone /\ range # got /\ a.checked -> {Fails("Provider")}
          [] ~gone /\ past /\ a.past = "refused" -> {Fails("Provider")}
          [] OTHER ->
               {[code |-> "ok", of |-> seen.meta.version, bytesOf |-> seen.body.version,
                 bytes |-> bytes, size |-> SizeOf(plan, range, seen.meta, bytes)]}
               \cup IF past /\ a.past = "unknown" THEN {Fails("Provider")} ELSE {}

DownloadOf(a, mode, range, before, after) ==
    UNION {Downloaded(a, mode, range, seen, TRUE) :
              seen \in Seen(PlanOf(a, mode, range), before, after)}

\* The body of a head(), read when there is something else under the key.  Lenient: R2
\* makes no bytes of a missing object, Vercel Blob does not look at the status and takes
\* the page that says so for the bytes.
BodyLater(a, before, after, remade) ==
    CASE a.later = "snapshot" -> [code |-> "ok", bytesOf |-> before.version]
      [] a.later = "lenient" /\ after = NoObject -> [code |-> "ok", bytesOf |-> 0]
      [] \/ after = NoObject
         \/ a.later = "id" /\ remade
         \/ a.later = "named" /\ after # before -> [code |-> "NotFound", bytesOf |-> 0]
      [] OTHER -> [code |-> "ok", bytesOf |-> after.version]

(***************************************************************************)
(* createStoredFile(): a body that is a buffer, a stream, or lazy.         *)
(***************************************************************************)

\* cached: whether the bytes are kept; pending: whether a promise of them is, and whether
\* it rejected; consumed: whether the stream was given away; fetched: how often the
\* source was read; got: what the accessors have returned.
FreshFile(kind) ==
    [kind |-> kind, cached |-> FALSE, pending |-> "no", consumed |-> FALSE,
     fetched |-> 0, got |-> <<>>]

\* toBytes(), which text(), arrayBuffer() and blob() call; fails: whether the source would.
ToBytes(file, fails) ==
    LET Gets(f, what) == [f EXCEPT !.got = Append(@, what)]
    IN  CASE file.cached -> Gets(file, "bytes")
          [] ~file.cached /\ file.pending = "failed" -> Gets(file, "error")
          [] ~file.cached /\ file.pending = "no" /\ file.kind = "buffer" ->
               Gets([file EXCEPT !.cached = TRUE], "bytes")
          [] ~file.cached /\ file.pending = "no" /\ file.kind = "stream" /\ file.consumed ->
               Gets(file, "consumed")
          [] OTHER -> IF fails THEN Gets([file EXCEPT !.pending = "failed", !.fetched = @ + 1],
                                         "error")
                      ELSE Gets([file EXCEPT !.cached = TRUE, !.fetched = @ + 1], "bytes")

\* stream(), read to its end
ToStream(file, fails) ==
    CASE file.kind = "stream" /\ ~file.cached /\ file.pending = "no" ->
           IF file.consumed THEN [file EXCEPT !.got = Append(@, "consumed")]
           ELSE [file EXCEPT !.consumed = TRUE, !.fetched = @ + 1,
                             !.got = Append(@, IF fails THEN "error" ELSE "bytes")]
      [] OTHER -> ToBytes(file, fails)

\* A sequence of accessors, each at a time when the source is in order or not, and the
\* file after each of them.
Accesses == [op : {"bytes", "stream"}, fails : BOOLEAN]
Accessed(file, access) ==
    IF access.op = "bytes" THEN ToBytes(file, access.fails) ELSE ToStream(file, access.fails)
History(kind, accesses) ==
    LET after[n \in 0 .. Len(accesses)] ==
            IF n = 0 THEN FreshFile(kind) ELSE Accessed(after[n - 1], accesses[n])
    IN  after
After(kind, accesses) == History(kind, accesses)[Len(accesses)]

(***************************************************************************)
(* What a caller gets.                                                     *)
(***************************************************************************)

\* Of an object that stays, every adapter returns exactly the bytes that were asked for,
\* the first and the last included and none past the end, and says how many they are; a
\* range past the end gets no bytes or an error.
ASSUME TheSliceAskedFor ==
    \A a \in Readers, mode \in Modes, object \in OldObjects : \A range \in Answered(a) :
        \A reply \in DownloadOf(a, mode, range, object, object) :
            IF reply.code = "ok"
              THEN /\ reply.bytes = Slice(object, range) /\ reply.size = Cardinality(reply.bytes)
                   /\ reply.of = 1 /\ reply.bytesOf = 1
              ELSE range # WholeFile /\ range.start >= object.len

\* From a host that answers a range with everything, the adapters that fetch a URL take
\* nothing; a caller never gets more than the slice from them.  The others trust their
\* provider.
ASSUME NeverMoreThanAsked ==
    \A a \in Rangers, mode \in Modes, object \in OldObjects :
    \A range \in Answered(a) \ {WholeFile} :
        LET replies == Downloaded(a, mode, range, [meta |-> object, body |-> object], FALSE)
        IN  /\ a \in Fetchers => \A reply \in replies : reply.code = "Provider"
            /\ a \notin Fetchers => \A reply \in replies : reply.bytes = Positions(object)

\* Of an object that is replaced during the call, one request answers with metadata and
\* bytes of one version.  All others can answer with the ETag or the date of the one and
\* the bytes of the other, but PocketBase, whose old file is gone then.
ASSUME OneVersion ==
    LET always == {S3Reads, R2Reads, MemoryReads, PocketBaseReads, UploadThingReads, NetlifyReads}
    IN  \A a \in Replaceable, mode \in Modes : \A range \in Answered(a) :
            (\A before \in OldObjects, after \in NewObjects :
                \A reply \in DownloadOf(a, mode, range, before, after) :
                    reply.code = "ok" => reply.of = reply.bytesOf)
              <=> \/ a \in always
                  \/ a = AzureReads /\ mode = "stream"
                  \/ a = DropboxReads /\ mode = "blob" /\ range = WholeFile
                  \/ range # WholeFile /\ a.past = "refused" /\ range.start >= 3

\* The size can then be another than that of the bytes, where it is from the metadata:
\* streams of most adapters, whole files of Bun and Cloudinary.
ASSUME SizeOfTheBytes ==
    \A a \in Replaceable, mode \in Modes :
        LET Torn(range) == \E before \in OldObjects, after \in NewObjects :
                               \E reply \in DownloadOf(a, mode, range, before, after) :
                                   reply.code = "ok" /\ reply.size # Cardinality(reply.bytes)
            torn == {range \in Answered(a) : Torn(range)}
        IN  /\ WholeFile \in torn <=>
                  a \in IF mode = "stream"
                          THEN Replaceable \ {S3Reads, R2Reads, AzureReads, MemoryReads,
                                          PocketBaseReads, UploadThingReads, NetlifyReads}
                          ELSE {BunReads, CloudinaryReads, AppwriteReads}
            /\ (torn \ {WholeFile} # {}) <=>
                  /\ mode = "stream"
                  /\ a \in {GcsReads, FirebaseReads, BunReads, FsReads, SftpReads, DriveReads,
                            OneDriveReads}

\* An object that goes during the call is NotFound, or is returned as it was; but that
\* Supabase, FTP and Convex can return its bytes without metadata, Supabase's stream of
\* them with the size 0.
ASSUME GoneMeanwhile ==
    \A a \in Readers, mode \in Modes, before \in OldObjects : \A range \in Answered(a) :
        LET ok == {reply \in DownloadOf(a, mode, range, before, NoObject) : reply.code = "ok"}
            bare == {reply \in ok : reply.of = 0}
        IN  /\ \A reply \in ok : reply.bytes = Slice(before, range)
            /\ \A reply \in ok \ bare : reply.of = 1 /\ reply.size = Cardinality(reply.bytes)
            /\ (bare # {} <=> \/ a \in {SupabaseReads, ConvexReads}
                              \/ a = FtpReads /\ (mode = "blob" \/ range # WholeFile))
            /\ \A reply \in bare :
                  reply.size = IF a = SupabaseReads /\ mode = "stream" THEN 0
                               ELSE Cardinality(reply.bytes)

\* The body of a head() is of what is there when it is read: the new version beside the
\* old ETag and size, or NotFound; for a missing object R2 reads nothing and Vercel Blob
\* what the error page says, and both resolve.  Memory alone reads what head() saw.
\* Google Drive reads by the id, so it does not find an object that was made anew.
ASSUME HeadThenRead ==
    \A a \in Replaceable, before \in OldObjects, after \in NewObjects, remade \in BOOLEAN :
        LET replaced == BodyLater(a, before, after, remade)
            deleted == BodyLater(a, before, NoObject, FALSE)
        IN  /\ (replaced.code = "ok" /\ replaced.bytesOf = 1) <=> a = MemoryReads
            /\ replaced.code = "NotFound" <=> a = PocketBaseReads \/ (a = DriveReads /\ remade)
            /\ deleted.code = "ok" <=> a \in {R2Reads, VercelReads, MemoryReads}

\* However a body is read, its source is read once at most; what was read once as bytes
\* is read again, as a stream too.  A stream that was given away is not had again, and a
\* source that failed once is not asked again: every later read is the same error.
ASSUME ReadOnce ==
    \A kind \in {"buffer", "stream", "lazy"}, n \in 1 .. 4 : \A accesses \in [1 .. n -> Accesses] :
        LET file == After(kind, accesses)
            first == file.got[1]
            others == {file.got[m] : m \in 2 .. n}
        IN  /\ file.fetched = IF kind = "buffer" THEN 0 ELSE 1
            /\ first \in {"bytes", "error"}
            /\ first = "error" => kind # "buffer" /\ accesses[1].fails
            /\ others \subseteq IF kind = "stream" /\ accesses[1].op = "stream"
                                  THEN {"consumed"} ELSE {first}
=============================================================================
