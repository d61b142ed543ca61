---------------------------- MODULE PluginStack ----------------------------
(***************************************************************************)
(* The onion of plugins around one adapter: #dispatch and #perform of      *)
(* index.ts, and the plugins that transform a body or reroute a call       *)
(* (compression, encryption, dedup, soft-delete), vet it (validation,      *)
(* content-type) or watch it (usage, audit).                               *)
(*                                                                         *)
(* One operation at a time, so an operation is an operator: it takes the   *)
(* state of the bucket and gives back an answer and the state after it.    *)
(* A plugin is an operator that also takes the rest of the onion, to which *)
(* it passes operations on with Dispatch (the code's next).                *)
(* The provider may fail at any of its calls, and from then on, having     *)
(* done what it was asked or not; then an operation ends half-way.         *)
(***************************************************************************)
EXTENDS Integers, Sequences, FiniteSets, TLC

(***************************************************************************)
(* Bodies, keys, files.                                                    *)
(***************************************************************************)

\* A body is a content in layers: compressed, sealed under a data key, or a slice.
Plain(content) == <<[layer |-> content, id |-> 0]>>
Layered(body, layer, id) == Append(body, [layer |-> layer, id |-> id])
TopLayer(body) == body[Len(body)].layer
Unlayered(body) == SubSeq(body, 1, Len(body) - 1)
EmptyBody == Plain("none")

\* Only "text" can be compressed, and only as it is.
LayerSize == [text |-> 4, noise |-> 3, none |-> 0, gzip |-> -2, sealed |-> 1, slice |-> 0]
RECURSIVE SizeOf(_)
SizeOf(body) == IF body = <<>> THEN 0
                ELSE IF TopLayer(body) = "slice" THEN 1
                ELSE SizeOf(Unlayered(body)) + LayerSize[TopLayer(body)]
Shrinks(body) == body = Plain("text")

\* A key is the caller's, or one of two that the plugins keep under a prefix.
Key(dir, name, blob) == [dir |-> dir, name |-> name, blob |-> blob]
Live(name) == Key("live", name, <<>>)
TrashKeyFor(key) == [key EXCEPT !.dir = "trash"]
BlobKeyOf(body) == Key("blob", "", body)

NoFile == [body |-> <<>>, meta |-> <<>>, size |-> 0, type |-> ""]

\* Metadata fields by the plugin whose they are.
Fields == [compression |-> {"alg", "compressedFrom"}, encryption |-> {"dek", "sealedFrom"},
           dedup |-> {"ref", "sharedFrom"}]
SizeField == [compression |-> "compressedFrom", encryption |-> "sealedFrom",
              dedup |-> "sharedFrom"]
Marker == [compression |-> "alg", encryption |-> "dek", dedup |-> "ref"]
Marked(plugin, file) == Marker[plugin] \in DOMAIN file.meta

\* stripInternalMeta()
StripInternalMeta(plugin, meta) == [f \in DOMAIN meta \ Fields[plugin] |-> meta[f]]

\* correctMeta()
CorrectMeta(plugin, file) ==
    IF ~Marked(plugin, file) THEN file
    ELSE [file EXCEPT !.meta = StripInternalMeta(plugin, file.meta),
                      !.size = file.meta[SizeField[plugin]]]

(***************************************************************************)
(* Operations and answers.                                                 *)
(***************************************************************************)

Operation(kind, key) ==
    [kind |-> kind, key |-> key, to |-> key, file |-> NoFile, range |-> "all", within |-> "all"]
UploadOf(key, body, type) ==
    [Operation("upload", key) EXCEPT
        !.file = [body |-> body, meta |-> [owner |-> "user"], size |-> SizeOf(body), type |-> type]]
FromTo(kind, key, to) == [Operation(kind, key) EXCEPT !.to = to]
ListWithin(dir) == [Operation("list", Live("")) EXCEPT !.within = dir]

\* What an operation answers: a file, for a list the files by key; "yes" or "no".
Answer(s, code, value) == [after |-> s, error |-> code, value |-> value]
Ok(s, value) == Answer(s, "none", value)
Refused(s) == Answer(s, "Provider", NoFile)
Failed(answer) == answer.error # "none"

(***************************************************************************)
(* The provider, and #perform.                                             *)
(***************************************************************************)

\* left: the calls that will succeed; then one fails, "before" or "after" its effect.
Plenty == 100
Empty == [objects |-> <<>>, left |-> Plenty, fails |-> "before", keys |-> 0,
          used |-> <<>>, records |-> <<>>]
Holds(s, key) == key \in DOMAIN s.objects

With(s, key, file) == [s EXCEPT !.objects = (key :> file) @@ @]
Gone(s, key) == [s EXCEPT !.objects = [k \in DOMAIN @ \ {key} |-> @[k]]]

\* One request to the provider, and what it does.
Request(op, s) ==
    CASE op.kind = "upload" ->
            Ok(With(s, op.key, [op.file EXCEPT !.size = SizeOf(op.file.body)]),
               [NoFile EXCEPT !.size = SizeOf(op.file.body)])
      [] op.kind = "exists" -> Ok(s, IF Holds(s, op.key) THEN "yes" ELSE "no")
      [] op.kind = "delete" -> Ok(Gone(s, op.key), NoFile)
      [] op.kind = "list" ->
            Ok(s, [k \in {k \in DOMAIN s.objects : op.within \in {"all", k.dir}} |-> s.objects[k]])
      [] op.kind \in {"url", "signedUploadUrl"} -> Ok(s, NoFile)
      [] ~Holds(s, op.key) -> Answer(s, "NotFound", NoFile)
      [] op.kind = "head" -> Ok(s, s.objects[op.key])
      [] op.kind = "download" ->
            LET file == s.objects[op.key]
            IN  Ok(s, IF op.range = "all" THEN file
                      ELSE [file EXCEPT !.body = Layered(@, "slice", 0), !.size = 1])
      [] op.kind = "copy" -> Ok(With(s, op.to, s.objects[op.key]), NoFile)

Call(op, s) ==
    LET did == Request(op, s)
    IN  IF s.left > 0 THEN [did EXCEPT !.after.left = @ - 1]
        ELSE IF s.left = 0 /\ s.fails = "after" THEN Refused([did.after EXCEPT !.left = -1])
        ELSE Refused([s EXCEPT !.left = -1])

\* Without a move of its own the adapter copies and deletes.
Perform(op, s) ==
    IF op.kind # "move" THEN Call(op, s)
    ELSE LET copied == Call([op EXCEPT !.kind = "copy"], s)
         IN  IF Failed(copied) THEN copied
             ELSE Call([op EXCEPT !.kind = "delete"], copied.after)

(***************************************************************************)
(* The plugins.                                                            *)
(***************************************************************************)

\* What a plugin gives to the rest of the onion, which ends in Perform.
RECURSIVE Dispatch(_, _, _)

\* What compression() and encryption() share: heads and lists tell the size that
\* was uploaded, and what would bypass them is refused.
Transforms(plugin, rest, op, s) ==
    LET answer == Dispatch(rest, op, s)
    IN  CASE op.kind \in {"url", "signedUploadUrl"} -> Refused(s)
          [] Failed(answer) -> answer
          [] op.kind = "head" -> [answer EXCEPT !.value = CorrectMeta(plugin, @)]
          [] op.kind = "list" ->
                [answer EXCEPT !.value = [k \in DOMAIN @ |-> CorrectMeta(plugin, @[k])]]
          [] OTHER -> answer

\* The body as a plugin stores it, and the size that upload() answers.
UploadAs(rest, op, s, body, meta) ==
    LET answer == Dispatch(rest, [op EXCEPT !.file.body = body, !.file.meta = meta @@ @], s)
    IN  IF Failed(answer) THEN answer
        ELSE [answer EXCEPT !.value.size = SizeOf(op.file.body)]

\* A downloaded file with its body restored.
Restored(plugin, file, body) ==
    [file EXCEPT !.body = body, !.size = SizeOf(body), !.meta = StripInternalMeta(plugin, @)]

Compression(rest, op, s) ==
    CASE op.kind = "upload" ->
            LET alg == IF Shrinks(op.file.body) THEN "gzip" ELSE "identity"
                body == IF alg = "gzip" THEN Layered(op.file.body, "gzip", 0) ELSE op.file.body
            IN  UploadAs(rest, op, s, body,
                         [alg |-> alg, compressedFrom |-> SizeOf(op.file.body)])
      [] op.kind = "download" /\ op.range # "all" -> Refused(s)
      [] op.kind = "download" ->
            LET answer == Dispatch(rest, op, s)
                file == answer.value
            IN  IF Failed(answer) \/ ~Marked("compression", file) THEN answer
                ELSE IF file.meta.alg = "identity"
                  THEN [answer EXCEPT !.value = CorrectMeta("compression", @)]
                ELSE IF TopLayer(file.body) # file.meta.alg THEN Refused(answer.after)
                ELSE [answer EXCEPT !.value = Restored("compression", @, Unlayered(@.body))]
      [] OTHER -> Transforms("compression", rest, op, s)

\* Every upload is sealed under a data key of its own.
Encryption(rest, op, s) ==
    CASE op.kind = "upload" ->
            UploadAs(rest, op, [s EXCEPT !.keys = @ + 1], Layered(op.file.body, "sealed", s.keys),
                     [dek |-> s.keys, sealedFrom |-> SizeOf(op.file.body)])
      [] op.kind = "download" /\ op.range # "all" -> Refused(s)
      [] op.kind = "download" ->
            LET answer == Dispatch(rest, op, s)
                file == answer.value
                opened == Unlayered(file.body)
            IN  IF Failed(answer) \/ ~Marked("encryption", file) THEN answer
                ELSE IF \/ file.body # Layered(opened, "sealed", file.meta.dek)
                        \/ SizeOf(opened) # file.meta.sealedFrom
                  THEN Refused(answer.after)
                ELSE [answer EXCEPT !.value = Restored("encryption", @, opened)]
      [] OTHER -> Transforms("encryption", rest, op, s)

\* The bytes once under their digest, and a pointer to them under the key.
DedupUpload(rest, op, s) ==
    LET blob == BlobKeyOf(op.file.body)
        probe == Dispatch(rest, Operation("exists", blob), s)
        stored == IF Failed(probe) \/ probe.value = "yes" THEN probe
                  ELSE Dispatch(rest, [op EXCEPT !.key = blob, !.file.meta = <<>>], probe.after)
        pointer == UploadAs(rest, op, stored.after, EmptyBody,
                            [ref |-> op.file.body, sharedFrom |-> SizeOf(op.file.body)])
    IN  IF Failed(stored) THEN stored ELSE pointer

\* The pointer is read first (for a range its head), then what it points to.
ReadPointer(rest, op, s) ==
    Dispatch(rest, IF op.range = "all" THEN op ELSE Operation("head", op.key), s)

FollowPointer(rest, op, pointer, s) ==
    LET blob == Dispatch(rest, [op EXCEPT !.key = BlobKeyOf(pointer.meta.ref)], s)
    IN  IF Failed(blob) THEN blob
        ELSE [blob EXCEPT !.value =
                [Restored("dedup", pointer, @.body) EXCEPT !.size = blob.value.size]]

DedupDownload(rest, op, s) ==
    LET pointer == ReadPointer(rest, op, s)
    IN  IF Failed(pointer) THEN pointer
        ELSE IF Marked("dedup", pointer.value)
          THEN FollowPointer(rest, op, pointer.value, pointer.after)
        ELSE IF op.range = "all" THEN pointer
        ELSE Dispatch(rest, op, pointer.after)

Dedup(rest, op, s) ==
    CASE op.kind # "list" /\ op.key.dir = "blob" -> Dispatch(rest, op, s)
      [] op.kind = "upload" -> DedupUpload(rest, op, s)
      [] op.kind = "download" -> DedupDownload(rest, op, s)
      [] op.kind = "list" ->
            LET answer == Dispatch(rest, op, s)
                shown == {k \in DOMAIN answer.value : op.within = "blob" \/ k.dir # "blob"}
            IN  IF Failed(answer) \/ op.within = "blob" THEN answer
                ELSE [answer EXCEPT !.value = [k \in shown |-> CorrectMeta("dedup", @[k])]]
      [] OTHER -> Transforms("dedup", rest, op, s)

SoftDelete(rest, op, s) ==
    CASE op.kind = "delete" /\ op.key.dir # "trash" ->
            LET moved == Dispatch(rest, FromTo("move", op.key, TrashKeyFor(op.key)), s)
            IN  IF moved.error = "NotFound" THEN Ok(moved.after, NoFile) ELSE moved
      [] op.kind = "list" /\ op.within # "trash" ->
            LET answer == Dispatch(rest, op, s)
                shown == {k \in DOMAIN answer.value : k.dir # "trash"}
            IN  IF Failed(answer) THEN answer
                ELSE [answer EXCEPT !.value = [k \in shown |-> @[k]]]
      [] OTHER -> Dispatch(rest, op, s)

MaxSize == 3

Validation(rest, op, s) ==
    IF \/ op.kind = "signedUploadUrl"
       \/ op.kind = "upload" /\ SizeOf(op.file.body) > MaxSize
      THEN Refused(s)
    ELSE Dispatch(rest, op, s)

\* "text" begins like a page, of nothing else the type can be told.
Sniffed(body) == IF body = Plain("text") THEN "text/html" ELSE "unknown"

ContentType(rest, op, s) ==
    CASE op.kind = "signedUploadUrl" -> Refused(s)
      [] op.kind = "upload" /\ Sniffed(op.file.body) # "unknown" ->
            Dispatch(rest, [op EXCEPT !.file.type = Sniffed(op.file.body)], s)
      [] OTHER -> Dispatch(rest, op, s)

\* Counts what succeeded, and the bytes that upload() says it took.
Usage(rest, op, s) ==
    LET answer == Dispatch(rest, op, s)
        up == IF op.kind = "upload" THEN answer.value.size ELSE 0
    IN  IF Failed(answer) THEN answer
        ELSE [answer EXCEPT !.after.used = Append(@, [kind |-> op.kind, up |-> up])]

\* Records every write, whatever became of it.
Audited == {"upload", "delete", "copy", "move", "signedUploadUrl"}

Audit(rest, op, s) ==
    LET answer == Dispatch(rest, op, s)
    IN  IF op.kind \notin Audited THEN answer
        ELSE [answer EXCEPT !.after.records =
                Append(@, [action |-> op.kind, key |-> op.key, error |-> answer.error])]

Wrap(plugin, rest, op, s) ==
    CASE plugin = "compression" -> Compression(rest, op, s)
      [] plugin = "encryption" -> Encryption(rest, op, s)
      [] plugin = "dedup" -> Dedup(rest, op, s)
      [] plugin = "softDelete" -> SoftDelete(rest, op, s)
      [] plugin = "validation" -> Validation(rest, op, s)
      [] plugin = "contentType" -> ContentType(rest, op, s)
      [] plugin = "usage" -> Usage(rest, op, s)
      [] plugin = "audit" -> Audit(rest, op, s)

\* #dispatch(): the first plugin is the outermost.
Dispatch(stack, op, s) ==
    IF stack = <<>> THEN Perform(op, s)
    ELSE Wrap(Head(stack), Tail(stack), op, s)

(***************************************************************************)
(* What softDelete() adds to the instance, through the whole onion.        *)
(***************************************************************************)

RestoreTrashed(stack, key, s) ==
    LET there == Dispatch(stack, Operation("exists", TrashKeyFor(key)), s)
        moved == Dispatch(stack, FromTo("move", TrashKeyFor(key), key), there.after)
    IN  IF Failed(there) THEN there
        ELSE IF there.value = "no" THEN Refused(there.after)
        ELSE IF Failed(moved) THEN moved
        ELSE Dispatch(stack, Operation("head", key), moved.after)

Purge(stack, key, s) == Dispatch(stack, Operation("delete", TrashKeyFor(key)), s)

\* Every key of the trash in turn; a delete that fails does not stop the others.
RECURSIVE DeleteAll(_, _, _)
DeleteAll(stack, keys, s) ==
    IF keys = {} THEN Ok(s, NoFile)
    ELSE LET key == CHOOSE k \in keys : TRUE
         IN  DeleteAll(stack, keys \ {key}, Dispatch(stack, Operation("delete", key), s).after)

PurgeAll(stack, s) ==
    LET trashed == Dispatch(stack, ListWithin("trash"), s)
    IN  IF Failed(trashed) THEN trashed
        ELSE DeleteAll(stack, DOMAIN trashed.value, trashed.after)

(***************************************************************************)
(* What the caller of any onion should see: names with contents, and a     *)
(* trash.  The named assumptions compare the two for every order of every  *)
(* choice of the plugins that transform or reroute, two names, three       *)
(* contents, and the buckets that two operations lead to.                  *)
(***************************************************************************)

Names == {"a", "b"}
Contents == {"text", "noise", "none"}
Absent == "absent"

Stacks == UNION {{p \in [1 .. n -> {"compression", "encryption", "dedup", "softDelete"}] :
                    \A i, j \in 1 .. n : i # j => p[i] # p[j]} : n \in 0 .. 4}
Has(stack, plugin) == \E i \in DOMAIN stack : stack[i] = plugin

\* An operation as the caller sees it.
Intent(do, name, other, content) == [do |-> do, name |-> name, other |-> other, content |-> content]
Uploads == {Intent("upload", n, n, c) : n \in Names, c \in Contents}
Deletes == {Intent("delete", n, n, Absent) : n \in Names}
Moves == {Intent(do, "a", "b", Absent) : do \in {"copy", "move"}}
Trash == {Intent(do, "a", "a", Absent) : do \in {"restore", "purge", "purgeAll"}}
Intents(stack) ==
    Uploads \cup Deletes \cup Moves \cup IF Has(stack, "softDelete") THEN Trash ELSE {}

Do(stack, i, s) ==
    CASE i.do = "upload" ->
            Dispatch(stack, UploadOf(Live(i.name), Plain(i.content), "text/plain"), s)
      [] i.do = "delete" -> Dispatch(stack, Operation("delete", Live(i.name)), s)
      [] i.do \in {"copy", "move"} -> Dispatch(stack, FromTo(i.do, Live(i.name), Live(i.other)), s)
      [] i.do = "restore" -> RestoreTrashed(stack, Live(i.name), s)
      [] i.do = "purge" -> Purge(stack, Live(i.name), s)
      [] i.do = "purgeAll" -> PurgeAll(stack, s)

\* What a download shows, if it is a content as it was uploaded.
Seen(stack, key, s) ==
    LET got == Dispatch(stack, Operation("download", key), s)
        read == {c \in Contents : got.value.body = Plain(c) /\ got.value.size = LayerSize[c]
                                  /\ got.value.meta = [owner |-> "user"]}
    IN  IF got.error = "NotFound" THEN Absent
        ELSE IF Failed(got) \/ read = {} THEN "garbled" ELSE CHOOSE c \in read : TRUE

Sight(stack, s) ==
    [live |-> [n \in Names |-> Seen(stack, Live(n), s)],
     trash |-> [n \in Names |-> Seen(stack, TrashKeyFor(Live(n)), s)]]

\* What it should be after an operation.
Put(from, n, content) == [from EXCEPT ![n] = content]
Should(stack, i, v) ==
    LET found == v.live[i.name]
    IN  CASE i.do = "upload" -> [v EXCEPT !.live[i.name] = i.content]
          [] i.do \in {"copy", "move"} /\ found = Absent -> v
          [] i.do = "copy" -> [v EXCEPT !.live[i.other] = found]
          [] i.do = "move" -> [v EXCEPT !.live[i.other] = found, !.live[i.name] = Absent]
          [] i.do = "delete" ->
                [v EXCEPT !.live[i.name] = Absent,
                          !.trash[i.name] = IF Has(stack, "softDelete") /\ found # Absent
                                              THEN found ELSE @]
          [] i.do = "restore" /\ v.trash[i.name] = Absent -> v
          [] i.do = "restore" ->
                [v EXCEPT !.live[i.name] = v.trash[i.name], !.trash[i.name] = Absent]
          [] i.do = "purge" -> [v EXCEPT !.trash[i.name] = Absent]
          [] i.do = "purgeAll" -> [v EXCEPT !.trash = [n \in Names |-> Absent]]

Nexts(stack, states) ==
    {[Do(stack, i, s).after EXCEPT !.left = Plenty] : i \in Intents(stack), s \in states}
Once(stack) == {Empty} \cup Nexts(stack, {Empty})
Reached(stack) == Once(stack) \cup Nexts(stack, Once(stack))

\* Nobody can tell by contents which plugins are there, nor in which order.
ASSUME StacksAreTransparent ==
    \A stack \in Stacks : \A s \in Reached(stack) : \A i \in Intents(stack) :
        Sight(stack, Do(stack, i, s).after) = Should(stack, i, Sight(stack, s))

\* Heads and lists show the caller's keys, sizes and metadata, never the plugins'.
Shown(file, content) == file.size = LayerSize[content] /\ file.meta = [owner |-> "user"]

ASSUME ListsShowTheCallersFiles ==
    \A stack \in Stacks : \A s \in Reached(stack) :
        LET live == Sight(stack, s).live
            list == Dispatch(stack, ListWithin("all"), s).value
        IN  /\ DOMAIN list = {Live(n) : n \in {n \in Names : live[n] # Absent}}
            /\ \A n \in Names : live[n] # Absent =>
                  /\ Shown(list[Live(n)], live[n])
                  /\ Shown(Dispatch(stack, Operation("head", Live(n)), s).value, live[n])

\* The provider fails for good at any call of an operation, its effect done or not.
\* Each key shows what it did or what it should, an operation that does not fail has
\* done all, and what leaves one key has reached the other. (purgeAll answers
\* alike whether it could delete or not.)
HalfWay(stack, i, s) ==
    {Do(stack, i, [s EXCEPT !.left = n, !.fails = f]) : n \in 0 .. 3, f \in {"before", "after"}}

ASSUME HalfWayIsHarmless ==
    \A stack \in {st \in Stacks : Len(st) <= 2} :
    \A s \in Reached(stack) : \A i \in Intents(stack) :
        LET was == Sight(stack, s)
            done == Should(stack, i, was)
        IN  \A answer \in HalfWay(stack, i, s) :
              LET is == Sight(stack, [answer.after EXCEPT !.left = Plenty])
              IN  /\ \A n \in Names : is.live[n] \in {was.live[n], done.live[n]}
                  /\ \A n \in Names : is.trash[n] \in {was.trash[n], done.trash[n]}
                  /\ Failed(answer) \/ is = done \/ i.do = "purgeAll"
                  /\ \A n \in Names : is.live[n] = Absent /\ was.live[n] # Absent => is = done
                  /\ i.do = "restore" /\ is.trash # was.trash => is = done

\* A plugin can be added anywhere to an onion whose files are there already.
Without(stack, k) == SubSeq(stack, 1, k - 1) \o SubSeq(stack, k + 1, Len(stack))

ASSUME AddingIsSafe ==
    \A stack \in Stacks : \A k \in DOMAIN stack : \A s \in Once(Without(stack, k)) :
        Sight(stack, s) = Sight(Without(stack, k), s)

\* One content is stored once, unless each upload of it is sealed before: the second
\* upload asks and points, in two requests. The bytes shared carry nobody's metadata.
ASSUME ContentsAreShared ==
    \A stack \in {st \in Stacks : Has(st, "dedup")}, content \in Contents :
        LET Up(n, s) == Do(stack, Intent("upload", n, n, content), s).after
            first == Up("a", Empty)
            second == Up("b", first)
            blobs == {k \in DOMAIN second.objects : k.dir = "blob"}
            sealed == \E i, j \in DOMAIN stack :
                         i < j /\ stack[i] = "encryption" /\ stack[j] = "dedup"
        IN  /\ Cardinality(blobs) = IF sealed THEN 2 ELSE 1
            /\ first.left - second.left = IF sealed THEN 3 ELSE 2
            /\ \A k \in blobs : "owner" \notin DOMAIN second.objects[k].meta

\* A download reads the pointer and then the bytes, and whatever comes between them
\* it shows what the pointer named.
ASSUME PointersOutliveWrites ==
    \A inner \in {st \in Stacks : Len(st) <= 2 /\ ~Has(st, "dedup")} :
        LET stack == <<"dedup">> \o inner
        IN  \A s \in Reached(stack), range \in {"all", "part"} : \A i \in Intents(stack) :
              LET op == [Operation("download", Live("a")) EXCEPT !.range = range]
                  pointer == ReadPointer(inner, op, s)
                  later == Do(stack, i, pointer.after).after
                  got == FollowPointer(inner, op, pointer.value, later)
                  whole == Plain(Sight(stack, s).live["a"])
              IN  \/ Sight(stack, s).live["a"] = Absent
                  \/ range = "part" /\ Failed(got)
                  \/ got.value.body = IF range = "all" THEN whole ELSE Layered(whole, "slice", 0)

\* Outermost, usage counts and audit records one operation for each of the caller's,
\* with the sizes and names that the caller knows.
ASSUME ObserversSeeTheCaller ==
    \A stack \in Stacks : \A s \in Once(stack) : \A i \in Uploads \cup Deletes \cup Moves :
        LET after == Do(<<"usage", "audit">> \o stack, i, s).after
            found == i.do \in {"upload", "delete"} \/ Sight(stack, s).live[i.name] # Absent
        IN  /\ after.records = <<[action |-> i.do, key |-> Live(i.name),
                                  error |-> IF found THEN "none" ELSE "NotFound"]>>
            /\ after.used = IF ~found THEN <<>> ELSE
                  <<[kind |-> i.do, up |-> IF i.do = "upload" THEN LayerSize[i.content] ELSE 0]>>

\* Outermost, validation refuses what is too large and leaves nothing of it behind,
\* and content-type has the type stored that the caller's bytes show.
ASSUME VettedFirst ==
    \A stack \in Stacks : \A s \in Once(stack) : \A i \in Uploads :
        LET vetted == Do(<<"validation">> \o stack, i, s)
            typed == Do(<<"contentType">> \o stack, i, s).after
            head == Dispatch(stack, Operation("head", Live(i.name)), typed)
        IN  /\ IF LayerSize[i.content] > MaxSize
                 THEN Failed(vetted) /\ vetted.after = s
                 ELSE Sight(stack, vetted.after) = Should(stack, i, Sight(stack, s))
            /\ head.value.type = IF i.content = "text" THEN "text/html" ELSE "text/plain"
=============================================================================
