# files-sdk: TLA+ specifications and proofs

This directory holds the verification project for `src/packages/files-sdk`, a TypeScript
SDK that puts one `Files` class in front of some fifty storage providers. It models the
parts of the SDK where order, failure and concurrency matter, checks them with TLC on
small instances, and proves the most important properties with TLAPS for every value of
the constants. Paths below are relative to `src/packages/files-sdk/src/` unless they
begin with `src/`.

`PROJECT.json` holds the same facts in tabular form: the components, the runs, the
source lines each definition translates, the hazards with the properties that cover
them, and for each property a slip (a plausible bug in one definition) that breaks it.
Slips stand in the modules beside the definition they distort, each with a comment that
starts with `Slip:`.

## 1. The system

A program makes a `Files` from an adapter and options (`retries`, `timeout`, `signal`,
hooks, `plugins`) and calls its operations. Each call goes `Files.<verb>` → `#dispatch`
(the plugins' `wrap` functions, composed outermost first) → `#run` (prefixing, hooks,
attempts) → the adapter → the provider. Some adapters also support a *resumable* upload,
driven from outside by an `UploadControl`. Bulk helpers run many operations over a
shared worker pool.

JavaScript runs one synchronous segment at a time, so whatever happens between two
`await`s is atomic, and any other code may run at an `await`. The actions of the modules
are these segments.

### Components

| Component | State | Operations | Interacts with | What is hard | What makes it correct | Modelled by |
|---|---|---|---|---|---|---|
| Resumable upload engine, `internal/resumable.ts` | `UploadControl`'s flags, token, waiters, installed `discard`; `runParts`' shared counter, results, failure latch; `runOffset`'s offset | `pause`, `resume`, `abort`, `toJSON`, `from`, `runResumableUpload`, `runParts`, `runOffset` | a driver per adapter, caller's signals, slices of the body | workers park and wake, abort during begin or probe, crash and resume from a token, late requests | each part listed once; whole object or none; `upload()` settles; token kept on failure, dropped on abort | `ResumableUpload`, `OffsetUpload` |
| Offset uploads, `internal/resumable-offset-http.ts`, `gcs-resumable.ts` and the offset drivers of the adapters | the acknowledged offset | chunk, probe, discard | `runOffset` | lost replies, partial persistence | no byte skipped or doubled | `OffsetUpload` |
| Operation runner and move, `index.ts` `#run`/`#move`, `internal/retry.ts` | attempt, merged signal, timer | every verb | adapters, plugins | a rejected attempt's closure goes on in the background | nothing lost; retried only where allowed; the call settles | `FilesMove` |
| Files around the adapter, `index.ts` | the prefix, hooks | keys to paths and back, `search`, calls for one key and for many | hooks, adapters | foreign keys, partial results, which hook fires when | instances with different prefixes never meet; each call is reported once | `FilesClient` |
| Plugin cache, `cache/index.ts` | an LRU of per-key records | `head`, `url`, `download`, invalidation on writes, `invalidateCache` | a store of the caller's | read-modify-write over an awaited store, writes racing reads | bounded staleness, valid urls | `CachePlugin` |
| Plugin versioning, `versioning/index.ts` | version objects under a prefix of the bucket | snapshot before `upload`/`delete`/`copy`/`move`, `versions`, `restore`, prune | the bucket itself | several calls per write, limits, `restore` through the same wrap | what is clobbered is saved first | `Versioning` |
| Plugin failover, `failover/index.ts` | none of its own; the replicas | every verb over a chain | a `Files` per secondary | timeouts against aborts, stale replicas, streams that cannot be replayed | a healthy earlier backend is never passed over | `Failover` |
| Plugin tiering, `tiering/index.ts` | which tier holds a key; the composite cursor | routing, fallback, merged `list`, `tier()` | two adapters | two lists under one cursor; copy, then delete | one copy; reads find it; each key listed once | `TieredList`, `Tiering` |
| Listing, `internal/walk-paginate.ts` and `list` of the adapters | cursor | page a hierarchy in order | fs, ftp, sftp, memory, drive; providers' own pages | cursors between changes, six kinds of cursor | every entry once, in order | `WalkPaginate`, `AdapterLists` |
| Sync, `internal/sync.ts`, and transfer, `internal/transfer.ts` | two walked maps, a plan | walk, compare, upload, prune, progress | two `Files` | the source changes meanwhile; crash and re-run | a clean run leaves a mirror; the destination is spared | `Sync` |
| Bulk pool, `internal/core.ts` `mapMany`, `deleteManyWithFallback` | shared index, slots | run an operation per item | every bulk helper | workers across awaits, `stopOnError` | each item once | `BulkPool` |
| Bulk delete, `index.ts` `#deleteMany` and `deleteMany` of the adapters | none | batches, groups of spellings, errors per key | adapters | partial answers, batches lost | each key answered for | `DeleteMany` |
| Plugins compression, encryption, dedup, soft-delete, validation, content-type, usage, audit; `#dispatch` | pointers and blobs, trash, counters | transform, reroute, refuse, watch | the rest of the onion | any order of any of them; several calls per operation | transparent; nothing half-done shows | `PluginStack` |
| Zip, `zip/index.ts` | archive so far | pack and unpack | downloads | offsets, field limits, broken archives | round trip | `ZipArchive` |
| URLs, `url` and `signedUploadUrl` of the adapters, plugin signed-url-policy | Azure's delegation key | sign, derive, share | providers | what cannot be bound into a URL; keys that end before what they sign | a wish is kept or refused | `Urls` |
| Uploads in one piece and downloads of the adapters | a lazy body | store, then look up; stat, then read; ranges | providers, other writers | two requests for one answer | size, ETag and bytes of one version | `Uploads`, `Downloads` |
| Ids of files, `google-drive`, `box`, `pocketbase` | caches from keys to ids | lookup, then act | other instances | stale ids, racing first uploads | one file per key | `FileIds` |
| Files and sidecars, `fs/index.ts` | two files per key | each verb in steps | other processes, crashes | a death between steps | the sidecar is of the bytes | `FsSidecars` |
| Plugin tracing | none | observes | none | none | transparent | no |
| Errors, `internal/errors.ts` and the adapters' mappers | none | a failure to a code | all | one word read two ways | what is missing is NotFound, what passes is retried | `ProviderErrors` |
| Bodies, paths, receipts, `internal/remote-path.ts`, `receipts.ts`, ... | none | conversions | all | none | mapping tables | no |
| Adapters: S3 and presets, object stores, drives, file systems | connections, credentials | the adapter interface | providers | provider behaviour | that of the provider | as the drivers and adapters of the modules above |
| Settings of the adapters, `providers/index.ts`, `cli/registry.ts` | none | options, flags and the environment to a client | adapters' constructors | aliases, halves of pairs, two sources for one thing | what the catalog asks for is what is needed; nothing given is dropped | `Catalog`, `Settings` |
| Command line | local files and directories | checks, then operations of `Files` | `Files`, the shell | what is checked before what; streams held open | a dry run foretells; the exit code tells | `CommandLine` |
| MCP server, AI tools | none | one or two operations of `Files` each | `Files`, agents | an object that grows after `head()` | what changes something is asked for; caps hold | `AgentTools` |
| Documentation site, videos, build scripts | none | none | none | none | not part of the program | no |

### Hard behaviour

`PROJECT.json` lists forty hazards at their lines. They fall into groups:

- *Interleavings in one process.* Part workers and pool workers share counters over
  awaits (`internal/resumable.ts:523`, `internal/core.ts:626`); cache fills merge into a
  record read earlier (`cache/index.ts:318`).
- *Closures left running.* `runWithSignal` rejects a call at its timeout or abort and
  leaves the adapter's promise to itself (`internal/retry.ts:129`).
- *Several calls that should be one.* Copy then delete (`index.ts:2430`), snapshot,
  prune, write (`versioning/index.ts:371`), walk, upload, prune
  (`internal/sync.ts:410`), write to a tier and delete from the other
  (`tiering/index.ts:549`).
- *Lost and late requests.* A write that landed and lost its reply looks failed; one
  that was given up may land later; a chunk may be kept in part.
- *Lists under a cursor.* Two tiers are paged apart under one cursor, which also has to
  remember the entries that were fetched and held back (`tiering/index.ts:308`).
- *Crash and resume.* A token outlives its process; a sync is simply run again.
- *Waiting.* Parked workers, backoff timers, secondaries without a timeout.

## 2. Modules

```
UploadPromise  <---- refines ----  ResumableUpload  <--- ResumableUploadProofs
               <---- refines ----  OffsetUpload     <--- OffsetUploadProofs
ResumableUpload, DeleteMany, FilesClient, Uploads   <--- MCResumableUpload
FilesMove                                           <--- FilesMoveProofs
FilesMove, FsSidecars, CommandLine, AgentTools      <--- MCFilesMove
CachePlugin                                         <--- CachePluginProofs
CachePlugin, FileIds                                <--- MCCachePlugin
Versioning                                          <--- VersioningProofs
Versioning, PluginStack, Urls                       <--- MCVersioning
BulkPool <-- Sync                                   <--- SyncProofs
Sync, Downloads                                     <--- MCSync
Failover                                            <--- FailoverProofs
Catalog <-- Settings
Failover, ZipArchive, ProviderErrors, Settings      <--- MCFailover
TieredList <-- Tiering                              <--- TieringProofs
Tiering, WalkPaginate, AdapterLists                 <--- MCTiering
```

A `...Proofs` module EXTENDS its component and TLAPS, and some take in, as an INSTANCE
under a name, pure modules to prove about: `ResumableUploadProofs` has `FilesClient`,
`OffsetUploadProofs` `Uploads`, `FilesMoveProofs` `AgentTools`, `CachePluginProofs`
`Urls`, `SyncProofs` `Downloads` and `DeleteMany`, `TieringProofs` `WalkPaginate`. An
`MC...` module EXTENDS its component and gives TLC values for constants that a `.cfg`
cannot write down, or a scope for the search. Fifteen modules are pure: `WalkPaginate`,
`AdapterLists`, `FilesClient`, `DeleteMany`, `Uploads`, `Downloads`, `Urls`, `FileIds`,
`FsSidecars`, `ProviderErrors`, `Settings` with its `Catalog`, `CommandLine`,
`AgentTools`, `PluginStack` and `ZipArchive`. They declare operators that compute an
answer, or the states that a few steps lead to, from arguments, and named assumptions
that compare them with what a caller should see, over every small input. TLC evaluates
an assumption when it starts a run whose module extends theirs, and stops the run if it
is false; they have nothing to do with the component beside them in an `MC...` module.
Where the code breaks a promise for some adapters, the assumption names them, with
`<=>`: it is as false when one more adapter breaks it as when one of them stops to. Only
`PluginStack` declares a RECURSIVE operator, and no proof module reaches it.

### ResumableUpload and UploadPromise

`ResumableUpload` is the engine in `parts` mode. `status`, `paused`, `session`,
`aborted`, `discard` are `UploadControl`'s fields. `run` is where the promise of
`runResumableUpload` stands. `committed`, `results`, `next`, `failed` are the locals of
`runParts`, and `wpc`, `part`, `tries` each worker's. `server`, `landed`, `object`,
`late`, `lateList` are the provider session as the driver contract uses it: a call takes
effect at some moment between being made and being answered, may lose its answer, and
may land after the client gave it up.

`driver` is one of four, for S3, R2, Azure and Vercel Blob. They differ in whether
`begin` opens a session at the provider or only mints a token, whether `probe` asks the
provider or reads the parts noted in the token, whether there is anything to discard,
and whether a session once committed takes further parts.

| Actions | Code |
|---|---|
| `Pause`, `Resume`, `Abort`, `AbortReturns`, `Persist`, `SignalAbort` | the control's methods; an entry of `opts.signals` |
| `Upload`, `BeginReturns`, `ProbeReturns`, `EstablishFails`, `LateDiscardReturns` | `runResumableUpload` up to the workers, adoption of a token and an abort that came first included |
| `Claim`, `NothingLeft`, `Recheck`, `CheckLatch` | a worker's loop: counter, pause gate, failure latch |
| `StartAttempt`, `SliceFails`, `PartAnswered`, `PartReturns`, `AttemptRetries`, `BackoffElapses`, `AttemptFails` | one part under `withRetries` and `runWithSignal` |
| `GateThrew`, `WorkersReturn`, `CompleteReturns`, `CompleteFails` | `Promise.all` and `complete()` |
| `Restart` | the process dies, a new one calls `UploadControl.from` with what `toJSON` returned |

`UploadPromise` says what the caller may rely on: the object appears at most once and
only whole, `upload()` resolves only if it is there, and a settled promise stays settled
unless the caller starts again from a token. What is stored stays, unless the caller
aborts an upload whose provider cancels it by removing the object. Both engines
implement it. `ImplementsPromise` maps `run` (`pc` in `OffsetUpload`) to `outcome` and
the object to `stored`; a partial object has no counterpart, so it would be a violation.

### OffsetUpload

The engine in `offset` mode, `runOffset` (`internal/resumable.ts:581`), over the
thirteen adapters that have such a driver. A driver is a record: who knows the `offset`
on resume (the server, the token, the process), how a chunk is written (`write`: in a
range that says where it belongs, checked against what is there, at a position of a
file, appended, pushed on a list), which call makes the object (`commit`), whether
`complete` demands a final reply (`proof`), and what `discard` removes (`cancel`).
Google Cloud Storage, Firebase and Google Drive share one HTTP protocol; OneDrive,
Dropbox, Cloudinary, Appwrite, Supabase, FTP, SFTP, the file system, and the three that
gather chunks in memory (memory, Box, Bun) have records of their own.

`pc`, `offset`, `tries`, `answer`, `final` are the loop's; `held` and `order` say how
much the provider holds and whether a byte is out of its place. All calls send slices of
one body, so this tells everything about the content. A chunk may be kept in part, lose
its reply, be given up and land later (`late`); the process may die and resume from the
token, whose own offset may be behind.

The appends of FTP and SFTP name no position. What keeps them in order is the size they
ask for first (`SizeChecked`, then the append lands: a call's `stage` is `asking` or
`writing`). The check is not part of the write, and it can fail: an FTP append whose SIZE
errors is made as it is (`ftp/index.ts:628`), and an append given up by an abort goes on
if its connection was still being acquired then, or if the client is the caller's own
(`ftp/index.ts:268`, `sftp/index.ts:234`). `unguarded` says that an append of the run
lost its guard: another one was between its check and its end, the size was unknown and
not what the caller thought, or the file was deleted under it.

### FilesMove

`#run` around `#move`. `pc`, `error`, `attempt` are `#run`'s, `chain` is the closure of
the latest attempt, `signal` the merged signal. `Lands`, `Fails`, `Replies`,
`SendDelete` move a closure forward, also after `Abort` has rejected its call. Only
provider errors are retried, as `internal/retry.ts` decides. The adapter is a record
that stands for each of twenty-two: it renames, or copies at the server, or reads and
writes, or looks up which file holds the destination; it replaces a destination or
refuses with one code or another; a delete of nothing is fine or NotFound; it looks at
the signal or not.

### CachePlugin

`cached` and `recency` are the default store, `Get`, `Set`, `Delete` its methods. `Hit`,
`Miss`, `Answer`, `Return`, `Fill`, `Put` are the read path: a lookup, the provider's
answer, and the read-modify-write of `putRecord`, each across an await. `WriteLands`,
`WriteFails`, `WriteReturns`, `Invalidate` are the write path, and `InvalidateCache` is
the plugin's own method. `setting` says which world it runs in: whether the store takes
time, whether a caller reads a key while writing it, whether a write can land and throw.
Metadata and bodies are the version number they belong to, and a url is the time it was
signed.

### Versioning

Each adapter call is one step: `HeadObject` and `Save` (snapshot), `ListVersions` and
`DeleteVersion` (prune), the write (`UploadLands`, `DeleteLands`, `CopyLands`,
`MoveLands`). `restore(key, id)` and `restore(key)` (`undo`) first look for their
version (`CheckExists`, `PickNewest`) and then go through the same wrap
(`RestoreLands`). `Fail` throws at any of these calls. A version's id is the time and
the ETag's slug that `head` saw, as in the code. Time is the provider's `lastModified`
in ticks of its resolution: a write lands in the tick of the last one or in the next
(`Stamp`). `setting` says how slugs sort, which data share one (all, where the adapter
has no ETag and the slug is `x`), and how many versions are kept. So versions of one
tick sort by slug (`Older`), and a snapshot replaces a version that has its id
(`Stored`, `replaced`). `prior`, `pruned` and `replaced` are history variables.

### BulkPool and Sync

`BulkPool` is `mapMany`'s engine: `Call` starts it on a list, `Take` hands a worker the
next slot, `SettleSlot` ends it, `Drained` is when the call returns. It has no
specification of its own: `Sync` EXTENDS it and runs it twice, for uploads (`Skip`, or
`BeginKey`, `Download`, `Upload`) and for the prune (`BeginDelete`, `Delete`).
`ListSource` and `ListDest` walk both buckets page by page; `BeginUploads` makes the
plan and returns it in a dry run; `UploadsReturn` and `PruneReturns` end the phases.
Beside it, `Edit` changes the source, `LateLands` lets a request that was given up
arrive, `Abort` aborts the signal, `Crash` ends the process. Sizes and ETags are
functions of the content, so that two contents can have one size.

`transfer` is the same machine in two further settings of `options.compare`: `overwrite`
copies every key of the source walk, and `exists` first asks the destination for each.
It walks the source alone, has no plan, and prunes nothing.

### Failover

One operation over a chain, with the default `shouldFailover`. `Answer`, `Miss`,
`Refuse`, `Fail`, `Timeout` are the ways a request to the current backend ends, `Threw`
decides between another attempt, the next backend and the caller. The primary's client
has the constructor's options; a secondary's, `new Files({ adapter })`, has only the
call's. Backends change between up, closed (they refuse the client), down and hung; a
request that got no answer may land later. `known` and `reachable` are history variables
for the properties.

### TieredList and Tiering

`TieredList` is `listMerged` with the two tiers below it. Entries are numbers in key
order. `slot` is the composite cursor, a tier's cursor and the `skip` of entries already
emitted from the page it leads to; `page` holds what the tiers answered in this call.
`FetchPage` asks a tier for its next page, of any length and possibly empty, or for a
held page again; `Merge` returns what no tier can still precede, and makes the next
slots. The tiers change meanwhile.

`Tiering` EXTENDS it with the plugin's other operations, one adapter call a step:
`uploadRouted` and its eviction from the other tier, deletes of one or both, `copy` and
`move` within a tier and across, `tier()`, and reads that look in one tier and then the
other. A caller makes one call after the other; a reader reads meanwhile. Any call may
fail with its effect done or not. `may[k]` is the history the properties need: the
versions that a read of `k` may find.

### WalkPaginate

`FlatPage`, `FoldedPage` and `PageKeyList` are `paginateKeys`, `paginateHierarchy` and
`pageKeyList`; `WithoutGone` drops the files that vanish between the file system's walk
and its stat. A key is its position in key order, and `group[k]` the prefix it collapses
into. `Walk` is a caller that passes the cursors back while the keys change.

### AdapterLists

`list()` of every adapter that lists, over a tree of keys: what the provider's pages run
over (keys, a folder's children, whole walks), where the prefix is applied, what the
cursor is made of (a token, the last file shown, a page number, an offset, nothing), how
folders are shown. `listAll()` is the loop of `index.ts` around it, while the tree
changes between pages.

### FilesClient

What `Files` does around the adapter. A key is a sequence of slashes, dots and names, so
that `prefixed` and `unprefixed` paths can be told apart; globs are matched by segments.
`search()` is a listing narrowed by what the pattern begins with, and filtered. A call
for one key, or for many, is a sequence of requests, results and hooks.

### Uploads, Downloads, FileIds, FsSidecars

Four modules about adapter calls that are more than one request.

- `Uploads` has `upload()` of every adapter: the request that stores, the lookup or the
  sharing after it, and where the answer's size and ETag are from. Requests fail, having
  landed or not; another client writes or deletes in between; the runner repeats a
  buffered body. It also has the sessions of Dropbox and OneDrive as sequences of
  ranges.
- `Downloads` has `download()` and `head()` in their forms (whole, stream, range, lazy
  body): which requests, in which order, for the metadata and for the bytes, of an
  object that stays, is replaced or goes between any two.
- `FileIds` has the adapters that find a file by a query and remember its id: several
  instances, each with its cache, over one drive.
- `FsSidecars` has the file system adapter's bytes and sidecars, step by step: alone, cut
  short after any step, two processes at a time.

### ProviderErrors

A failure reaches an adapter as a status and a word. The mappers of 22 adapters turn it
into a code, and `exists()`, retries and the plugins go by the code. `Means` says what
the provider meant.

### Catalog and Settings

A setup is the set of options and variables that hold a value, and of those that are
there but empty. `Catalog` is what the package says: environment modes per provider,
flags, hints. `Settings` is what each of the 44 adapters does with a setup: whether it
can be built, which settings the credential is of, and which say where requests go.

### Urls

`url()` and `signedUploadUrl()` of every adapter, over its configuration (a public base,
public objects, credentials), the caller's wish and whether the object is there; the
plugin signed-url-policy before them; public URLs as sequences of segments; Azure's
cached delegation key over time.

### CommandLine and AgentTools

`CommandLine` has a command as a sequence of checks and calls of `Files`, in the order
of `program.ts` and `commands.ts`; a dry run takes the first of them and an echo.
`ToldOf` turns the answers for several keys into an exit code. `DownloadToDir` writes
objects below a directory and `WalkDir` reads them back; `Streaming` holds streams open
while others are asked for.

`AgentTools` has the tools of the MCP server and of the four toolboxes, the operations
each makes, how `requireApproval`, overrides and `readOnly` decide what is asked for,
and downloads that look at `head()` first.

### PluginStack

An operation is an operator from a bucket's state to an answer and a state; a plugin is
one that also takes the rest of the onion and calls `Dispatch` on it, the code's `next`.
A body is a content under layers (compressed, sealed under a data key, a slice), a key
is the caller's or one of those the plugins keep under a prefix, metadata are the fields
each plugin adds. The provider may fail for good at any of its calls, before or after
its effect.

### ZipArchive

An archive is a sequence of records with widths, so that an offset leads to a record or
to nothing. `ZipChunks` writes, `ParseCentralDirectory` and `ExtractEntry` read. The 16
and 32 bit fields are scaled down to limits of 4 and 24, with the records to scale, so
that every limit is reached by two or three entries.

### DeleteMany

`#deleteMany` over the ways in which adapters delete many keys: one by one, in S3's or
Azure's batches, or in one request for everything. The provider refuses some keys, and
some requests are lost, having landed or not.

## 3. Runs

Every state space has bounded counters (calls, restarts, writes, the clock), and every
one of these programs may sit idle for good, so deadlock is not checked; what must not
get stuck is stated as liveness.

| Run | Instance | Shows |
|---|---|---|
| `upload` | 2 parts, 2 workers, 4 drivers, 1 retry, 1 restart | seven properties, safety, refinement and liveness; about 190 thousand states. And the assumptions of `DeleteMany`, `FilesClient`, `Uploads` |
| `upload_abort_discards` | the same, no retry | a disagreement, see section 6 |
| `upload_signal_pause` | no retry, no restart | a disagreement |
| `offset` | bodies of 0 and 3, chunks of 2, 13 drivers, 1 retry, 1 restart | four properties; about 400 thousand states |
| `move` | 3 calls, 2 retries, 22 adapters | six properties; about 480 thousand states. And the assumptions of `FsSidecars`, `CommandLine`, `AgentTools` |
| `cache` | 2 keys, 2 operations at once, room for 1 record, ttl 2, urls live for 1, the clock to 3 | four properties, in both settings; about 1.8 million states. And the assumptions of `FileIds` |
| `versioning` | 2 keys, 1 operation at a time, limits 1 and 2, no ETags and ETags that sort against time, 2 uploads, 2 ticks | four properties, with failures anywhere; about 1.3 million states. And the assumptions of `PluginStack`, `Urls` |
| `versioning_restore` | 1 key, limit 1, 3 uploads | a disagreement |
| `sync` | 2 keys a side, swapped by `transformKey`, 2 workers, 2 calls, 1 edit | six properties of sync and transfer; about 480 thousand states. And the assumptions of `Downloads` |
| `failover` | 3 backends, 2 operations, 1 retry, 1 change | four properties; about 980 thousand states. And the assumptions of `ZipArchive`, `ProviderErrors`, `Settings` |
| `failover_retries` | 2 backends, 1 operation | a disagreement |
| `tiering` | 3 keys, 2 calls, 1 read, 1 refused page | five properties; about 600 thousand states. And the assumptions of `WalkPaginate`, `AdapterLists` |

**upload.** `CompleteListsEachPartOnce`: whatever was claimed, probed, retried or
answered late, `complete()` gets each part once. `ImplementsPromise`: refinement of
`UploadPromise`. `TokenKeptUnlessAborted`: an abort during `begin` or `probe` does not
resurrect a session, and nothing but `abort()` takes the token. `StatusReflectsPause`:
gate, pause, resume and latch agree on the status. `NoCallOnDeadRun`: no part is sent
after a failure, abort or settlement. `UploadSettles`: `upload()` ends, also from the
pause gate. Two parts and two workers give every shape of contention (one claims while
one fails, parks, or is answered late); one restart meets a partly landed session and
calls of the dead process. `MCResumableUpload!RetriesOfS3` keeps retries to one of the
four drivers, since a retry does not depend on the driver; the proofs do not restrict
it.

**offset.** `StreamInOrder`: as long as every append kept its guard (`~unguarded`), what
an open session holds is the beginning of the body, and neither the loop nor the token
is ahead of it, whatever was kept in part, answered late or sent again.
`ImplementsPromise`, with the same condition: refinement of `UploadPromise`, whichever
driver it is: the object appears whole, by the call that commits it, is there when
`upload()` resolves, and is only ever removed where a discard removes it and the caller
asked for one. `OffsetSettles`. A body of 3 in chunks of 2
has a full chunk and a short last one, and can be kept in part; the empty body is the
other edge. One restart is the least for a token that is behind, and for an append of
the first run beside those of the second. No driver but FTP and SFTP sets `unguarded`,
and each of its causes is needed: without any one of them `StreamInOrder` or
`ImplementsPromise` fails.

**move.** `NeverLost`, `ResolvedMeansMoved` (also while older closures still run),
`NotFoundMeansMoved` (a re-run that finds no source means that an earlier request did
the work), `NoRequestAfterAbort`, `CallSettles`. Three calls are the call that times
out, the one that overlaps its closure, and one after both. `MCFilesMove!Scope` allows
two retries before a third call and one with it.

**cache.** `StalenessBounded` holds in the worst setting: a live entry is the current
version or was replaced within the last ttl. `HitsAreFresh` holds for callers that keep
reads and writes of one key apart and lose no reply. `HitUrlsAreValid` holds for the
store in memory. `TypeOK` says that the store never holds more than it may.
`MCCachePlugin!Scope` limits the two settings separately, to keep the product small:
kept apart, both keys are written twice within one tick, so that hits, eviction and
invalidation meet; otherwise one key is written, deleted and read over the whole clock,
so that races and expiry meet. Keys and threads are symmetric (no liveness is checked
here).

**versioning.** `SafeToWrite`: at the moment of the write the live bytes are among the
versions, unless as many versions as the limit are of the object's own tick and sort
after it. `NothingLost`: only prune loses an upload, and a snapshot whose id belongs to
a version of other data with the same slug. `UndoBringsBackPrior`: `restore(key)` brings
back what the last change replaced, unless another version of the same tick was picked,
or the object it replaces has the id of the picked version and was saved over it. Each
exception does happen: without any one of them the run fails (section 6 quotes the docs).
With limit 1 every snapshot prunes, with limit 2 a tick can hold both versions kept; two
uploads, with copies and restores between them, give more versions than either; two
ticks give ties and their end. Operations that do not overlap work on different keys and
share only the counters, so one at a time is checked and any number is proved.

**sync.** `OncePerItem` is the pool's. `DestSpared`: what is deleted was not wanted when
the source was walked, every upload has settled, and under `stopOnError` has succeeded;
and a transfer with `overwrite: false` replaces nothing, unless others write between its
question and its upload. `MirrorWhenQuiet`: a call without errors leaves a mirror if
nobody else changed a bucket, also after an earlier call failed, was aborted or died.
`CountsAddUp`: progress equals the result and fits the total. `SyncReturns`. Swapped
keys make source names and destination names differ; two calls make the repair of a
half-done one visible.

**failover.** `ReadYourWrites`, `FirstReachableAnswers`, `CallReturns`. Three backends
are the least for which "the next one" and "the last one" differ from "the other one".

**tiering.** `OneCopy`: after a call that resolved, a key has one copy, that of the last
write. `ReadIsCurrent`: a read finds what was last written, or what a failed call may
have written, and misses only what may be gone or changed tiers while it looked.
`ListedInFull`: a key that stayed where it was is listed, as the hot tier has it; no key
is listed twice, and keys come in order, unless a tier gained a key meanwhile.
`ListingEnds`. `MCTiering!Scope` explores two settings: two calls with a read, in tiers
of two keys that nobody lists; and the listing of three keys beside one call. Three keys
give a page that is held, emitted in part and asked for again. Any key starts in any
tier, which stands for earlier calls.

**The pure modules.** Their assumptions are checked on every input within these bounds.

- `WalkPaginate`: every tree of four keys in up to two groups, every cursor and limit.
  `PagesAreExact` (a page is the next `limit` entries, none in part, and has a cursor
  just if some remain), `FlatIsFolded`, `WalksAreWhole` (a walk beside one change),
  `PagesFitTiering` (what `FetchPage` assumes of a tier's page).
- `PluginStack`: every order of every choice of compression, encryption, dedup and
  soft-delete, two names, three contents, the buckets that up to two operations lead to,
  and, for up to two plugins, a provider that fails at any call. `StacksAreTransparent`,
  `ListsShowTheCallersFiles`, `HalfWayIsHarmless`, `AddingIsSafe`, `ContentsAreShared`,
  `PointersOutliveWrites`, `ObserversSeeTheCaller`, `VettedFirst`.
- `ZipArchive`: every selection of up to two of seven files under six names, of three or
  four small ones, stored and deflated. `ArchivesReadBack`,
  `OnlyWhatCannotBeHeldIsRefused`, `NoPartIsAnArchive` (a truncated stream),
  `ChangesAreCaught` (any one number in the directory changed).
- `DeleteMany`: every list of up to three keys out of five, of which two are one path
  and one is no key, refused keys and lost requests. `EveryKeyIsAnswered`,
  `StopsAtTheFirstError`, `RepeatingFinishes`.
- `AdapterLists`: every tree of up to four keys. `WalksAddUp` (the pages of a walk are
  the keys, once each), `FoldersOpen`, and walks beside deletes, changes and removed
  directories: `DeletesBesideWalks`, `ChangesBesideWalks`, `WalksBesideRemovals`.
- `FilesClient`: globs of up to three segments, walks of up to four files, up to three
  items with two attempts. `ClientsStayApart`, `KeysComeBack`, `ListsAreScoped`,
  `ForeignKeys`, `PushdownLosesNothing` (a search's prefix), `SearchesFind`,
  `CallsAreReported` (hooks), `ManyIsEachOnce`.
- `Uploads`: 22 adapters, totals to 13 in chunks to 4. `UploadsAlone`, `OwnETag`,
  `DoneButRejected`, `ToldLess`, `DeletedAtOnce`, `RepeatedOnce`, `RetryOverwrites`,
  `SessionsSendTheBody`.
- `Downloads`: objects of up to three bytes, ranges from -1 to 4, a change between any
  two requests. `TheSliceAskedFor`, `NeverMoreThanAsked`, `OneVersion`,
  `SizeOfTheBytes`, `GoneMeanwhile`, `HeadThenRead`, `ReadOnce`.
- `FileIds`: two keys, up to five calls of one instance or four of two, and two first
  uploads that overlap. `AloneAPlainMap`, `TogetherOftenPlain`, `StaleIdsHide`,
  `FirstUploadsRace`.
- `FsSidecars`: every verb cut off at every step, called again, and interleaved with one
  other. `AloneOrderly`, `CutShort`, `CalledAgain`, `TwoAtOnce`, `ReadBesideWrite`,
  `UploadsAtOnce`.
- `ProviderErrors`: every failure of every adapter's provider. `MissingIsNotFound`,
  `NotFoundIsMissing`, `PassingIsRetried`, `LastingIsNotRetried`.
- `Settings`: every choice of up to three of an adapter's options (four for Oracle and
  PocketBase) and three variables of the environment (two for SharePoint).
  `CatalogAssumption`, `FlagsAssumption`, `HintsAssumption`, `ReachAssumption`,
  `KeyFlagsAssumption`, `ExcludedAssumption`, `FlagsAloneAssumption`,
  `PrevailAssumption`, `UsableAssumption`, `KeptAssumption`, `SecretsAssumption`,
  `EmptyAssumption`, `HomeAssumption`, `SourceAssumption`, `SignerAssumption`,
  `SharedAppAssumption`.
- `Urls`: every configuration, wish, presence of the object and policy.
  `DispositionBound`, `LivesAsAsked`, `ClaimsKept`, `MissingObject`, `WhoLooks`,
  `BaseSuffices`, `DropboxRefusal`, `PolicyDisposition`, `PolicyLife`,
  `PolicyOnlyTakes`, `SizeHolds`, `TargetLife`, `PublicUrlsApart`, `KeyOutlivesSas`,
  `KeysReused`.
- `CommandLine`: every command with every choice of the flags that decide something,
  lists of up to three answers, pairs of keys of up to three segments, four keys with
  three workers and three connections. `DryRunsSpare`, `DryRunsForetell`,
  `RefusedUntouched`, `ExitsTell`, `KeysBecomeFiles`, `DirectoriesReturn`,
  `StreamsHeldOpen`.
- `AgentTools`: every tool, approval, override and `readOnly`; objects of up to four
  bytes that change between the two requests of a download. `ReadOnlyIsFinal`,
  `ChangesAreAskedFor`, `StrangersAreAllowed`, `CapsHold`.

### Fairness

Safety runs use `Spec`. Liveness uses weak fairness of the program's own steps:
continuations run, and each adapter call settles with an answer or an error (an answer
need not be good). This is the contract of a promise in this code and what a client
library's own timeouts give. `FilesMove` assumes less: the provider may never answer,
but a timeout is configured and its timer fires. In `Failover` a hung backend never
answers; only timers end it. `OffsetUpload` assumes more, since its loop does not count
rounds: a provider that is sent the same chunk again and again stores something of it at
last (strong fairness of `ChunkProgresses`). `Tiering` assumes only that tiers answer
pages. Nothing is assumed of users, of restarts, of late requests, or of the world
changing.

## 4. Theorems

| Module | Theorem | States |
|---|---|---|
| `ResumableUploadProofs` | `TypeCorrect`, `Invariance`, `PartListCorrect`, `Refinement`, `StatusAgrees`, `TokenIsKept`, `NothingSentWhenDead` | the types; `IInv` is invariant; `CompleteListsEachPartOnce`; `Spec` implements `UploadPromise`; `StatusReflectsPause`; `TokenKeptUnlessAborted`; `NoCallOnDeadRun` |
| with `FilesClient` | `KeysLeadBack`, `PrefixesKeepApart`, `ListsKeepToTheirScope`, `CallsAreToldInOrder` | `KeysComeBack`, `ListsAreScoped`, and `ClientsStayApart` but for how a prefix is spelled, for texts of any length over any alphabet; `CallsAreReported` for any number of retries |
| `OffsetUploadProofs` | `OffsetTyped`, `StreamStaysInOrder`, `OffsetRefinement` | the types; `StreamInOrder`; `Spec` implements `UploadPromise` |
| with `Uploads` | `GraphSendsTheBody`, `DropboxSendsTheBody` | the ranges of the two upload sessions are the body, for any total and chunk |
| `FilesMoveProofs` | `MoveTyped`, `MoveNeverLoses`, `MoveResolvedMoved`, `MoveNotFoundMoved`, `NothingSentAfterAbort`, `MoveRetriesProviderErrors` | the five safety properties of `move`; only provider errors are retried |
| with `AgentTools` | `CapsKeep` | `CapsHold` for objects, ranges and limits of any size |
| `CachePluginProofs` | `AlwaysTyped`, `StoreIsBounded`, `StalenessIsBounded`, `FreshHits`, `ValidUrls` | the types, the store's bound among them; `StalenessBounded`; `HitsAreFresh`; `HitUrlsAreValid` |
| with `Urls` | `KeysOutliveEverySas`, `PolicyTakesAway` | `KeyOutlivesSas` for any calls at any times: Azure's cached delegation key outlives each URL it signs unless the URL's life leaves no room in the key's seven days; signed-url-policy only takes away, under any policy |
| `VersioningProofs` | `VersioningTyped`, `Inductive`, `SnapshotBeforeWrite`, `NothingIsLost`, `UndoRestoresPrior` | the types; an inductive invariant; `SafeToWrite`; `NothingLost`; `UndoBringsBackPrior` |
| `SyncProofs` | `SyncTyped`, `EveryItemOnce`, `SyncSpares`, `SyncMirrors`, `ProgressAddsUp` | the types; `OncePerItem`; `DestSpared`; `MirrorWhenQuiet`; `CountsAddUp`; each for sync and transfer |
| with `Downloads` | `SlicesAreExact`, `OneReadHowever` | a range of an object of any length is answered with its bytes, by each way adapters ask for them; a stored file is fetched once, whatever the accesses |
| with `DeleteMany` | `EveryKeyOnItsOwn` | of a list of any length, deleted key by key, each key is answered for and nothing else goes; asked to stop, the loop ends at the first failure |
| `FailoverProofs` | `FailoverTyped`, `NoBackendPassedOver`, `ReadsFindWrites` | the types; `FirstReachableAnswers`; `ReadYourWrites` |
| `TieringProofs` | `TieringTyped`, `OneCopyKept`, `ReadsAreCurrent`, `ListingIsFull` | the four safety properties of `tiering` |
| with `WalkPaginate` | `PagesAreWhole` | of any sorted list in which a group stands together, a page is the next `limit` entries, no group in part, with a cursor just if some remain |

Those about state machines hold for any number of parts, workers, retries, keys,
threads, calls, backends, limits, body and chunk sizes and any bound on the clock and
the counters, and without the scopes of the `MC...` modules. Assumptions are the
modules' named ASSUMEs: types of constants, `Source # Target`, an injective
`TransformKey`. Some theorems are about a restricted use, which their statement names:
`FreshHits` about disciplined settings, those of `VersioningProofs` but the first about
callers that do not overlap two changes of one key, and, where there is a limit, about
adapters whose move stamps what it moves. The versioning plugin takes no lock and orders
versions by time: without either restriction its properties are false (section 6).
Nothing is assumed of stamps and ETags: writes of one tick, shared and missing ETags are
in these theorems, and their properties name what may happen then. `StreamStaysInOrder`
and `OffsetRefinement` speak of runs whose appends have kept their guard so far.

The arguments:

- *Upload.* `CompleteListsEachPartOnce` is not inductive: it says nothing before
  completion. `IInv` accounts for every part number at every moment. A part beyond
  `next` is untouched, a committed part is listed once, any other claimed part is
  listed, held by exactly one worker, or lost to a failure that ends the run. When every
  worker is done without a failure, `next` has passed the last part and nobody holds
  one, so each is listed. The refinement follows because the object is only ever
  assembled from such a list. `ControlInv` adds what ties the control to the run: which
  states have a token, a discard and which status, and that a worker past its checks has
  a live run.
- *Offset.* While the session is open it holds a prefix of the body, and the loop's
  offset, the answer in flight, the token's offset and its saved copy are at most its
  length. A chunk that lands late or twice begins at or before that length, so it can
  only repeat what is there. An append that has found the size it expects and not ended
  is the only one, and what it writes begins where the file ends, as long as no other
  append runs between its check and its end (`AppendsApart`); the step that breaks this
  sets `unguarded`. For the refinement: the object that others see becomes
  whole in one step, the write or the call that completes it, before which the promise
  is pending; from then on only a discard takes it away, which is sent only after
  `abort()`, and only some drivers' discards remove an object (`revoked` remembers it).
- *Move.* The object leaves the source only by a rename or by a delete, and a delete is
  sent only after a copy has landed; what the destination holds gives way only to a copy
  of something newer, and once it holds the object no request of these moves takes it
  away.
- *Cache.* An entry that expires later than now was got by a read that began less than a
  ttl ago, so what it saw was current within the ttl; this is kept through `record`,
  which an overlapping fill may have read earlier, and through `seen`. For
  `HitsAreFresh` the records of keys with no write pending are fresh, and separation
  keeps a read and a write of one key from meeting. For `HitUrlsAreValid` an entry
  expires no later than the signature it holds.
- *Versioning.* No version of a key is of a later time than the object there
  (`LiveIsNewest`). From `save` on, the version directory holds the object's snapshot.
  Prune takes the smallest ids, so if it takes that one, the versions it keeps are of the
  same tick and sort after it: those newer than the greatest id that it takes
  (`ExcessIsCrowded`, `Crowded`). Either way what it saved is among the versions or in
  `pruned`, and from the write on some version is as new as what the last change
  replaced and none is newer, until the next `save` (`NewestHolds`). An undo picks one of
  that time; if it has the id of what was replaced it has its data, until the object that
  the undo itself replaces is saved over it (`KnowsPrior`). For `NothingLost`, a version
  that a snapshot of its id replaces has its slug.
- *Sync.* The pool's slots partition into waiting, running and settled; what a worker
  holds is in the batch and was wanted (or extraneous) when the batch was made. While
  quiet, the walked maps equal the prefix of the buckets they have covered, and each
  destination key equals its walked content or its source's, according to whether its
  slot is settled. What progress has reported is counted over the slots: done, failed
  and left slots are the plan, and `stopOnError` alone leaves any.
- *Failover.* Every backend before the current one has failed at least once since the
  operation began, so it is not in `reachable`. While nothing changes, the first backend
  that answers is the same for the write and the read.
- *Tiering.* Pages are true to their tiers except for keys touched since; what lies
  before a tier's slot has been listed or touched; both slots of a round agree on how
  far that is, and nothing listed lies beyond. For the calls, the invariant says at each
  step of a call what the two copies of its key may be, and that `may` covers them; a
  read that goes from one tier to the other has in `possible` whatever it passed over.
- *Pure modules.* Loops over lists (`CutPage`, `OneByOne`, `History`, `KeyCache`, the
  upload sessions) are recursive functions. That such a function exists, and that an
  invariant of a turn holds after every turn, is induction over numbers; the library's
  rule for it takes an operator, so `UpTo` and `LoopsTurn` are proved anew from the
  well-foundedness of `<` (`NatLessThanWellFounded`, `WFMin`), in each module that needs
  them. The rest is one lemma a turn: what `CutPage` has read so far is cut at a group's
  end; what `OneByOne` has answered so far are the first keys, in order. `PagesAreWhole`
  is what `FetchPage` takes for granted of a tier's page. For `FilesClient` there is no
  loop to follow: a path is a prefix, one slash, and a text that does not begin with one
  (`LeadingSlashes`), so it can be cut in two in one place only, and a relative segment
  cannot span the cut.

What stays with TLC: every liveness property (`UploadSettles`, `OffsetSettles`,
`CallSettles`, `SyncReturns`, `CallReturns`, `ListingEnds`), since fairness and ENABLED
are beyond the prover; and the assumptions of the pure modules that no theorem above
states. These compare recursive computations over structures (stacks of plugins, zip
archives, trees of keys), folds with operators for arguments, or finite tables of
adapters, where the check of every case is the proof.

## 5. What is abstracted

- Keys, contents and parts are numbers or model values. Digests, headers, urls, names
  and formats are left out; an ETag is the content it belongs to.
- In `Sync` prefixes (`prefix`, `destPrefix`) are left out: both sides work under one.
  `FilesClient` models what a prefix does.
- Sparse slots in a list of items do not occur in `BulkPool`; in `Sync` a native
  `deleteMany` is modelled as the fallback loop.
- In `Sync` both sides use one ETag scheme, and a walk's page holds one key.
- In `Failover` operations concern one key, all replicas start with the same object, and
  there is no custom `shouldFailover` or `onFailover`. The multi-key verbs and `list`
  are left out; note that a walk whose later page fails over hands the primary's cursor
  to a secondary (`failover/index.ts:325`).
- In `Versioning` the hiding of version keys in `list` is left out, and so are adapters
  without `lastModified`, whose ids take the time of the client's clock at the snapshot.
  Slugs are numbers, so that every order of them can be chosen.
- In `ResumableUpload` a token is a copy. Vercel Blob's is an object shared with the
  driver, so in one process a late reply of a timed-out part can still push to the
  `parts` list of a newer control, which a further resume then lists twice. Stale blocks
  of another body under one Azure blob are left out.
- In `OffsetUpload`, `abort()` is terminal: the application forgets the token it saved.
  A file-system write given up on is over before a later run renames the file. Lists in
  memory die with the process.
- In `FilesMove`, UploadThing (whose delete drops the signal its copy takes) and Convex
  (which has no copy) have no record; OneDrive's copy job does not outlive the poll for
  it.
- In `Tiering` the caller makes one call at a time, and requests that were given up do
  not land later; cursors are keys (start-after); `tier()` is used only with `fallback`,
  without which reads would miss what it moved.
- In `PluginStack` operations do not overlap, there are no timeouts, bodies are not
  streamed, and an adapter's move is a copy and a delete; the trash keeps one copy of a
  key. Audit's sink does not fail.
- In `ZipArchive` a file's size is its stream's, and archives come from `zip()`,
  possibly cut or with one number changed: other tools' archives (other methods,
  encryption, extra fields) are left out.
- Of `Files`, the checks of arguments and capabilities are left out but for those that
  `FilesClient`, `Urls` and `Downloads` need.
- `FilesClient` has keys of segments out of a small alphabet, and no clock. `Uploads`,
  `Downloads`, `FileIds` and `FsSidecars` have one key and at most two actors;
  `ProviderErrors` has the causes that a provider distinguishes, not its wording;
  `Settings` and `Urls` say what is signed and with what, not how.
- `CommandLine` and `AgentTools` leave out the parsing of single values, the formatting
  of output, help, descriptions and the frameworks the tools are made for. A local
  directory is empty at first and one process writes to it.

### Not modelled

Bodies, MIME types, receipts and remote paths are pure conversions. Tracing observes and
changes nothing. Dropbox's and OneDrive's refresh of access tokens, and connections to
FTP and SFTP servers, are not modelled: the models of these adapters begin with a client
that is let in. The documentation site, videos and build scripts are not part of the
program.

## 6. Where the code and its documentation differ

Each of these has a run that finds it.

1. `upload_abort_discards`. The docs say that `abort()` discards the provider-side
   session (`src/apps/web/content/docs/resumable.mdx:50`). A control rebuilt by
   `UploadControl.from()` and aborted before `upload()` has no discard installed
   (`internal/resumable.ts:255`): the token is forgotten and the session stays.
2. `upload_signal_pause`. The docs say that aborting the `signal` cancels the call
   (`resumable.mdx:52`). Workers at the pause gate wait for `resume()`, `abort()` or a
   failure, not for the signal (`internal/resumable.ts:449`), so a paused upload goes on
   waiting.
3. `versioning_restore`. `restore` is documented to throw when there is no such version
   (`versioning/index.ts:48`). It checks for the version, then takes its own snapshot,
   whose prune may delete that version (`versioning/index.ts:360`), and then throws.
4. `failover_retries`. A secondary is documented to get the same retry as the primary
   (`failover/index.ts:60-62`). Its `Files` is made from the adapter alone
   (`failover/index.ts:238`), so constructor `retries` and `timeout` do not apply.

Further limits of the code, seen while modelling and not shown by a run. The properties
above are stated so that they are true beside them.

- Upload: an abort while `complete()` is in flight does not keep `upload()` from
  resolving (`internal/resumable.ts:710`); a pause after the last dispatch does not keep
  it from completing (`:577`).
- Offset uploads: FTP, SFTP and Appwrite discard by deleting the object, so an `abort()`
  during or after the last chunk can remove what `upload()` then reports; FTP and SFTP
  show the object while it is partial, and `begin` removes the one before. An append
  whose SIZE fails is made as it is (`ftp/index.ts:628`), and `probe` takes such a failure
  for an empty file (`:609`), so a retried or resumed chunk can be in the file twice; so
  can one that was given up by an abort, since the listener that ends it is attached
  after the connection is acquired, and an injected client is not ended at all
  (`ftp/index.ts:268`, `sftp/index.ts:234`). Dropbox and OneDrive cannot recover
  when the reply to the last chunk is lost, nor Dropbox and Cloudinary a token that says
  everything was sent: the upload rejects though the object is there. Empty bodies go to
  OneDrive, Cloudinary and Appwrite as `bytes 0--1/0`. A server that acknowledges
  nothing of a chunk is sent it again without end and without spending a retry
  (`internal/resumable.ts:633`).
- Move: a repeated move of a moved object rejects with NotFound (`index.ts:2429`); after
  a timeout, an adapter that ignores the signal goes on to delete (`:2430`), and a
  caller that moves the object back meanwhile can lose it. The docs' "overwritten if it
  already exists" and "re-running `move` recovers"
  (`src/apps/web/content/docs/api/move.mdx:12`, `:22`) do not hold where the copy
  refuses an existing destination (Box, Dropbox, Supabase, OneDrive, Appwrite,
  PocketBase, SFTP) or the delete a missing key (GCS, Firebase, Appwrite). Google Drive,
  given two copies in flight or a clearing that fails, keeps two files under one key,
  and every later read is a Conflict.
- Cache: a read in flight across a write fills a stale record (`cache/index.ts:317`); a
  write that lands and throws does not invalidate (`:405`); a store that answers slowly
  can hand out a url past its signature (`:330`).
- Versioning: a failed write leaves a version equal to the live bytes
  (`versioning/index.ts:372`), which the next `restore(key)` picks; a move that keeps an
  old `lastModified` makes its later snapshot the first to be pruned (`:225`);
  overlapping overwrites of one key lose bytes (`:371`). Version ids are called
  content-unique (`:92-97`) and their order chronological (`:223-224`), which they are
  only across ticks of `lastModified`. Within one tick the ETag's slug decides: prune can
  delete the snapshot just taken and keep an older one, and `restore(key)` can bring back
  another version of that tick. Where there is no ETag (FTP, SFTP) overwrites of one tick
  share their id, and the second snapshot replaces the first.
- Sync: an abort during the uploads lets the prune run, whose deletes carry no signal
  (`internal/sync.ts:410`); it deletes keys that the source gained after its walk
  (`:205`); a throwing `onProgress` ends the call (`:389`), and in a transfer counts the
  key as failed. Transfer with `overwrite: false` asks and then downloads and uploads:
  what others write in between is replaced.
- Failover: a write that timed out at a backend may land there after a later one
  (`failover/index.ts:284`), which the reads see once that backend is back.
- Tiering: when a held page is asked for again and, entries having been inserted ahead,
  comes back with nothing beyond `skip` and a continuation, `nextSlot` drops the `skip`
  (`tiering/index.ts:371`) and keys are listed again, against its comment (`:298-307`);
  `ListedOnce` is stated for tiers that gain nothing. Overlapping uploads of one key
  that are routed to different tiers delete each other's copy, and `tier()` deletes what
  an overlapping upload wrote; a read that overlaps a change of tiers can miss an
  existing key; a failed call leaves two copies until the next write; a move drops only
  the destination's stale copy; a merged page may hold twice `limit`. The delete that
  "is a no-op" on a missing key (`:560`) rejects on GCS, Firebase and Appwrite.
- Listing: `limit: 0` answers nothing and no cursor, as if it were the last page; a
  prefix that gains a key beyond the cursor is listed again. Walks of fs, FTP and SFTP
  race with removed directories. Deleting while walking passes over every other page
  where the cursor is a position (Box, UploadThing, Bunny, PocketBase); Appwrite refuses
  a cursor whose file is gone. Box and Appwrite stop early if `limit` exceeds what the
  provider serves; Netlify's `limit` caps the whole walk. Box, OneDrive and SharePoint
  list the root's children alone, so a client's `prefix` lists empty; Bunny lists one
  folder; Dropbox reads a folded prefix as a folder's name.
- Files: items of `upload([...])` are retried with the constructor's `retries`, and a
  plugin's re-routed calls inside a bulk call are retried and fire `onRetry`, against
  `src/apps/web/content/docs/bulk.mdx:62`. A timed-out buffered upload reports 100 %
  when its abandoned request lands. A RegExp with the flag `g` or `y` makes `search`
  skip matches (`index.ts:1170`). A key of slashes alone is stored at the prefix itself
  and listed under an empty key; a foreign object `P//x` is listed as `/x`, which
  addresses another object.
- Errors: FTP reads 450 and 550 as NotFound, and Dropbox restricted content, so that
  `exists()` says false and versioning saves nothing. Drive's rate limits that come as
  403 and Box's and Azure's locks are not retried; malformed requests are, and Convex's
  and SFTP's "already there". Tiering's `tier()` makes its clients without `readonly`
  (`tiering/index.ts:676`).
- Ids: only `delete()` drops a file's id from Box's cache, and nothing a folder's,
  against `box/index.ts:501`. After another instance has deleted and created a key,
  reads through Drive and Box say NotFound, `delete()` resolves though the object
  stays, and Box's uploads fail. Two overlapping first uploads to Drive leave two files.
  Copies onto an existing key are refused by Box and PocketBase.
- File system: after a death between two steps the sidecar is not of the bytes, and a
  cut-off move cannot be repaired by calling again. Temporary files are listed
  (`fs/index.ts:293`), and two uploads of a key within one millisecond share one
  (`:759`). `exists()` and `head()` succeed for directories. `delete` does not throw
  NotFound, against `src/apps/web/content/docs/troubleshooting.mdx:43`.
- Downloads: the lazy body of `head()` of a deleted object is empty on R2 and the error
  page on a public Vercel Blob. Most streams report the size of a stat made in another
  request; Supabase's is 0 without metadata. A lazy body whose read failed once rejects
  ever after.
- Uploads: GCS and Firebase, Convex, streams to FTP, SFTP and Vercel, and drives under
  `publicByDefault` may reject although the bytes are stored; a retry then overwrites
  what others stored in between (GCS, Firebase), or leaves an orphan (Convex). An ETag
  or size that is looked up afterwards may be another writer's.
- Settings: the catalog asks for too little (Akamai, IBM and Backblaze need a region,
  Oracle a namespace, Bunny a region, PocketBase a collection, SharePoint a site) and
  for too much. The environment wins over explicit options on Azure, Firebase and
  PocketBase. Neon and Netlify read half a pair as none; most presets join halves of a
  key from two sources. Some flags of the command line are dropped
  (`--application-key`, `--session-token` of the presets, `--public-base-url` of
  Supabase). An empty `endpoint` makes a preset talk to Amazon; a variable set to ""
  hides its alias. Firebase shares the first instance's app.
- URLs: Appwrite drops `responseContentDisposition` silently, against
  `internal/core.ts:58`. `signedUploadUrl` of Cloudinary, Convex, memory, fs and
  UploadThing does not fail closed on `maxSize`, against `index.ts:575`. Where
  `expiresIn` is ignored the policy's cap does not hold. PocketBase's public URLs encode
  the slashes of a key, and those of keys with segments `.` or `..` lead to other keys.
  An Azure signature of seven days outlives its delegation key. Dropbox refuses more
  than four hours for public links too. `minSize` without `maxSize` is ignored.
- Copies: `src/apps/web/content/docs/api/copy.mdx:14`, `:18` promise more than the
  adapters without a server-side copy keep: FTP, SFTP, Bun, Bunny, Appwrite and
  UploadThing drop content type or metadata; UploadThing, Netlify, FTP and SFTP buffer
  the object.
- Bulk delete: with `stopOnError` an invalid key anywhere keeps every other from being
  deleted (`index.ts:2321`); two spellings of one path are both reported under the
  first; a timeout rejects the whole native batch.
- Soft-delete: a `delete()` that timed out after its copy may delete what a `restore()`
  has brought back (`soft-delete/index.ts:245`); `restore` overwrites a live object;
  `purge()` of everything resolves even if objects remain (`:227`).
- Dedup: a sweep between the check for a blob (`dedup/index.ts:228`) and the pointer's
  write leaves a pointer to nothing.
- Command line: `exists` of several keys exits with 1 when a key is missing, also if
  another failed hard, which the comment in `cli/commands.ts:355` says has its own code.
  A `download` with nowhere to go opens the object before it refuses. A dry run accepts
  an upload without a source, a download without a place and `list --all --delimiter`,
  which are refused for real. Under `--out-dir`, two keys of one path (`a//b` and `a/b`)
  are both reported and one file is kept, and a failed local write ends the command
  without a word on the files already there. A download of many keys opens every stream
  before it reads one: a client that keeps fewer connections than there are keys waits
  for ever.
- Agents' tools: `downloadFile` compares its limit with `head()` alone, so an object that
  grew is handed over whole. An override whose `needsApproval` is there but undefined
  takes the question away. `needsApproval` of the Responses toolbox is true for a write
  tool that `readOnly` removed.
- Plugins: the order of compression and encryption must not change once files are there,
  and neither can be installed twice: both instances read one marker.
- Zip: the directory's own size has a 32 bit field that is not checked
  (`zip/index.ts:434-440`); `unzip` never reads it. An `unzip` that fails leaves the
  entries before uploaded.

## 7. Plan

Done, in order: `ResumableUpload` with its abstract specification, `FilesMove`,
`CachePlugin`, `Versioning`, `BulkPool` and `Sync` with transfer, `Failover`,
`OffsetUpload`, `TieredList` and `Tiering`, `WalkPaginate`, the parts drivers and the
adapters' moves, `PluginStack`, `ZipArchive`, `DeleteMany`, the proofs of every safety
property of the runs, and then, adapter by adapter, `AdapterLists`, `FilesClient`,
`Uploads`, `ProviderErrors`, `FileIds`, `FsSidecars`, `Downloads`, `Catalog` with
`Settings`, `Urls`, and `CommandLine` with `AgentTools`; then `OffsetUpload` as a
refinement of `UploadPromise`, and theorems about seven of the pure modules.

Left:

1. Theorems about what else stands on a loop: the batches of `DeleteMany` for any limit,
   `listAll()` beside deletes, the calls of `FilesClient` for many keys.
2. Soft-delete and dedup with calls that overlap, time out and land late
   (`soft-delete/index.ts:245`, `dedup/index.ts:228`), as state machines beside
   `Versioning`.
3. The multi-key operations of failover, and a listing that fails over.
4. Late requests and overlapping callers in `Tiering`.
5. The refresh of Dropbox's and OneDrive's tokens by calls that overlap, and the
   connections of FTP and SFTP.

## 8. Running

In this directory, with the TLA+ tools, the community modules and TLAPS 1.4.5:

```
tlc -workers 2 -config ResumableUpload.cfg MCResumableUpload
tlc -workers 2 -config OffsetUpload.cfg OffsetUpload
tlc -workers 2 -config Sync.cfg MCSync
tlapm SyncProofs.tla
```

The runs that expect a violation use `ResumableUpload` itself, `MCVersioning` and
`MCFailover`; `PROJECT.json` names the module of each. A run of TLC takes from a second
to about two minutes, and so does a proof module. TLAPS uses Z3, Zenon and, for the
temporal steps, LS4.
