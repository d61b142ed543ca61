----------------------------- MODULE DeleteMany -----------------------------
(***************************************************************************)
(* delete([...]) without plugins: #deleteMany of index.ts over the ways in *)
(* which an adapter deletes many keys. A key has the path it is stored     *)
(* under; two keys may have one path, and a key may be no key at all.      *)
(***************************************************************************)
EXTENDS Integers, Sequences, SequencesExt

(***************************************************************************)
(* The provider: what it holds, what it refuses to delete, and which of    *)
(* the requests fail as a whole, in vain or after they took effect.        *)
(***************************************************************************)

Outcome(world) == [deleted |-> <<>>, errors |-> <<>>, world |-> world, requests |-> 0]

\* A request for some paths, by the adapter's call of it.
Fails(done) == done.requests + 1 \in done.world.lost
Sent(done, paths) ==
    LET gone == IF Fails(done) /\ ~done.world.landed THEN {}
                ELSE ToSet(paths) \ done.world.refused
    IN  [done EXCEPT !.world.objects = @ \ gone, !.requests = @ + 1]

\* One key in one request.
DeleteOne(done, path) ==
    IF Fails(done) \/ path \in done.world.refused
      THEN [Sent(done, <<path>>) EXCEPT !.errors = Append(@, path)]
    ELSE [Sent(done, <<path>>) EXCEPT !.deleted = Append(@, path)]

(***************************************************************************)
(* deleteMany of the adapters.                                             *)
(***************************************************************************)

\* deleteManyWithFallback(), and the loop over one connection of FTP and SFTP: its
\* outcome does not tell how many workers share the list.
OneByOne(paths, stopOnError, world) ==
    LET After[n \in 0 .. Len(paths)] ==
            IF n = 0 THEN Outcome(world)
            ELSE IF stopOnError /\ After[n - 1].errors # <<>> THEN After[n - 1]
            ELSE DeleteOne(After[n - 1], paths[n])
    IN  After[Len(paths)]

BatchLimit == 2
Batches(paths) ==
    [b \in 1 .. (Len(paths) + BatchLimit - 1) \div BatchLimit |->
        SubSeq(paths, (b - 1) * BatchLimit + 1,
               IF b * BatchLimit < Len(paths) THEN b * BatchLimit ELSE Len(paths))]

\* What a batch answers about each of its paths: S3 in an order of its own, and once.
Answered(batch, world) == [refused |-> SelectSeq(batch, LAMBDA p : p \in world.refused),
                           gone |-> SelectSeq(batch, LAMBDA p : p \notin world.refused)]

\* S3 gathers what was deleted and puts it in order in the end, Azure as it comes.
Batched(paths, inOrder, world) ==
    LET Send(done, batch) ==
            LET answer == Answered(batch, done.world)
                sent == Sent(done, batch)
            IN  IF Fails(done) THEN [sent EXCEPT !.errors = @ \o batch]
                ELSE IF inOrder
                  THEN [sent EXCEPT !.deleted = @ \o answer.gone, !.errors = @ \o answer.refused]
                ELSE [sent EXCEPT !.deleted = Reverse(answer.gone) \o @,
                                  !.errors = @ \o Reverse(SetToSeq(ToSet(answer.refused)))]
        sent == FoldLeft(Send, Outcome(world), Batches(paths))
    IN  IF inOrder THEN sent
        ELSE [sent EXCEPT !.deleted = SelectSeq(paths, LAMBDA p : p \in ToSet(sent.deleted))]

\* Supabase and UploadThing: one request, one answer for all.
Whole(paths, world) ==
    LET sent == Sent(Outcome(world), paths)
    IN  IF Fails(Outcome(world)) \/ ToSet(paths) \cap world.refused # {}
          THEN [sent EXCEPT !.errors = paths]
          ELSE [sent EXCEPT !.deleted = paths]

\* Whoever is asked to stop at the first failure goes one by one.
Adapters == {"fallback", "s3", "azure", "whole"}
NativeDeleteMany(adapter, paths, stopOnError, world) ==
    CASE paths = <<>> -> Outcome(world)
      [] adapter = "fallback" \/ stopOnError -> OneByOne(paths, stopOnError, world)
      [] adapter = "s3" -> Batched(paths, FALSE, world)
      [] adapter = "azure" -> Batched(paths, TRUE, world)
      [] adapter = "whole" -> Whole(paths, world)

(***************************************************************************)
(* #deleteMany: keys to paths and back, errors in the order of the keys.   *)
(***************************************************************************)

Paths(keys) == [i \in DOMAIN keys |-> keys[i].path]
Invalid(keys) == {i \in DOMAIN keys : ~keys[i].valid}

\* keyByPath and indexByPath keep the first.
FirstOf(keys, path) == CHOOSE i \in DOMAIN keys : /\ keys[i].valid /\ keys[i].path = path
                                                  /\ \A j \in 1 .. i - 1 : keys[j].path # path

FilesDeleteMany(adapter, keys, stopOnError, world) ==
    LET asked == SelectSeq(keys, LAMBDA k : k.valid)
        result == NativeDeleteMany(adapter, Paths(asked), stopOnError, world)
        Back(paths) == [i \in DOMAIN paths |-> FirstOf(keys, paths[i])]
        errors == SetToSeq(Invalid(keys)) \o Back(result.errors)
        sorted == SortSeq(errors, <)
        Named(indices) == [i \in DOMAIN indices |-> keys[indices[i]]]
    IN  IF stopOnError /\ Invalid(keys) # {}
          THEN [deleted |-> <<>>, world |-> world,
                errors |-> <<keys[CHOOSE i \in Invalid(keys) : \A j \in Invalid(keys) : i <= j]>>]
        ELSE [deleted |-> Named(Back(result.deleted)), errors |-> Named(sorted),
              world |-> result.world]

(***************************************************************************)
(* Lists of up to three keys, every adapter, and what a provider may do.   *)
(***************************************************************************)

StoredPaths == {"a", "b", "c"}
DeleteKey(path, spelled, valid) == [path |-> path, spelled |-> spelled, valid |-> valid]
PlainKeys == {DeleteKey(p, p, TRUE) : p \in StoredPaths}
AnyKeys == PlainKeys \cup {DeleteKey("a", "/a", TRUE), DeleteKey("", "", FALSE)}
KeyLists == UNION {[1 .. n -> AnyKeys] : n \in 0 .. 3}

Worlds == [objects : {StoredPaths, {"a"}}, refused : SUBSET StoredPaths,
           lost : {{}, {1}, {2}, {1, 2}}, landed : BOOLEAN]
PathsIn(list) == {list[i].path : i \in DOMAIN list}
Apart(keys) == \A i, j \in DOMAIN keys : i # j => keys[i].path # keys[j].path

\* Every key is answered for, and one that is said to be deleted is gone; nothing else
\* is. Where no two keys share a path both lists are the caller's keys in order.
ASSUME EveryKeyIsAnswered ==
    \A adapter \in Adapters, keys \in KeyLists, world \in Worlds :
        LET did == FilesDeleteMany(adapter, keys, FALSE, world)
        IN  /\ PathsIn(did.deleted) \cup PathsIn(did.errors) = PathsIn(keys)
            /\ PathsIn(did.deleted) \cap did.world.objects = {}
            /\ world.objects \ did.world.objects \subseteq PathsIn(keys)
            /\ Apart(keys) =>
                 /\ did.deleted = SelectSeq(keys, LAMBDA k : k \in ToSet(did.deleted))
                 /\ did.errors = SelectSeq(keys, LAMBDA k : k \notin ToSet(did.deleted))

\* Asked to stop, it has done what comes before the one error and nothing after it; if
\* a key is no key it does nothing at all.
ASSUME StopsAtTheFirstError ==
    \A adapter \in Adapters, keys \in KeyLists, world \in Worlds :
        LET did == FilesDeleteMany(adapter, keys, TRUE, world)
            n == Len(did.deleted)
        IN  IF Invalid(keys) # {} THEN did.deleted = <<>> /\ did.world = world
            ELSE /\ Paths(did.deleted) = SubSeq(Paths(keys), 1, n)
                 /\ Len(did.errors) = (IF n < Len(keys) THEN 1 ELSE 0)
                 /\ n < Len(keys) => did.errors[1].path = keys[n + 1].path
                 /\ \A i \in n + 2 .. Len(keys) :
                      /\ keys[i].path \in world.objects
                      /\ keys[i].path \notin {keys[j].path : j \in 1 .. n + 1}
                      => keys[i].path \in did.world.objects

\* Whatever a call left undone, repeating it once the provider is well again finishes it.
ASSUME RepeatingFinishes ==
    \A adapter \in Adapters, keys \in KeyLists, world \in Worlds, stop \in BOOLEAN :
        LET left == FilesDeleteMany(adapter, keys, stop, world).world
            well == [left EXCEPT !.refused = {}, !.lost = {}]
            again == FilesDeleteMany(adapter, keys, stop, well)
        IN  Invalid(keys) = {} => /\ again.errors = <<>>
                                  /\ again.world.objects = world.objects \ PathsIn(keys)
=============================================================================
