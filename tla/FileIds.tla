------------------------------- MODULE FileIds -------------------------------
(***************************************************************************)
(* The adapters whose providers know files by ids: Google Drive, Box and   *)
(* PocketBase.  Each finds the file of a key by a query first, and the     *)
(* first two keep what they found in a cache of their own, which is not    *)
(* told when another instance of the adapter deletes a file.               *)
(*                                                                         *)
(* The operators are pure: a call maps a state to a state and an answer.   *)
(* The assumptions look at all states that a few calls of one or two       *)
(* instances reach.                                                        *)
(***************************************************************************)
EXTENDS Integers, Sequences, FiniteSets
LOCAL INSTANCE SequencesExt
LOCAL INSTANCE Functions
LOCAL INSTANCE FiniteSetsExt

FileKeys == {"k", "l"}
Instances == {1, 2}
Nothing == 0
Several == -1

\* An adapter: whether it keeps the ids it found; whether upload() looks the key up
\* afresh or trusts the cache; whether the provider refuses a second file of one key;
\* whether copy() removes the file it replaces; whether keys lie in a folder that is
\* itself known by an id, made when it is first needed, and cached.
Drive == [caches |-> TRUE, fresh |-> TRUE, unique |-> FALSE, clears |-> TRUE, folders |-> FALSE]
Box == [caches |-> TRUE, fresh |-> FALSE, unique |-> TRUE, clears |-> FALSE, folders |-> TRUE]
Records == [caches |-> FALSE, fresh |-> TRUE, unique |-> TRUE, clears |-> FALSE, folders |-> FALSE]
IdAdapters == {Drive, Box, Records}

\* files: what lies under each id; folder: the id of the folder that there is; next: a
\* fresh id; cache and root: the ids that the instances keep of files and the folder.
FilesAt(a) ==
    LET folder == IF a.folders THEN Nothing ELSE 1
    IN  [files |-> <<>>, folder |-> folder, next |-> 2,
         cache |-> [i \in Instances |-> [k \in FileKeys |-> Nothing]],
         root |-> [i \in Instances |-> folder]]

Alive(s) == DOMAIN s.files
Holders(s, k) == {id \in Alive(s) : s.files[id].key = k}
Ends(s, code) == [s |-> s, code |-> code, data |-> Nothing]
Keeps(a, s, i, k, id) == IF a.caches /\ id > 0 THEN [s EXCEPT !.cache[i][k] = id] ELSE s

\* findChildByName(), lookupFileId(), getFirstListItem(): the file of a key, as a query
\* by an instance finds it.  A folder that is gone has no children.
Folder(s, i) == IF s.root[i] # Nothing THEN s.root[i] ELSE s.folder
Lookup(a, s, i, k) ==
    LET found == IF Folder(s, i) = s.folder THEN Holders(s, k) ELSE {}
    IN  CASE found = {} -> Nothing
          [] Cardinality(found) > 1 -> Several
          [] OTHER -> CHOOSE id \in found : TRUE

\* resolveFileId()
Resolve(a, s, i, k) == IF s.cache[i][k] # Nothing THEN s.cache[i][k] ELSE Lookup(a, s, i, k)
Resolved(a, s, i, k) ==
    LET queried == s.cache[i][k] = Nothing /\ s.folder # Nothing
        t == IF a.folders /\ queried THEN [s EXCEPT !.root[i] = Folder(s, i)] ELSE s
    IN  Keeps(a, t, i, k, Resolve(a, s, i, k))

\* head(), download(), url() and exists(), whose "false" is the NotFound here.
ReadById(a, s, i, k) ==
    LET id == Resolve(a, s, i, k)
        t == Resolved(a, s, i, k)
    IN  CASE id = Several -> Ends(t, "Conflict")
          [] id \in Alive(s) -> [s |-> t, code |-> "ok", data |-> s.files[id].data]
          [] OTHER -> Ends(t, "NotFound")

\* resolveFolderId() with create
WithFolder(a, s, i) ==
    IF ~a.folders THEN s
    ELSE IF Folder(s, i) # Nothing THEN [s EXCEPT !.root[i] = Folder(s, i)]
    ELSE [s EXCEPT !.folder = s.next, !.root[i] = s.next, !.next = @ + 1]

\* A new file: files.create, uploadFile, records.create.
Create(a, s, i, k, d) ==
    CASE s.root[i] # s.folder -> Ends(s, "NotFound")
      [] a.unique /\ Holders(s, k) # {} -> Ends(s, "Conflict")
      [] OTHER -> Ends(Keeps(a, [s EXCEPT !.files = @ @@ (s.next :> [key |-> k, data |-> d]),
                                          !.next = @ + 1], i, k, s.next), "ok")

\* upload(): the query, and the write to what it found.
Look(a, s, i, k) ==
    LET t == WithFolder(a, s, i)
        id == IF a.fresh THEN Lookup(a, t, i, k) ELSE Resolve(a, t, i, k)
    IN  [s |-> Keeps(a, t, i, k, id), id |-> id]
WriteById(a, s, i, k, d, id) ==
    CASE id = Several -> Ends(s, "Conflict")
      [] id = Nothing -> Create(a, s, i, k, d)
      [] id \in Alive(s) -> Ends(Keeps(a, [s EXCEPT !.files[id].data = d], i, k, id), "ok")
      [] OTHER -> Ends(s, "NotFound")
Upload(a, s, i, k, d) == LET look == Look(a, s, i, k) IN WriteById(a, look.s, i, k, d, look.id)

\* delete(): a missing file is no error, whichever request says so.
DeleteById(a, s, i, k) ==
    LET id == Resolve(a, s, i, k)
        t == Resolved(a, s, i, k)
    IN  CASE id = Several -> Ends(t, "Conflict")
          [] id = Nothing -> Ends(t, "ok")
          [] OTHER -> Ends([t EXCEPT !.files = Restrict(@, Alive(s) \ {id}),
                                     !.cache[i][k] = Nothing], "ok")

\* copy()
Copy(a, s, i, from, to) ==
    LET id == Resolve(a, s, i, from)
        t == Resolved(a, s, i, from)
        clobbered == IF a.clears THEN Lookup(a, t, i, to) ELSE Nothing
        u == WithFolder(a, Keeps(a, t, i, to, clobbered), i)
        created == Create(a, u, i, to, s.files[id].data)
    IN  CASE id = Nothing -> Ends(t, "NotFound")
          [] id = Several \/ clobbered = Several -> Ends(t, "Conflict")
          [] id \notin Alive(s) -> Ends(u, "NotFound")
          [] OTHER -> [created EXCEPT
                          !.s.files = Restrict(@, DOMAIN @ \ {clobbered})]

(***************************************************************************)
(* What calls reach.                                                       *)
(***************************************************************************)

Calls(i) ==
    {[by |-> i, op |-> "upload", key |-> k, data |-> d] : k \in FileKeys, d \in {1, 2}}
    \cup {[by |-> i, op |-> op, key |-> k] : op \in {"read", "delete"}, k \in FileKeys}
    \cup {[by |-> i, op |-> "copy", key |-> k, to |-> l] : k \in FileKeys, l \in FileKeys}

Does(a, s, call) ==
    CASE call.op = "upload" -> Upload(a, s, call.by, call.key, call.data)
      [] call.op = "read" -> ReadById(a, s, call.by, call.key)
      [] call.op = "delete" -> DeleteById(a, s, call.by, call.key)
      [] call.op = "copy" -> Copy(a, s, call.by, call.key, call.to)

\* An id leaves a cache when others push it out, all when a process starts; someone
\* removes Box's folder with everything in it.
Forgotten(s, i) == {[s EXCEPT !.cache[i][k] = Nothing] : k \in FileKeys}
Swept(a, s) == IF a.folders THEN {[s EXCEPT !.files = <<>>, !.folder = Nothing]} ELSE {}

Reached(a, who, n) ==
    FoldLeft(LAMBDA seen, m :
                seen \cup UNION {{Does(a, s, call).s : call \in UNION {Calls(i) : i \in who}}
                                    \cup UNION {Forgotten(s, i) : i \in who}
                                    \cup (IF who = Instances THEN Swept(a, s) ELSE {}) :
                                 s \in seen},
             {FilesAt(a)}, [m \in 1 .. n |-> m])

\* What there is: what is stored under a key, or Nothing.
Stored(s, k) == IF Holders(s, k) = {} THEN Nothing
                ELSE s.files[CHOOSE id \in Holders(s, k) : TRUE].data
\* What an instance knows is out of date.
StaleFile(s, i, k) == s.cache[i][k] \notin Alive(s) \cup {Nothing}
StaleFolder(s, i) == s.root[i] \notin {s.folder, Nothing}
Stale(s, i, k) == StaleFile(s, i, k) \/ StaleFolder(s, i)

\* A call does what it says, as on a plain map from keys to contents.
Plain(a, s, call) ==
    LET done == Does(a, s, call)
        Others(k) == \A l \in FileKeys \ {k} : Stored(done.s, l) = Stored(s, l)
        k == call.key
    IN  CASE call.op = "upload" ->
               done.code = "ok" /\ Stored(done.s, k) = call.data /\ Others(k)
          [] call.op = "delete" ->
               done.code = "ok" /\ Stored(done.s, k) = Nothing /\ Others(k)
          [] call.op = "read" ->
               /\ \A l \in FileKeys : Stored(done.s, l) = Stored(s, l)
               /\ done.data = Stored(s, k)
               /\ done.code = IF Stored(s, k) = Nothing THEN "NotFound" ELSE "ok"
          [] call.op = "copy" ->
               IF Stored(s, k) = Nothing THEN done.code = "NotFound" /\ done.s.files = s.files
               ELSE IF a.clears \/ Stored(s, call.to) = Nothing
                 THEN done.code = "ok" /\ Stored(done.s, call.to) = Stored(s, k) /\ Others(call.to)
               ELSE done.code = "Conflict" /\ done.s.files = s.files

\* One instance alone is a plain map, whatever its cache forgets; only that copy() onto
\* a key that is taken is refused by Box and PocketBase.  There is one file to a key.
ASSUME AloneAPlainMap ==
    \A a \in IdAdapters : \A s \in Reached(a, {1}, 5) :
        /\ \A k \in FileKeys : Cardinality(Holders(s, k)) <= 1
        /\ \A k \in FileKeys : ~Stale(s, 1, k)
        /\ \A call \in Calls(1) : Plain(a, s, call)

\* Of two instances whose calls do not overlap, each is as good, save on keys whose file
\* the other has deleted behind its cache.  There is still one file to a key, and what is
\* read is current if anything is read.
ASSUME TogetherOftenPlain ==
    \A a \in IdAdapters : \A s \in Reached(a, Instances, 4) :
        /\ \A k \in FileKeys : Cardinality(Holders(s, k)) <= 1
        /\ \A call \in UNION {Calls(i) : i \in Instances} :
              LET keys == {call.key} \cup (IF call.op = "copy" THEN {call.to} ELSE {})
              IN  /\ (\A k \in keys : ~Stale(s, call.by, k)) => Plain(a, s, call)
                  /\ call.op = "read" => Does(a, s, call).data \in {Nothing, Stored(s, call.key)}

\* A stale id: reads answer NotFound and delete() says it is done, though another
\* instance has stored the key again.  delete() drops the id, as does, with Google Drive,
\* an upload; with Box an upload fails, leaves the id where it is, and fails again, and
\* nothing at all drops the id of a folder that was removed.
ASSUME StaleIdsHide ==
    /\ \A a \in IdAdapters : \A s \in Reached(a, Instances, 4) :
       \A i \in Instances, k \in FileKeys : Stale(s, i, k) =>
           LET upload == Upload(a, s, i, k, 1)
               delete == DeleteById(a, s, i, k)
               read == ReadById(a, s, i, k)
           IN  /\ a # Records
               /\ read.code = "NotFound" /\ Stale(read.s, i, k)
               /\ delete.code = "ok" /\ delete.s.files = s.files
               /\ ~StaleFile(delete.s, i, k)
               /\ IF a = Drive
                    THEN upload.code = "ok" /\ ~Stale(upload.s, i, k)
                    ELSE upload.code = "NotFound" /\ upload.s.files = s.files
                            /\ Stale(upload.s, i, k)
               /\ StaleFolder(s, i) => \A call \in Calls(i) : StaleFolder(Does(a, s, call).s, i)
    /\ \A a \in {Drive, Box} : \E s \in Reached(a, Instances, 4) :
           \E i \in Instances, k \in FileKeys : StaleFile(s, i, k) /\ Stored(s, k) # Nothing

\* Two first uploads of one key that overlap: Box and PocketBase refuse one of them, the
\* caller of which sees a Conflict; Google Drive takes both, and holds two files.  Either
\* instance goes on with its own, everyone else is refused until one of them deletes.
ASSUME FirstUploadsRace ==
    \A a \in IdAdapters :
        LET s == WithFolder(a, FilesAt(a), 1)
            looks == Look(a, Look(a, s, 1, "k").s, 2, "k").s
            first == WriteById(a, looks, 1, "k", 1, Nothing)
            both == WriteById(a, first.s, 2, "k", 2, Nothing)
            fresh == [both.s EXCEPT !.cache = FilesAt(a).cache]
        IN  /\ first.code = "ok"
            /\ IF a # Drive
                 THEN both.code = "Conflict" /\ Stored(both.s, "k") = 1
                 ELSE /\ both.code = "ok" /\ Cardinality(Holders(both.s, "k")) = 2
                      /\ \A i \in Instances : ReadById(a, both.s, i, "k").data = i
                      /\ \A call \in Calls(1) : call.key = "k" =>
                            Does(a, fresh, call).code = "Conflict"
                      /\ \A i \in Instances : Upload(a, both.s, i, "k", 1).code = "Conflict"
                      /\ LET mended == DeleteById(a, both.s, 1, "k").s
                         IN  \A i \in Instances : ReadById(a, mended, i, "k").data = 2
=============================================================================
