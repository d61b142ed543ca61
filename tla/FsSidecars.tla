----------------------------- MODULE FsSidecars -----------------------------
(***************************************************************************)
(* The files of the fs adapter.  An object is a file and a sidecar beside  *)
(* it, which holds the ETag of its bytes, its type and its metadata; each  *)
(* operation changes the two in steps of its own.                          *)
(*                                                                         *)
(* The operators are pure: a step maps a disk and a process to a disk and  *)
(* a process.  The assumptions run processes alone, cut short, and two at  *)
(* a time, on every disk in order.                                         *)
(***************************************************************************)
EXTENDS Integers, Sequences, FiniteSets
LOCAL INSTANCE SequencesExt

FsKeys == {"k", "l"}
Ticks == {1, 2}
Absent == 0

\* body: the bytes of a key's file; card: the bytes whose ETag its sidecar has; temps:
\* the temporary files of uploads, named for a key and the millisecond; partial: what
\* a resumable upload has written so far.
InOrder(disk) == \A k \in FsKeys : disk.card[k] \in {Absent, disk.body[k]}
Disks ==
    {[body |-> [k |-> b, l |-> c], card |-> [k |-> s, l |-> t],
      temps |-> [k \in FsKeys |-> [m \in Ticks |-> Absent]],
      partial |-> [k \in FsKeys |-> IF k = "k" THEN 5 ELSE Absent]] :
        b \in {Absent, 1}, c \in {Absent, 2}, s \in {Absent, 1}, t \in {Absent, 2}}
OrderlyDisks == {disk \in Disks : InOrder(disk)}

\* A process: its operation, how far it is, what it has read of a sidecar, and how it
\* ended.
Process(op, key, to, data, tick) ==
    [op |-> op, key |-> key, to |-> to, data |-> data, tick |-> tick, pc |-> 1,
     card |-> Absent, got |-> Absent, end |-> "none"]

Goes(disk, p) == [disk |-> disk, p |-> [p EXCEPT !.pc = @ + 1]]
Finishes(disk, p) == [disk |-> disk, p |-> [p EXCEPT !.pc = @ + 1, !.end = "ok"]]
Misses(disk, p) == [disk |-> disk, p |-> [p EXCEPT !.end = "NotFound"]]

\* upload(): a temporary file, its rename, the sidecar.  A body that is a stream goes the
\* same way.
UploadStep(disk, p) ==
    LET k == p.key
        temp == disk.temps[k][p.tick]
    IN  CASE p.pc = 1 -> Goes([disk EXCEPT !.temps[k][p.tick] = p.data], p)
          [] p.pc = 2 /\ temp = Absent -> Misses(disk, p)
          [] p.pc = 2 /\ temp # Absent ->
               Goes([disk EXCEPT !.body[k] = temp, !.temps[k][p.tick] = Absent], p)
          [] p.pc = 3 -> Finishes([disk EXCEPT !.card[k] = p.data], p)

\* complete() of a resumable upload: the sidecar first, then the rename.
CompleteStep(disk, p) ==
    LET k == p.key
        partial == disk.partial[k]
    IN  CASE partial = Absent -> Misses(disk, p)
          [] p.pc = 1 -> Goes([disk EXCEPT !.card[k] = partial], p)
          [] p.pc = 2 -> Finishes([disk EXCEPT !.body[k] = partial, !.partial[k] = Absent], p)

\* copy(): the file, then the sidecar, or none if there is none.
CopyStep(disk, p) ==
    CASE p.pc = 1 /\ disk.body[p.key] = Absent -> Misses(disk, p)
      [] p.pc = 1 /\ disk.body[p.key] # Absent ->
           Goes([disk EXCEPT !.body[p.to] = disk.body[p.key]], p)
      [] p.pc = 2 -> Goes(disk, [p EXCEPT !.card = disk.card[p.key]])
      [] p.pc = 3 -> Finishes([disk EXCEPT !.card[p.to] = p.card], p)

\* move(): two renames.
MoveStep(disk, p) ==
    CASE p.pc = 1 /\ disk.body[p.key] = Absent -> Misses(disk, p)
      [] p.pc = 1 /\ disk.body[p.key] # Absent ->
           Goes([disk EXCEPT !.body[p.to] = disk.body[p.key], !.body[p.key] = Absent], p)
      [] p.pc = 2 ->
           Finishes([disk EXCEPT !.card[p.to] = disk.card[p.key], !.card[p.key] = Absent], p)

\* delete(): two removals, neither of which minds a missing file.
DeleteStep(disk, p) ==
    CASE p.pc = 1 -> Goes([disk EXCEPT !.body[p.key] = Absent], p)
      [] p.pc = 2 -> Finishes([disk EXCEPT !.card[p.key] = Absent], p)

\* download(): stat, sidecar, bytes; head() leaves the bytes to a later call.
ReadStep(disk, p) ==
    CASE p.pc \in {1, 3} /\ disk.body[p.key] = Absent -> Misses(disk, p)
      [] p.pc = 1 /\ disk.body[p.key] # Absent -> Goes(disk, p)
      [] p.pc = 2 -> Goes(disk, [p EXCEPT !.card = disk.card[p.key]])
      [] p.pc = 3 /\ disk.body[p.key] # Absent ->
           Finishes(disk, [p EXCEPT !.got = disk.body[p.key]])

FsStep(disk, p) ==
    CASE p.op = "upload" -> UploadStep(disk, p)
      [] p.op = "complete" -> CompleteStep(disk, p)
      [] p.op = "copy" -> CopyStep(disk, p)
      [] p.op = "move" -> MoveStep(disk, p)
      [] p.op = "delete" -> DeleteStep(disk, p)
      [] p.op = "read" -> ReadStep(disk, p)

\* walk() hides sidecars and partial uploads, nothing else.
Shows(disk) == {k \in FsKeys : disk.body[k] # Absent}
ShowsTemps(disk) == \E k \in FsKeys, m \in Ticks : disk.temps[k][m] # Absent

(***************************************************************************)
(* Processes alone, cut short, and together.                               *)
(***************************************************************************)

\* At most n steps of one process; all of them.
After(disk, p, n) ==
    FoldLeft(LAMBDA s, m : IF s.p.end = "none" THEN FsStep(s.disk, s.p) ELSE s,
             [disk |-> disk, p |-> p], [m \in 1 .. n |-> m])
Whole(disk, p) == After(disk, p, 3)

\* Every interleaving of two.
Together(disk, p, q) ==
    {s \in FoldLeft(LAMBDA seen, m :
                seen \cup UNION {UNION {
                    IF s.ps[i].end # "none" THEN {}
                    ELSE LET t == FsStep(s.disk, s.ps[i])
                         IN  {[disk |-> t.disk, ps |-> [s.ps EXCEPT ![i] = t.p]]} :
                    i \in {1, 2}} : s \in seen},
             {[disk |-> disk, ps |-> <<p, q>>]}, [m \in 1 .. 6 |-> m]) :
        \A i \in {1, 2} : s.ps[i].end # "none"}

Changing(data, tick) ==
    {Process("upload", "k", "k", data, tick), Process("complete", "k", "k", 5, tick),
     Process("copy", "l", "k", 2, tick), Process("move", "l", "k", 2, tick),
     Process("copy", "k", "l", 1, tick), Process("move", "k", "l", 1, tick),
     Process("delete", "k", "k", 0, tick)}
Reading == Process("read", "k", "k", 0, 2)

\* Alone, an operation leaves ETags that are those of the bytes beside them and nothing
\* that does not belong there, and does to the bytes what it should; so any sequence of
\* operations does, each of which begins on an orderly disk.
ASSUME AloneOrderly ==
    \A disk \in OrderlyDisks, p \in Changing(3, 1) :
        LET done == Whole(disk, p)
            after == done.disk
        IN  /\ InOrder(after) /\ ~ShowsTemps(after)
            /\ p.op \in {"copy", "move"} =>
                  (done.p.end = "NotFound" <=> disk.body[p.key] = Absent)
            /\ IF done.p.end = "NotFound" THEN after = disk
               ELSE /\ p.op = "delete" => p.key \notin Shows(after)
                    /\ p.op \in {"upload", "complete"} =>
                          after.body[p.key] = p.data /\ after.card[p.key] = p.data
                    /\ p.op \in {"copy", "move"} =>
                          /\ after.body[p.to] = disk.body[p.key]
                          /\ after.card[p.to] = disk.card[p.key]
                          /\ (p.op = "move") <=> p.key \notin Shows(after)

\* Cut short between two steps, which is where a crash or an error of the disk leaves it,
\* an operation can leave a sidecar that is not of the bytes beside it: upload, copy and
\* move the old ETag beside new bytes, which a comparison of ETags takes for no change;
\* complete the new one beside old bytes; move and delete one beside no file.  A crash
\* before its rename leaves the temporary file of an upload, which list() shows as an object.
ASSUME CutShort ==
    LET Left(op, n) == {s \in {After(disk, p, n) : disk \in OrderlyDisks, p \in Changing(3, 1)} :
                           s.p.op = op /\ s.p.end = "none"}
    IN  \A op \in {"upload", "complete", "copy", "move", "delete"}, n \in {1, 2} :
            /\ (\E s \in Left(op, n) : ~InOrder(s.disk)) <=>
                  IF op = "upload" THEN n = 2 ELSE n = 1 \/ op = "copy"
            /\ \A s \in Left(op, n) : ShowsTemps(s.disk) <=> op = "upload" /\ n = 1

\* Called again, the operation does what it would have done, but for move(): it finds no
\* file to rename, rejects with NotFound, and the old ETag stays with the new bytes.
ASSUME CalledAgain ==
    \A disk \in OrderlyDisks, p \in Changing(3, 1), n \in {1, 2} :
        LET cut == After(disk, p, n)
            again == Whole(cut.disk, [p EXCEPT !.tick = 2])
            whole == Whole(disk, p).disk
        IN  cut.p.end = "none" =>
                IF p.op = "move" THEN again.p.end = "NotFound" /\ again.disk = cut.disk
                ELSE again.disk.body = whole.body /\ again.disk.card = whole.card

\* Of two operations on one root that overlap, the ETag of one can stay with the bytes of
\* the other.  Not so of two that take from one key and bring nothing new, nor of a
\* delete() beside the complete() of its key.
ASSUME TwoAtOnce ==
    \A p \in Changing(3, 1), q \in Changing(4, 2) :
        (\A disk \in OrderlyDisks : \A s \in Together(disk, p, q) : InOrder(s.disk))
          <=> \/ {p.op, q.op} \subseteq {"complete", "delete"}
              \/ p.key = q.key /\ {p.op, q.op} \cap {"upload", "complete"} = {}

\* A read beside a write can answer with the ETag of the bytes before or after those it
\* answers with; beside a delete() it answers with both or rejects.
ASSUME ReadBesideWrite ==
    \A p \in Changing(3, 1) :
        (\A disk \in OrderlyDisks : \A s \in Together(disk, p, Reading) :
            s.ps[2].end = "ok" => s.ps[2].card \in {Absent, s.ps[2].got})
          <=> p.op = "delete" \/ p.to = "l"

\* Two uploads of one key both resolve, unless they are of one process and one
\* millisecond: they share a temporary file then, and one of them can find it gone.
ASSUME UploadsAtOnce ==
    \A disk \in OrderlyDisks, tick \in Ticks :
        (\A s \in Together(disk, Process("upload", "k", "k", 3, 1),
                                 Process("upload", "k", "k", 4, tick)) :
            \A i \in {1, 2} : s.ps[i].end = "ok") <=> tick = 2
=============================================================================
