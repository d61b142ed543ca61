------------------------------ MODULE CommandLine ------------------------------
(***************************************************************************)
(* The command line: what each command refuses, and when; which operations *)
(* of Files it makes and which of these a dry run leaves out; the exit     *)
(* code for what was answered; and local directories as the place that     *)
(* many objects come from or go to.                                        *)
(*                                                                         *)
(* The operators are pure.  The assumptions look at every command with     *)
(* every choice of the flags that decide anything, at every list of up to  *)
(* three answers, and at every pair of short keys.                         *)
(***************************************************************************)
EXTENDS Integers, Sequences, FiniteSets
LOCAL INSTANCE SequencesExt
LOCAL INSTANCE FiniteSetsExt
LOCAL INSTANCE Functions

(***************************************************************************)
(* Exit codes.                                                             *)
(***************************************************************************)

FailureCodes == {"NotFound", "Unauthorized", "Conflict", "ReadOnly", "Provider"}

ExitCode(code) ==
    CASE code = "NotFound" -> 1
      [] code = "Unauthorized" -> 3
      [] code = "Conflict" -> 4
      [] OTHER -> 2

\* commander leaves with 1 when the flags do not fit together or one is wanting.
UsageExit == 1

(***************************************************************************)
(* The steps of a command: checks, and calls of Files.                     *)
(***************************************************************************)

\* A flag's name stands for the flag, a name with "bad" for one whose value is none.
UploadFlags == {"key", "file", "stdin", "dir", "badMetadata"}
DownloadFlags == {"out", "stdout", "outDir", "range", "badRange"}
ListFlags == {"all", "delimiter"}
SignUploadFlags == {"expiresIn", "badLife"}
TransferFlags == {"to", "badTo", "unknownTo"}
SyncFlags == TransferFlags \cup {"prune"}
FlagsOf(cmd) ==
    CASE cmd = "upload" -> UploadFlags
      [] cmd = "download" -> DownloadFlags
      [] cmd = "list" -> ListFlags
      [] cmd = "sign-upload" -> SignUploadFlags
      [] cmd = "transfer" -> TransferFlags
      [] cmd = "sync" -> SyncFlags
      [] OTHER -> {}
TakesKeys == {"download", "head", "exists", "delete"}
Commands ==
    TakesKeys \cup {"upload", "copy", "move", "capabilities", "list", "search", "url",
                    "sign-upload", "transfer", "sync"}
GlobalFlags == {"provider", "badNumber", "badConfig"}

\* keys: how many are given, where many may be.
Invocations ==
    UNION {{[cmd |-> cmd, flags |-> f, keys |-> n, dry |-> dry] :
                f \in SUBSET (FlagsOf(cmd) \cup GlobalFlags),
                n \in IF cmd \in TakesKeys THEN 1 .. 2 ELSE {1}, dry \in BOOLEAN} :
           cmd \in Commands}

Refuse(fails, exit) == [fails |-> fails, exit |-> exit, calls |-> {}]
Perform(calls) == [fails |-> FALSE, exit |-> 0, calls |-> calls]
CallsOf(cmd) ==
    CASE cmd = "capabilities" -> {}
      [] cmd = "transfer" -> {"list", "exists", "download", "upload"}
      [] OTHER -> {cmd}

\* What commander and its parser of numbers reject, and the options that all share.
Parsed(in) ==
    LET chosen(options) == Cardinality(in.flags \cap options)
        wants == CASE in.cmd = "sign-upload" -> {"expiresIn"}
                   [] in.cmd \in {"transfer", "sync"} -> {"to"}
                   [] OTHER -> {}
    IN  <<Refuse("badNumber" \in in.flags, ExitCode("Provider")),
          Refuse(~(wants \subseteq in.flags), UsageExit),
          Refuse(in.cmd = "upload" /\ chosen({"file", "stdin", "dir"}) > 1, UsageExit),
          Refuse(in.cmd = "download" /\ chosen({"out", "stdout", "outDir"}) > 1, UsageExit),
          Refuse("badConfig" \in in.flags, ExitCode("Provider"))>>

Rejects(fails) == Refuse(fails, ExitCode("Provider"))
Many(in) == in.keys > 1 \/ "outDir" \in in.flags

\* What a command checks before it asks whether this is a dry run.
Vetted(in) ==
    CASE in.cmd = "upload" ->
             <<Rejects(("dir" \in in.flags) <=> ("key" \in in.flags))>>
      [] in.cmd = "download" -> <<Rejects("badRange" \in in.flags)>>
      [] in.cmd = "sign-upload" -> <<Rejects("badLife" \in in.flags)>>
      [] in.cmd \in {"transfer", "sync"} -> <<Rejects("badTo" \in in.flags)>>
      [] OTHER -> <<>>

Load(in) == Rejects("provider" \notin in.flags)
LoadTo(in) == Rejects("unknownTo" \in in.flags)

\* A dry run's echo names the provider, and what else it shows is parsed for it.
Echoed(in) ==
    <<Rejects(in.cmd = "upload" /\ "dir" \notin in.flags /\ "badMetadata" \in in.flags),
      Rejects(in.cmd = "transfer" /\ "unknownTo" \in in.flags),
      Load(in)>>

RunUpload(in) ==
    LET metadata == Rejects("badMetadata" \in in.flags)
        body == Rejects("dir" \notin in.flags /\ in.flags \cap {"file", "stdin"} = {})
    IN  IF "dir" \in in.flags
        THEN <<metadata, Load(in), Perform({"upload"})>>
        ELSE <<Load(in), body, metadata, Perform({"upload"})>>

\* One body is asked for before it is known where it should go.
RunDownload(in) ==
    IF Many(in)
    THEN <<Rejects(in.flags \cap {"out", "stdout"} # {}), Rejects("range" \in in.flags),
           Rejects("outDir" \notin in.flags), Load(in), Perform({"download"})>>
    ELSE <<Load(in), Perform({"download"}), Rejects(in.flags \cap {"out", "stdout"} = {})>>

RunList(in) ==
    <<Rejects({"all", "delimiter"} \subseteq in.flags), Load(in), Perform({"list"})>>

RunTransfer(in) == <<Load(in), LoadTo(in), Perform(CallsOf("transfer"))>>

\* A dry sync lists both sides; a real one uploads, and deletes if it is to prune.
RunSync(in) ==
    <<Load(in), LoadTo(in),
      Perform({"list"}
              \cup (IF in.dry THEN {} ELSE {"download", "upload"})
              \cup (IF ~in.dry /\ "prune" \in in.flags THEN {"delete"} ELSE {}))>>

OneOperation(in) == <<Load(in), Perform(CallsOf(in.cmd))>>

Performed(in) ==
    CASE in.cmd = "upload" -> RunUpload(in)
      [] in.cmd = "download" -> RunDownload(in)
      [] in.cmd = "list" -> RunList(in)
      [] in.cmd = "transfer" -> RunTransfer(in)
      [] in.cmd = "sync" -> RunSync(in)
      [] OTHER -> OneOperation(in)

StepsOf(in) ==
    Parsed(in) \o Vetted(in)
    \o (IF in.dry /\ in.cmd \notin {"sync", "capabilities"} THEN Echoed(in) ELSE Performed(in))

\* The steps up to the first that fails; an operation's own failure is ToldOf below.
Invoke(in) ==
    LET steps == StepsOf(in)
        failing == {i \in DOMAIN steps : steps[i].fails}
        last == IF failing = {} THEN Len(steps) ELSE Min(failing)
    IN  [exit |-> IF failing = {} THEN 0 ELSE steps[last].exit,
         calls |-> UNION {steps[i].calls : i \in 1 .. last}]

(***************************************************************************)
(* What the exit code tells of the answers.                                *)
(***************************************************************************)

\* An answer for a key: done, a failure, or none, where stopOnError left it untried, which
\* it does only after a failure.  exists() answers NotFound with "missing".
IsFailure(cmd, a) == a \in FailureCodes /\ ~(cmd = "exists" /\ a = "NotFound")
AnswerLists(cmd) ==
    {s \in UNION {[1 .. n -> {"done", "untried"} \cup FailureCodes] : n \in 1 .. 3} :
        (\E i \in DOMAIN s : s[i] = "untried") => \E i \in DOMAIN s : IsFailure(cmd, s[i])}

FirstFailure(cmd, answers) == SelectSeq(answers, LAMBDA a : IsFailure(cmd, a))

\* Where one key was given, a failure is thrown; where many were, the first is picked out.
ToldOfOne(cmd, a) ==
    IF cmd = "exists" /\ a = "NotFound" THEN 1 ELSE IF a = "done" THEN 0 ELSE ExitCode(a)
ToldOf(cmd, answers) ==
    LET failures == FirstFailure(cmd, answers)
        first == IF failures = <<>> THEN 0 ELSE ExitCode(Head(failures))
    IN  IF cmd = "exists" /\ \E i \in DOMAIN answers : answers[i] = "NotFound"
        THEN 1 ELSE first

(***************************************************************************)
(* Many objects and a local directory.                                     *)
(***************************************************************************)

\* A key is a list of segments.  Outside: a path that leaves the directory.
Segments == {"", ".", "..", "a", "b"}
ObjectKeys == UNION {[1 .. n -> Segments] : n \in 1 .. 3} \ {<<"">>}
Outside == <<"outside">>

\* path.resolve(dir, key), below dir.
Resolved(key) ==
    LET step(at, segment) ==
            CASE at = Outside \/ segment \in {"", "."} -> at
              [] segment = ".." -> IF at = <<>> THEN Outside ELSE Front(at)
              [] OTHER -> Append(at, segment)
    IN  IF Head(key) = "" THEN Outside ELSE FoldLeft(step, <<>>, key)

Above(at) == {SubSeq(at, 1, n) : n \in 0 .. Len(at) - 1}
EmptyDir == [files |-> <<>>, dirs |-> {<<>>}, ok |-> TRUE]

\* mkdir of the parents, which fails on a file, and a write, which fails on a directory.
\* The first failure ends the command; it reports no file then.
WriteBodyToDir(s, i, key) ==
    LET at == Resolved(key)
        made == s.dirs \cup Above(at)
    IN  CASE ~s.ok -> s
          [] at = Outside \/ Above(at) \cap DOMAIN s.files # {} -> [s EXCEPT !.ok = FALSE]
          [] OTHER ->
                IF at \in made
                THEN [s EXCEPT !.dirs = made, !.ok = FALSE]
                ELSE [files |-> [p \in DOMAIN s.files \cup {at} |->
                                    IF p = at THEN i ELSE s.files[p]],
                      dirs |-> made, ok |-> TRUE]
DownloadToDir(keys) ==
    FoldLeft(LAMBDA s, i : WriteBodyToDir(s, i, keys[i]), EmptyDir, [i \in DOMAIN keys |-> i])

\* The keys that upload --dir gives what it finds.
WalkDir(s) == DOMAIN s.files

(***************************************************************************)
(* The streams of a download of many keys are all opened before the first  *)
(* of them is read; a transfer's workers read theirs before they go on.  A *)
(* client that keeps a pool of connections opens no more streams than it   *)
(* has, until one is read.                                                 *)
(***************************************************************************)

StreamSteps(how, workers, pool, s) ==
    LET busy == s.asked + IF how = "transfer" THEN s.open ELSE 0
        begin == {[s EXCEPT !.left = @ - 1, !.asked = @ + 1] :
                     x \in {y \in {0} : s.left > 0 /\ busy < workers}}
        answer == {[s EXCEPT !.asked = @ - 1, !.open = @ + 1] :
                     x \in {y \in {0} : s.asked > 0 /\ s.open < pool}}
        read == {[s EXCEPT !.open = @ - 1, !.saved = @ + 1] :
                     x \in {y \in {0} : /\ s.open > 0
                                       /\ how = "download" => s.left = 0 /\ s.asked = 0}}
    IN  begin \cup answer \cup read

Streaming(how, n, workers, pool) ==
    FoldLeft(LAMBDA seen, i : seen \cup UNION {StreamSteps(how, workers, pool, s) : s \in seen},
             {[left |-> n, asked |-> 0, open |-> 0, saved |-> 0]}, [i \in 1 .. 3 * n |-> i])

(***************************************************************************)
(* What a caller may rely on.                                              *)
(***************************************************************************)

\* A dry run changes nothing, and only that of sync contacts a provider: it lists.
ASSUME DryRunsSpare ==
    \A in \in Invocations : in.dry =>
        Invoke(in).calls \subseteq IF in.cmd = "sync" THEN {"list"} ELSE {}

\* What a dry run refuses is refused for real, with the same exit.  The converse fails
\* for what a command looks at only later: where a body comes from or goes to, a range of
\* many keys, the metadata of a directory, and folders of a whole tree.
ASSUME DryRunsForetell ==
    \A in \in Invocations : in.dry =>
        LET dry == Invoke(in).exit
            real == Invoke([in EXCEPT !.dry = FALSE]).exit
        IN  /\ dry # 0 => real = dry
            /\ (dry = 0 /\ real # 0) <=>
                  /\ dry = 0
                  /\ \/ /\ in.cmd = "upload"
                        /\ IF "dir" \in in.flags THEN "badMetadata" \in in.flags
                           ELSE in.flags \cap {"file", "stdin"} = {}
                     \/ /\ in.cmd = "download"
                        /\ IF in.keys = 1 THEN \/ in.flags \cap {"out", "stdout", "outDir"} = {}
                                               \/ {"outDir", "range"} \subseteq in.flags
                           ELSE "outDir" \notin in.flags \/ "range" \in in.flags
                     \/ in.cmd = "list" /\ {"all", "delimiter"} \subseteq in.flags

\* What runs has named a provider and has no flag of a bad value.  A command that is
\* refused has not touched a provider, but for the download of one key that has nowhere
\* to go, which has opened the object's body.
ASSUME RefusedUntouched ==
    \A in \in Invocations : ~in.dry =>
        /\ Invoke(in).exit = 0 =>
              /\ "provider" \in in.flags
              /\ in.flags \cap {"badNumber", "badConfig", "badMetadata", "badRange", "badLife",
                               "badTo", "unknownTo"} = {}
        /\ (Invoke(in).exit # 0 /\ Invoke(in).calls # {}) <=>
              /\ in.cmd = "download" /\ in.keys = 1
              /\ in.flags \in {{"provider"}, {"provider", "range"}}

\* Exit 0 says that every key was done, under stopOnError too, and one key given alone
\* exits as a list of one.  The code is that of the first failure, but for exists: a
\* missing key hides a failure of another, which its comment says has its own code.
ASSUME ExitsTell ==
    \A cmd \in {"upload", "download", "head", "exists", "delete", "transfer", "sync"} :
        /\ \A a \in {"done"} \cup FailureCodes : ToldOf(cmd, <<a>>) = ToldOfOne(cmd, a)
        /\ \A answers \in AnswerLists(cmd) :
              LET exit == ToldOf(cmd, answers)
                  failures == FirstFailure(cmd, answers)
              IN  /\ (exit = 0) <=> \A i \in DOMAIN answers : answers[i] = "done"
                  /\ failures # <<>> =>
                        ((exit # ExitCode(Head(failures))) <=>
                            /\ cmd = "exists"
                            /\ \E i \in DOMAIN answers : answers[i] = "NotFound")

\* Two objects arrive as two files if neither key leaves the directory or names it, and
\* neither's path is the other's or leads through it.  If the paths are one, the command
\* reports both and keeps the second; in every other case it fails, and says nothing of
\* what it has written.
ASSUME KeysBecomeFiles ==
    \A k, l \in ObjectKeys : k # l =>
        LET s == DownloadToDir(<<k, l>>)
            at == <<Resolved(k), Resolved(l)>>
            inside == Outside \notin {at[1], at[2]} /\ <<>> \notin {at[1], at[2]}
            crossing == at[1] \in Above(at[2]) \/ at[2] \in Above(at[1])
            leaves(key) ==
                \/ Head(key) = ""
                \/ \E n \in DOMAIN key : Cardinality({i \in 1 .. n : key[i] = ".."})
                                         > Cardinality({i \in 1 .. n : key[i] \in {"a", "b"}})
        IN  /\ s.ok <=> inside /\ ~crossing
            /\ \A key \in {k, l} : leaves(key) => ~s.ok
            /\ s.ok /\ at[1] # at[2] => s.files[at[1]] = 1 /\ s.files[at[2]] = 2
            /\ s.ok /\ at[1] = at[2] => Range(s.files) = {2}

\* Uploading the directory again gives the objects their keys back if these have neither
\* empty nor relative segments; any other key comes back as a different one.
ASSUME DirectoriesReturn ==
    \A k \in ObjectKeys :
        LET s == DownloadToDir(<<k>>)
        IN  s.ok => (k \in WalkDir(s) <=> Range(k) \subseteq {"a", "b"})

\* A transfer holds one stream open for each worker, a download of many keys one for each
\* key.  A transfer ends whatever the pool of connections; a download of many keys waits for
\* ever (or for a timeout) once they outnumber the connections, however few its workers.
ASSUME StreamsHeldOpen ==
    \A how \in {"download", "transfer"}, n \in 1 .. 4, workers \in 1 .. 3, pool \in 1 .. 3 :
        LET reached == Streaming(how, n, workers, pool)
            many == IF how = "download" \/ n <= workers THEN n ELSE workers
        IN  /\ (\A s \in reached : StreamSteps(how, workers, pool, s) = {} => s.saved = n)
                  <=> how = "transfer" \/ n <= pool
            /\ Max({s.open : s \in reached}) = IF many <= pool THEN many ELSE pool

=============================================================================
