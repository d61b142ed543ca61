------------------------------ MODULE Failover ------------------------------
(***************************************************************************)
(* The failover plugin (failover/index.ts) over one key: each operation    *)
(* tries the primary and then the secondaries, while backends go down,     *)
(* hang and come back, and requests that a client has given up still land. *)
(*                                                                         *)
(* Contents are numbers: 0 is no object, and call n uploads n. Every       *)
(* operation that reads stands behind download, every one that writes      *)
(* behind upload and delete. shouldFailover is the default.                *)
(***************************************************************************)
EXTENDS Integers

CONSTANTS
    Backends,       \* how many: the primary is 1
    ClientOptions,  \* retries and timeout as the constructor may set them
    CallOptions,    \* and as a call may
    MaxRetries,     \* bound: retries set anywhere
    MaxCalls,       \* bound: operations, one after the other
    MaxChanges      \* bound: changes of a backend

Unset == -1

ASSUME ChainAssumption == Backends \in Nat \ {0, 1}
ASSUME OptionsAssumption ==
    /\ ClientOptions \subseteq [retries : 0 .. MaxRetries, timed : BOOLEAN]
    /\ CallOptions \subseteq [retries : 0 .. MaxRetries \cup {Unset}, timed : BOOLEAN]
ASSUME BoundsAssumption == MaxRetries \in Nat /\ MaxCalls \in Nat /\ MaxChanges \in Nat

VARIABLES
    client,     \* the constructor's options
    stored,     \* the content at each backend
    state,      \* of each backend
    changes,
    late,       \* requests still to land though their attempts have ended
    calls,      \* operations begun
    op,         \* the operation under way, or the last one
    pc,         \* "idle", "sent" or "backoff"
    index,      \* the backend it has come to
    attempt,    \* attempts that failed there
    result,
    known,      \* the last acknowledged content, while that is what every read is to find
    reachable   \* backends that have answered requests ever since the operation began

world == <<stored, state, changes, late>>
vars == <<client, world, calls, op, pc, index, attempt, result, known, reachable>>

Chain == 1 .. Backends
Old == MaxCalls + 1
Contents == 0 .. Old
Unknown == -1
States == {"up", "closed", "down", "hung"}  \* closed: it refuses the client
Operations ==
    [kind : {"download", "delete"}, stream : {FALSE}, options : CallOptions]
        \cup [kind : {"upload"}, stream : BOOLEAN, options : CallOptions]
Errors == {"NotFound", "Unauthorized", "Provider", "timedOut", "aborted"}
Results == [status : {"none"} \cup Errors] \cup [status : {"ok"}, content : Contents]

TypeOK ==
    /\ client \in ClientOptions
    /\ stored \in [Chain -> Contents]
    /\ state \in [Chain -> States]
    /\ changes \in 0 .. MaxChanges
    /\ late \in SUBSET [at : Chain, content : Contents]
    /\ calls \in 0 .. MaxCalls
    /\ op \in Operations
    /\ pc \in {"idle", "sent", "backoff"}
    /\ index \in Chain
    /\ attempt \in 0 .. MaxRetries
    /\ result \in Results
    /\ known \in Contents \cup {Unknown}
    /\ reachable \in SUBSET Chain

Answers(b) == state[b] \in {"up", "closed"}

Init ==
    /\ client \in ClientOptions
    /\ stored = [b \in Chain |-> Old]
    /\ state \in [Chain -> States]
    /\ changes = 0
    /\ late = {}
    /\ calls = 0
    /\ op \in {o \in Operations : o.kind = "download"}
    /\ pc = "idle"
    /\ index = 1
    /\ attempt = 0
    /\ result = [status |-> "none"]
    /\ known = Unknown
    /\ reachable = {}

Writes == op.kind # "download"
Content == IF op.kind = "upload" THEN calls ELSE 0

\* Slip: a call's own retries are taken for one attempt more.
RetriesAtOneMore(b) ==
    IF op.stream THEN 0
    ELSE IF op.options.retries # Unset THEN op.options.retries + 1
    ELSE IF b = 1 THEN client.retries ELSE 0

\* Retries of the client that drives backend b: a secondary's has no options of its
\* own, and a stream is read once.
RetriesAt(b) ==
    IF op.stream THEN 0
    ELSE IF op.options.retries # Unset THEN op.options.retries
    ELSE IF b = 1 THEN client.retries ELSE 0

\* Slip: the call's options do not reach the secondaries.
TimedAtPrimary(b) == b = 1 /\ (client.timed \/ op.options.timed)

TimedAt(b) == op.options.timed \/ (b = 1 /\ client.timed)

\* Slip: a missing object is looked for further on.
ShouldFailoverOnMiss(error) == error \in {"Provider", "timedOut", "NotFound"}

\* defaultShouldFailover
ShouldFailover(error) == error \in {"Provider", "timedOut"}

\* The operation settles; its local state goes.
Ends(r) == pc' = "idle" /\ result' = r /\ index' = 1 /\ attempt' = 0 /\ reachable' = {}

\* Slip: only the primary's failures are failed over.
ThrewOnce(error) ==
    IF error = "Provider" /\ attempt < RetriesAt(index)
      THEN pc' = "backoff" /\ UNCHANGED <<index, attempt, result, reachable>>
    ELSE IF index = 1 /\ ~op.stream /\ ShouldFailover(error)
      THEN index' = index + 1 /\ attempt' = 0 /\ UNCHANGED <<pc, result, reachable>>
    ELSE Ends([status |-> error])

\* The attempt is retried, the next backend tried, or the error thrown.
Threw(error) ==
    IF error = "Provider" /\ attempt < RetriesAt(index)
      THEN pc' = "backoff" /\ UNCHANGED <<index, attempt, result, reachable>>
    ELSE IF index < Backends /\ ~op.stream /\ ShouldFailover(error)
      THEN index' = index + 1 /\ attempt' = 0 /\ UNCHANGED <<pc, result, reachable>>
    ELSE Ends([status |-> error])

(***************************************************************************)
(* The caller.                                                             *)
(***************************************************************************)
Call ==
    /\ pc = "idle" /\ calls < MaxCalls
    /\ calls' = calls + 1
    /\ op' \in Operations
    /\ pc' = "sent" /\ index' = 1 /\ attempt' = 0
    /\ result' = [status |-> "none"]
    /\ known' = IF op'.kind = "download" THEN known ELSE Unknown
    /\ reachable' = {b \in Chain : Answers(b)}
    /\ UNCHANGED <<client, world>>

Lands(b, content) == stored' = [stored EXCEPT ![b] = content] /\ UNCHANGED late

\* A request whose attempt ends without an answer took effect, did not, or may still.
LosesTrack ==
    \/ UNCHANGED <<stored, late>>
    \/ Writes /\ Lands(index, Content)
    \/ Writes /\ late = {} /\ late' = {[at |-> index, content |-> Content]} /\ UNCHANGED stored

\* The caller's signal aborts: the attempt or the wait rejects, and that is final.
Abort ==
    /\ pc # "idle"
    /\ Ends([status |-> "aborted"])
    /\ IF pc = "sent" THEN LosesTrack ELSE UNCHANGED <<stored, late>>
    /\ UNCHANGED <<client, state, changes, calls, op, known>>

(***************************************************************************)
(* An attempt at a backend.                                                *)
(***************************************************************************)

\* Nothing has changed its mind since the operation began.
Steady == reachable = {b \in Chain : Answers(b)}

Answer ==
    /\ pc = "sent" /\ state[index] = "up"
    /\ ~(op.kind = "download" /\ stored[index] = 0)
    /\ IF Writes THEN Lands(index, Content) ELSE UNCHANGED <<stored, late>>
    /\ Ends([status |-> "ok", content |-> stored'[index]])
    /\ known' = IF Writes /\ Steady THEN Content ELSE known
    /\ UNCHANGED <<client, state, changes, calls, op>>

Miss ==
    /\ pc = "sent" /\ state[index] = "up"
    /\ op.kind = "download" /\ stored[index] = 0
    /\ Threw("NotFound")
    /\ UNCHANGED <<client, world, calls, op, known>>

Refuse ==
    /\ pc = "sent" /\ state[index] = "closed"
    /\ Threw("Unauthorized")
    /\ UNCHANGED <<client, world, calls, op, known>>

Fail ==
    /\ pc = "sent" /\ state[index] = "down"
    /\ Threw("Provider")
    /\ LosesTrack
    /\ UNCHANGED <<client, state, changes, calls, op, known>>

Timeout ==
    /\ pc = "sent" /\ state[index] = "hung" /\ TimedAt(index)
    /\ Threw("timedOut")
    /\ LosesTrack
    /\ UNCHANGED <<client, state, changes, calls, op, known>>

Retry ==
    /\ pc = "backoff"
    /\ pc' = "sent"
    /\ attempt' = attempt + 1
    /\ UNCHANGED <<client, world, calls, op, index, result, known, reachable>>

(***************************************************************************)
(* The backends.                                                           *)
(***************************************************************************)
Change(b) ==
    /\ changes < MaxChanges
    /\ changes' = changes + 1
    /\ \E s \in States \ {state[b]} : state' = [state EXCEPT ![b] = s]
    /\ known' = Unknown
    /\ reachable' = reachable \ {b}
    /\ UNCHANGED <<client, stored, late, calls, op, pc, index, attempt, result>>

\* One that lands where reads go changes what they find.
LateLands ==
    \E r \in late :
        /\ late' = late \ {r}
        /\ stored' = [stored EXCEPT ![r.at] = r.content]
        /\ known' = IF state[r.at] = "up" THEN Unknown ELSE known
        /\ UNCHANGED <<client, state, changes, calls, op, pc, index, attempt, result, reachable>>

Proceed == Answer \/ Miss \/ Refuse \/ Fail \/ Timeout \/ Retry

Next == Call \/ Abort \/ Proceed \/ LateLands \/ (\E b \in Chain : Change(b))

Spec == Init /\ [][Next]_vars

\* A request to a backend that is not hung settles, and timers fire.
FairSpec == Spec /\ WF_vars(Proceed)

(***************************************************************************)
(* Properties.                                                             *)
(***************************************************************************)

\* As long as no backend changes, a read after an acknowledged write finds what was
\* written, and a deleted object stays deleted: reads and writes of one client settle on
\* the same backend, whatever else the others hold and whatever lands late.
ReadYourWrites ==
    op.kind = "download" /\ known # Unknown =>
        /\ result.status = "ok" => result.content = known
        /\ result.status = "NotFound" => known = 0

Ending == pc # "idle" /\ pc' = "idle" /\ result'.status # "aborted"

Served == result'.status \notin {"Provider", "timedOut"}

\* No backend is passed over: what answered every request during an operation is not
\* behind an answer from further down the chain, and an operation that can be replayed
\* does not report an outage while such a backend is there.
FirstReachableAnswers ==
    [][Ending =>
        /\ Served => \A b \in reachable : b >= index
        /\ ~Served /\ ~op.stream => reachable = {}]_vars

\* An operation that set a timeout ends, even if every backend hangs.
CallReturns == pc # "idle" /\ op.options.timed ~> pc = "idle"

\* Every backend is given up after as many attempts as the primary would be.
SecondariesRetryAlike ==
    [][Fail /\ pc' # "backoff" => attempt = RetriesAt(1)]_vars
=============================================================================
