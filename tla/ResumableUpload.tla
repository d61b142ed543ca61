--------------------------- MODULE ResumableUpload ---------------------------
(***************************************************************************)
(* A pause-able, resumable upload of the files-sdk in "parts" mode: the    *)
(* UploadControl handle, the orchestrator runResumableUpload with its pool *)
(* of part workers, and the provider session they drive                    *)
(* (internal/resumable.ts).                                                *)
(*                                                                         *)
(* JavaScript runs one synchronous segment at a time, so an action is the  *)
(* code between two awaits.  What an await waits for (a provider reply, a  *)
(* body slice, a backoff timer, a sibling's wake-up) is an action of its   *)
(* own, and user calls (pause, resume, abort, toJSON, an external signal)  *)
(* may come between any two of them.                                       *)
(***************************************************************************)
EXTENDS Integers, FiniteSets

CONSTANTS
    NumParts,      \* parts the body is sliced into, at least one
    Workers,       \* the worker pool: min(concurrency, NumParts) workers
    MaxRetries,    \* retries of one part, from the `retries` option
    MaxRestarts    \* bound: how often the process restarts from the token

ASSUME NumPartsAssumption == NumParts \in Nat \ {0}
ASSUME MaxRetriesAssumption == MaxRetries \in Nat
ASSUME MaxRestartsAssumption == MaxRestarts \in Nat
ASSUME WorkersAssumption == IsFiniteSet(Workers) /\ Workers # {}

Parts == 1 .. NumParts
NoPart == 0

VARIABLES
    (* UploadControl's private state *)
    status,      \* "idle", "uploading", "paused", "completed", "aborted", "error"
    paused,      \* the pause flag
    session,     \* the token: "none" or "live"
    aborted,     \* abortController.signal.aborted
    discard,     \* state.discard: "none", "installed", or "called" on the driver
    (* runResumableUpload and runParts *)
    run,         \* where the upload() promise is
    committed,   \* parts the probe found on the server
    results,     \* how often each part is listed in `results`
    next,        \* the next part number to claim
    failed,      \* the failure latch, set together with runAbort.abort()
    (* the workers *)
    wpc,         \* program counter of each worker
    part,        \* the part each worker holds
    tries,       \* attempts already spent on it
    (* the callers *)
    driver,      \* the adapter's PartsResumableDriver
    abortPc,     \* the abort() promise: "none", "discarding", "settled"
    sigAborted,  \* an external opts.signals entry has aborted
    saved,       \* the token the application persisted with toJSON()
    savedParts,  \* the parts it names
    restarts,
    (* the provider *)
    server,      \* session: "none", "open", "committed", "discarded"
    landed,      \* parts stored in the session
    noted,       \* parts the token names, where the driver keeps them there
    object,      \* parts the finished object is made of, {} before
    late,        \* part calls the client gave up on that may still land
    lateList     \* a complete() the process died waiting for, {} when none

control  == <<status, paused, session, aborted, discard>>
orch     == <<run, committed, results, next, failed>>
workers  == <<wpc, part, tries>>
callers  == <<driver, abortPc, sigAborted, saved, savedParts, restarts>>
provider == <<server, landed, noted, object, late, lateList>>
vars     == <<control, orch, workers, callers, provider>>

(***************************************************************************)
(* The drivers: whether begin() opens a session at the provider, whether   *)
(* discard() ends it, and where probe() finds the parts of an earlier run. *)
(***************************************************************************)

\* Multipart uploads, also through the lazily loaded S3 adapter of R2.
S3 == [begins |-> "session", discards |-> "session", probes |-> "provider"]
R2 == S3

\* A blob takes blocks at any time; what was staged and not committed expires.
Azure == [begins |-> "nothing", discards |-> "nothing", probes |-> "provider"]

\* The provider lists no parts: the token names those that were answered.
VercelBlob == [begins |-> "session", discards |-> "nothing", probes |-> "token"]

Drivers == {S3, R2, Azure, VercelBlob}

\* The provider takes parts and a complete().
Open == server = "open" \/ driver.begins = "nothing"

RunPc == {"idle", "beginning", "probing", "discarding", "running",
          "completing", "completed", "resolved", "rejected"}
WorkerPc == {"off", "ready", "parked", "woken", "passed", "slicing",
             "flight", "landed", "answered", "backoff", "done", "thrown"}

Settled == run \in {"resolved", "rejected"}

\* Worker w has claimed a part and not let go of it.
Holds(w) == wpc[w] \in {"parked", "woken", "passed", "slicing", "flight",
                        "landed", "answered", "backoff"}

TypeOK ==
    /\ status \in {"idle", "uploading", "paused", "completed", "aborted", "error"}
    /\ paused \in BOOLEAN
    /\ session \in {"none", "live"}
    /\ aborted \in BOOLEAN
    /\ discard \in {"none", "installed", "called"}
    /\ run \in RunPc
    /\ committed \subseteq Parts
    /\ results \in [Parts -> Nat]
    /\ next \in 1 .. NumParts + 1
    /\ failed \in BOOLEAN
    /\ wpc \in [Workers -> WorkerPc]
    /\ part \in [Workers -> Parts \cup {NoPart}]
    /\ \A w \in Workers : Holds(w) => part[w] \in Parts
    /\ tries \in [Workers -> 0 .. MaxRetries]
    /\ abortPc \in {"none", "discarding", "settled"}
    /\ sigAborted \in BOOLEAN
    /\ driver \in Drivers
    /\ saved \in {"none", "live"} /\ savedParts \subseteq Parts
    /\ restarts \in 0 .. MaxRestarts
    /\ server \in {"none", "open", "committed", "discarded"}
    /\ landed \subseteq Parts /\ noted \subseteq Parts
    /\ object \subseteq Parts
    /\ late \subseteq Parts
    /\ lateList \subseteq Parts

NoResults == [p \in Parts |-> 0]
EachWorker(x) == [w \in Workers |-> x]

Init ==
    /\ status = "idle" /\ paused = FALSE /\ session = "none"
    /\ aborted = FALSE /\ discard = "none"
    /\ run = "idle" /\ committed = {} /\ results = NoResults
    /\ next = 1 /\ failed = FALSE
    /\ wpc = EachWorker("off") /\ part = EachWorker(NoPart) /\ tries = EachWorker(0)
    /\ driver \in Drivers
    /\ abortPc = "none" /\ sigAborted = FALSE /\ restarts = 0
    /\ saved = "none" /\ savedParts = {}
    /\ server = "none" /\ landed = {} /\ noted = {} /\ object = {} /\ late = {} /\ lateList = {}

(***************************************************************************)
(* The caller: UploadControl's methods and the external signal.            *)
(***************************************************************************)

\* Parked workers are the resumeWaiters; waking them lets each re-test the gate.
Woken(pcs) == [w \in Workers |-> IF pcs[w] = "parked" THEN "woken" ELSE pcs[w]]

Pause ==
    /\ status \notin {"completed", "aborted"}
    /\ paused' = TRUE
    /\ status' = IF status = "uploading" THEN "paused" ELSE status
    /\ UNCHANGED <<session, aborted, discard, orch, workers, callers, provider>>

Resume ==
    /\ paused
    /\ paused' = FALSE
    /\ status' = IF status = "paused" THEN "uploading" ELSE status
    /\ wpc' = Woken(wpc)
    /\ UNCHANGED <<session, aborted, discard, orch, part, tries, callers, provider>>

\* Cancels, then awaits the driver's discard if the orchestrator installed it;
\* with nothing installed the token is dropped at once.
Abort ==
    /\ status \notin {"completed", "aborted"}
    /\ status' = "aborted"
    /\ paused' = FALSE
    /\ aborted' = TRUE
    /\ wpc' = Woken(wpc)
    /\ IF discard = "installed"
         THEN /\ discard' = "called"
              /\ abortPc' = "discarding"
              /\ UNCHANGED session
         ELSE /\ session' = "none"
              /\ abortPc' = "settled"
              /\ UNCHANGED discard
    /\ UNCHANGED <<orch, part, tries, driver, sigAborted, saved, savedParts, restarts, provider>>

\* The awaited discard settled, well or badly: the token goes either way.
AbortReturns ==
    /\ abortPc = "discarding"
    /\ abortPc' = "settled"
    /\ session' = "none"
    /\ UNCHANGED <<status, paused, aborted, discard, orch, workers,
                   driver, sigAborted, saved, savedParts, restarts, provider>>

SignalAbort ==
    /\ ~sigAborted
    /\ sigAborted' = TRUE
    /\ UNCHANGED <<control, orch, workers, driver, abortPc, saved, savedParts, restarts, provider>>

Persist ==
    /\ session = "live"
    /\ saved' = session /\ savedParts' = noted
    /\ UNCHANGED <<control, orch, workers, driver, abortPc, sigAborted, restarts, provider>>

\* The process dies, or drops the control, and a new control is made with
\* UploadControl.from(saved).  Calls on the wire are no longer waited for.
Restart ==
    /\ saved = "live"
    /\ run # "resolved"
    /\ restarts < MaxRestarts
    /\ restarts' = restarts + 1
    /\ status' = "idle" /\ paused' = FALSE /\ session' = saved
    /\ noted' = savedParts
    /\ aborted' = FALSE /\ discard' = "none"
    /\ run' = "idle" /\ committed' = {} /\ results' = NoResults
    /\ next' = 1 /\ failed' = FALSE
    /\ wpc' = EachWorker("off") /\ part' = EachWorker(NoPart) /\ tries' = EachWorker(0)
    /\ abortPc' = "none" /\ sigAborted' = FALSE
    /\ late' = late \cup {part[w] : w \in {v \in Workers : wpc[v] = "flight"}}
    /\ lateList' = IF run = "completing"
                     THEN {p \in Parts : results[p] > 0} ELSE lateList
    /\ UNCHANGED <<driver, saved, savedParts, server, landed, object>>

(***************************************************************************)
(* The orchestrator: establishing the session.                             *)
(***************************************************************************)

\* upload() with this control; a control aborted beforehand rejects at once.
Upload ==
    /\ run = "idle"
    /\ run' = IF status = "aborted" THEN "rejected"
              ELSE IF session = "live" THEN "probing" ELSE "beginning"
    /\ UNCHANGED <<control, committed, results, next, failed, workers, callers, provider>>

\* The catch of runResumableUpload: only control.abort() keeps its own status.
RejectRun ==
    /\ run' = "rejected"
    /\ status' = IF aborted THEN status ELSE "error"

\* Slip: the session is installed without looking whether abort() raced it.
EstablishUnchecked ==
    /\ run' = "running"
    /\ discard' = "installed"
    /\ wpc' = EachWorker("ready")

\* The session is known: install the discard, unless abort() ran meanwhile, in
\* which case this run discards the session itself and drops the token.
Establish ==
    IF aborted
      THEN /\ run' = "discarding"
           /\ discard' = "called"
           /\ UNCHANGED wpc
      ELSE /\ run' = "running"
           /\ discard' = "installed"
           /\ wpc' = EachWorker("ready")

BeginReturns ==
    /\ run = "beginning"
    /\ Open
    /\ session' = "live"
    /\ Establish
    /\ UNCHANGED <<status, paused, aborted, committed, results, next, failed,
                   part, tries, callers, provider>>

\* What probe() reports: the parts the provider lists, or those in the token.
Probed == IF driver.probes = "token" THEN noted ELSE landed

ProbeReturns ==
    /\ run = "probing"
    /\ driver.probes = "provider" => Open
    /\ committed' = Probed
    /\ results' = [p \in Parts |-> IF p \in Probed THEN 1 ELSE 0]
    /\ Establish
    /\ UNCHANGED <<status, paused, session, aborted, next, failed,
                   part, tries, callers, provider>>

\* begin() or probe() rejects: a network error, or a session that is gone.
EstablishFails ==
    /\ run \in {"beginning", "probing"}
    /\ RejectRun
    /\ UNCHANGED <<paused, session, aborted, discard, committed, results, next,
                   failed, workers, callers, provider>>

LateDiscardReturns ==
    /\ run = "discarding"
    /\ session' = "none"
    /\ RejectRun
    /\ UNCHANGED <<paused, aborted, discard, committed, results, next, failed,
                   workers, callers, provider>>

(***************************************************************************)
(* The workers of runParts.  Array.from starts them in one segment and a   *)
(* worker that finished a part claims the next in the same segment; the    *)
(* model lets others step in between, which only adds behaviours.          *)
(***************************************************************************)

MoveWorker(w, pc) == wpc' = [wpc EXCEPT ![w] = pc]

\* Slip: the failure latch ends the wait but not the return to "uploading".
GateClobberingStatus(w) ==
    \/ /\ paused /\ status # "aborted" /\ ~failed
       /\ status' = "paused"
       /\ MoveWorker(w, "parked")
    \/ /\ status = "aborted"
       /\ MoveWorker(w, "thrown")
       /\ UNCHANGED status
    \/ /\ status # "aborted" /\ (failed \/ ~paused)
       /\ status' = "uploading"
       /\ MoveWorker(w, "passed")

\* pauseGate(state, runAbort.signal), from its loop test to where it waits,
\* throws or returns.
Gate(w) ==
    \/ /\ paused /\ status # "aborted" /\ ~failed
       /\ status' = "paused"
       /\ MoveWorker(w, "parked")
    \/ /\ status = "aborted"
       /\ MoveWorker(w, "thrown")
       /\ UNCHANGED status
    \/ /\ status # "aborted" /\ failed
       /\ MoveWorker(w, "passed")
       /\ UNCHANGED status
    \/ /\ status # "aborted" /\ ~failed /\ ~paused
       /\ status' = "uploading"
       /\ MoveWorker(w, "passed")

\* Slip: parts the probe found are uploaded and listed again.
UnclaimedIgnoringProbe == next .. NumParts

Unclaimed == {p \in next .. NumParts : p \notin committed}

\* The head of the worker loop: take the next part not yet committed, and gate.
Claim(w) ==
    /\ wpc[w] = "ready"
    /\ \E p \in Unclaimed :
          /\ \A q \in Unclaimed : p <= q
          /\ next' = p + 1
          /\ part' = [part EXCEPT ![w] = p]
          /\ tries' = [tries EXCEPT ![w] = 0]
    /\ Gate(w)
    /\ UNCHANGED <<paused, session, aborted, discard, run, committed, results,
                   failed, callers, provider>>

NothingLeft(w) ==
    /\ wpc[w] = "ready"
    /\ Unclaimed = {}
    /\ next' = NumParts + 1
    /\ MoveWorker(w, "done")
    /\ UNCHANGED <<control, run, committed, results, failed, part, tries,
                   callers, provider>>

\* A woken worker tests the gate's loop condition again.
Recheck(w) ==
    /\ wpc[w] = "woken"
    /\ Gate(w)
    /\ UNCHANGED <<paused, session, aborted, discard, orch, part, tries,
                   callers, provider>>

\* Past the gate: leave if a sibling failed, else read the slice of the body.
CheckLatch(w) ==
    /\ wpc[w] = "passed"
    /\ MoveWorker(w, IF failed THEN "done" ELSE "slicing")
    /\ UNCHANGED <<control, orch, part, tries, callers, provider>>

SignalsAborted == aborted \/ sigAborted \/ failed

\* Slip: the latch is set, the workers parked at the gate are not woken.
FailWorkerWithoutWaking(w) ==
    /\ failed' = TRUE
    /\ MoveWorker(w, "done")

\* The catch of a worker: latch the failure, which aborts the sibling attempts
\* and wakes the parked workers.
FailWorker(w) ==
    /\ failed' = TRUE
    /\ wpc' = [Woken(wpc) EXCEPT ![w] = "done"]

\* attempt(): a provider call is made unless a signal has already aborted.
StartAttempt(w) ==
    /\ wpc[w] = "slicing"
    /\ IF SignalsAborted
         THEN FailWorker(w)
         ELSE MoveWorker(w, "flight") /\ UNCHANGED failed
    /\ UNCHANGED <<control, run, committed, results, next, part, tries,
                   callers, provider>>

SliceFails(w) ==
    /\ wpc[w] = "slicing"
    /\ FailWorker(w)
    /\ UNCHANGED <<control, run, committed, results, next, part, tries,
                   callers, provider>>

\* The reply settles the attempt first: a signal that aborts now is too late.
PartAnswered(w) ==
    /\ wpc[w] = "landed"
    /\ ~SignalsAborted
    /\ noted' = IF driver.probes = "token" THEN noted \cup {part[w]} ELSE noted
    /\ MoveWorker(w, "answered")
    /\ UNCHANGED <<control, orch, part, tries, callers, server, landed, object,
                   late, lateList>>

\* The continuation of the answered attempt: record the part, go round the loop.
PartReturns(w) ==
    /\ wpc[w] = "answered"
    /\ results' = [results EXCEPT ![part[w]] = @ + 1]
    /\ MoveWorker(w, "ready")
    /\ UNCHANGED <<control, run, committed, next, failed, part, tries,
                   callers, provider>>

\* A call no longer waited for may still land.
GiveUpCall(w) ==
    late' = IF wpc[w] = "flight" THEN late \cup {part[w]} ELSE late

\* Slip: one retry too many.
AttemptRetriesOnceMore(w) ==
    /\ wpc[w] \in {"flight", "landed"}
    /\ tries[w] <= MaxRetries
    /\ ~SignalsAborted
    /\ tries' = [tries EXCEPT ![w] = @ + 1]
    /\ MoveWorker(w, "backoff")
    /\ GiveUpCall(w)
    /\ UNCHANGED <<control, orch, part, callers, server, landed, noted,
                   object, lateList>>

\* A retryable provider error, the part stored or not: back off and try again.
AttemptRetries(w) ==
    /\ wpc[w] \in {"flight", "landed"}
    /\ tries[w] < MaxRetries
    /\ ~SignalsAborted
    /\ tries' = [tries EXCEPT ![w] = @ + 1]
    /\ MoveWorker(w, "backoff")
    /\ GiveUpCall(w)
    /\ UNCHANGED <<control, orch, part, callers, server, landed, noted,
                   object, lateList>>

\* Slip: the retry is sent without looking at the signals again.
BackoffElapsesUnchecked(w) ==
    /\ wpc[w] = "backoff"
    /\ MoveWorker(w, "flight")
    /\ UNCHANGED <<control, orch, part, tries, callers, provider>>

BackoffElapses(w) ==
    /\ wpc[w] = "backoff"
    /\ IF SignalsAborted
         THEN FailWorker(w)
         ELSE MoveWorker(w, "flight") /\ UNCHANGED failed
    /\ UNCHANGED <<control, run, committed, results, next, part, tries,
                   callers, provider>>

\* The attempt ends for good: a permanent error, no retries left, its timeout,
\* or an aborted signal.
AttemptFails(w) ==
    /\ wpc[w] \in {"flight", "landed"}
    /\ FailWorker(w)
    /\ GiveUpCall(w)
    /\ UNCHANGED <<control, run, committed, results, next, part, tries, callers,
                   server, landed, noted, object, lateList>>

(***************************************************************************)
(* The orchestrator: after the workers.                                    *)
(***************************************************************************)

\* Promise.all rejects as soon as one worker's gate threw.
GateThrew ==
    /\ run = "running"
    /\ \E w \in Workers : wpc[w] = "thrown"
    /\ RejectRun
    /\ UNCHANGED <<paused, session, aborted, discard, committed, results, next,
                   failed, workers, callers, provider>>

\* Slip: the workers' failure is not looked at before completing.
WorkersReturnUnchecked ==
    /\ run = "running"
    /\ \A w \in Workers : wpc[w] = "done"
    /\ run' = "completing"
    /\ UNCHANGED <<control, committed, results, next, failed, workers, callers,
                   provider>>

WorkersReturn ==
    /\ run = "running"
    /\ \A w \in Workers : wpc[w] = "done"
    /\ IF failed
         THEN RejectRun
         ELSE run' = "completing" /\ UNCHANGED status
    /\ UNCHANGED <<paused, session, aborted, discard, committed, results, next,
                   failed, workers, callers, provider>>

CompleteReturns ==
    /\ run = "completed"
    /\ run' = "resolved"
    /\ status' = "completed"
    /\ UNCHANGED <<paused, session, aborted, discard, committed, results, next,
                   failed, workers, callers, provider>>

\* complete() rejects, its commit having landed or not; it is not retried.
CompleteFails ==
    /\ run \in {"completing", "completed"}
    /\ RejectRun
    /\ UNCHANGED <<paused, session, aborted, discard, committed, results, next,
                   failed, workers, callers, provider>>

(***************************************************************************)
(* The provider, as the driver contract uses it: calls take effect between *)
(* being made and being answered.                                          *)
(***************************************************************************)

BeginLands ==
    /\ run = "beginning"
    /\ server = "none" /\ driver.begins = "session"
    /\ server' = "open"
    /\ UNCHANGED <<control, orch, workers, callers, landed, noted, object, late, lateList>>

PartLands(w) ==
    /\ wpc[w] = "flight"
    /\ Open
    /\ landed' = landed \cup {part[w]}
    /\ MoveWorker(w, "landed")
    /\ UNCHANGED <<control, orch, part, tries, callers, server, noted, object, late, lateList>>

\* A call the client gave up on lands, or is dropped once the session is over.
LatePartLands(p) ==
    /\ p \in late
    /\ late' = late \ {p}
    /\ landed' = IF Open THEN landed \cup {p} ELSE landed
    /\ UNCHANGED <<control, orch, workers, callers, server, noted, object, lateList>>

\* The object is assembled from the listed parts, each named once and stored,
\* in Azure possibly with the object that is there.
Assemble(list) ==
    /\ Open
    /\ list \subseteq landed \cup object
    /\ server' = "committed"
    /\ landed' = {}
    /\ object' = list

CompleteLands ==
    /\ run = "completing"
    /\ \A p \in Parts : results[p] <= 1
    /\ Assemble({p \in Parts : results[p] = 1})
    /\ run' = "completed"
    /\ UNCHANGED <<control, committed, results, next, failed, workers, callers,
                   noted, late, lateList>>

LateCompleteLands ==
    /\ lateList # {}
    /\ Assemble(lateList)
    /\ lateList' = {}
    /\ UNCHANGED <<control, orch, workers, callers, noted, late>>

DiscardLands ==
    /\ abortPc = "discarding" \/ run = "discarding"
    /\ server = "open" /\ driver.discards = "session"
    /\ server' = "discarded"
    /\ landed' = {}
    /\ UNCHANGED <<control, orch, workers, callers, noted, object, late, lateList>>

(***************************************************************************)
(* The specification.                                                      *)
(***************************************************************************)

User == Pause \/ Resume \/ Abort \/ SignalAbort \/ Persist \/ Restart \/ Upload

Orchestrate ==
    \/ BeginReturns \/ ProbeReturns \/ EstablishFails \/ LateDiscardReturns
    \/ GateThrew \/ WorkersReturn \/ CompleteReturns \/ CompleteFails
    \/ AbortReturns

Work(w) ==
    \/ Claim(w) \/ NothingLeft(w) \/ Recheck(w) \/ CheckLatch(w)
    \/ StartAttempt(w) \/ SliceFails(w) \/ PartAnswered(w) \/ PartReturns(w)
    \/ AttemptRetries(w) \/ BackoffElapses(w) \/ AttemptFails(w)

Provide ==
    \/ BeginLands \/ CompleteLands \/ LateCompleteLands \/ DiscardLands
    \/ \E w \in Workers : PartLands(w)
    \/ \E p \in Parts : LatePartLands(p)

Next ==
    \/ User
    \/ Orchestrate
    \/ \E w \in Workers : Work(w)
    \/ Provide

Spec == Init /\ [][Next]_vars

\* Continuations run and provider calls settle; nothing obliges the user to act.
Fairness ==
    /\ WF_vars(Orchestrate)
    /\ \A w \in Workers : WF_vars(Work(w))

FairSpec == Spec /\ Fairness

(***************************************************************************)
(* Properties.                                                             *)
(***************************************************************************)

\* When complete() is called, the list handed to the provider names every part
\* exactly once, whatever was claimed, probed, retried or answered twice.
CompleteListsEachPartOnce ==
    run = "completing" => \A p \in Parts : results[p] = 1

\* The upload implements its abstract promise: the object is never partial, is
\* committed once, and a resolved upload() means it is there, also when earlier
\* processes and abandoned calls wrote into the same session.
Promise == INSTANCE UploadPromise WITH
    outcome <- IF Settled THEN run ELSE "pending",
    stored <- IF object = {} THEN "absent"
              ELSE IF object = Parts THEN "whole" ELSE "partial",
    revoked <- FALSE   \* cancelling discards a session, never the object

ImplementsPromise == Promise!Spec

\* The token is kept for a later resume unless the upload was aborted.  Once
\* abort() and upload() have both settled, no installed discard was left uncalled
\* and no token remains, also when begin() or probe() was in flight at the abort;
\* an upload that failed, or was cancelled by a signal, has its token.
TokenKeptUnlessAborted ==
    /\ aborted /\ Settled /\ abortPc = "settled"
          => discard # "installed" /\ session = "none"
    /\ run = "rejected" /\ ~aborted /\ discard = "installed" => session = "live"

\* The status getter never says "uploading" while the pause flag is up, nor
\* "paused" while it is down: gate, pause, resume and failure latch agree.
StatusReflectsPause ==
    /\ status = "uploading" => ~paused
    /\ status = "paused" => paused

\* No part is sent for an upload that is already dead: after the failure latch,
\* abort(), a signal abort, or the settling of upload(), no call starts.
NoCallOnDeadRun ==
    [][\A w \in Workers :
          wpc[w] # "flight" /\ wpc'[w] = "flight"
              => run = "running" /\ ~SignalsAborted]_vars

\* upload() settles: after abort(), even when every worker was parked; after a
\* part failed for good, even when it is paused and nobody resumes it; and else
\* whenever nobody pauses it.
UploadSettles ==
    /\ aborted \/ failed ~> Settled \/ run = "idle"
    /\ run # "idle" ~> Settled \/ run = "idle" \/ paused

(***************************************************************************)
(* The inductive invariant behind CompleteListsEachPartOnce and            *)
(* ImplementsPromise: where each part number is at any moment.             *)
(***************************************************************************)

ListedOnce ==
    /\ \A p \in Parts : results[p] \in {0, 1}
    /\ \A p \in committed : results[p] = 1
    /\ \A p \in Parts \ committed : p >= next => results[p] = 0

HeldParts ==
    /\ \A w \in Workers : Holds(w) =>
          part[w] \in Parts \ committed /\ part[w] < next /\ results[part[w]] = 0
    /\ \A w, v \in Workers : Holds(w) /\ Holds(v) /\ part[w] = part[v] => w = v

\* A claimed part is listed, held, or lost to a failure that ends the run.
NoPartForgotten ==
    \A p \in Parts \ committed :
        p < next /\ results[p] = 0
            => \/ failed
               \/ \E w \in Workers : wpc[w] = "thrown"
               \/ \E w \in Workers : Holds(w) /\ part[w] = p

DoneMeansClaimed ==
    \A w \in Workers : wpc[w] = "done" => failed \/ next = NumParts + 1

Phases ==
    /\ run \in {"idle", "beginning", "probing"} =>
          /\ next = 1 /\ committed = {} /\ results = NoResults
          /\ ~failed /\ wpc = EachWorker("off")
    /\ run = "discarding" => wpc = EachWorker("off")
    /\ run \in {"completing", "completed", "resolved"} =>
          /\ \A w \in Workers : wpc[w] = "done"
          /\ \A p \in Parts : results[p] = 1

ObjectWhole ==
    /\ lateList \in {{}, Parts}
    /\ server = "committed" => object = Parts
    /\ server # "committed" => object = {}
    /\ run \in {"completed", "resolved"} => server = "committed"

IInv == /\ TypeOK /\ ListedOnce /\ HeldParts /\ NoPartForgotten
        /\ DoneMeansClaimed /\ Phases /\ ObjectWhole

(***************************************************************************)
(* What the documentation says and the code does not do.                   *)
(***************************************************************************)

\* abort(): cancels the upload and discards the provider-side session, here the
\* session of a control rebuilt from its token, with a driver that can do it.
AbortDiscardsSession ==
    driver.discards = "session" /\ aborted /\ restarts > 0 /\ abortPc = "settled"
        => server # "open" \/ discard = "called" \/ run \in {"beginning", "probing"}

\* Aborting via a signal cancels the call: it does not stay paused for good.
SignalAbortEndsPause == []<>~(sigAborted /\ paused /\ run = "running")
=============================================================================
