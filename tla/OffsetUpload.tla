---------------------------- MODULE OffsetUpload ----------------------------
(***************************************************************************)
(* A resumable upload in "offset" mode: runOffset of internal/resumable.ts *)
(* sends one chunk after the other and goes on from what the driver says   *)
(* the provider holds.  Thirteen adapters have such a driver; a driver is  *)
(* a record of what its calls do, and the actions read that record.        *)
(*                                                                         *)
(* The body is counted in units of which a chunk has ChunkSize.  All calls *)
(* send slices of one body, so of what the provider holds only two things  *)
(* matter: how much it is, and whether some byte got out of its place.     *)
(***************************************************************************)
EXTENDS Integers

CONSTANTS
    Totals,        \* the body sizes to consider
    ChunkSize,     \* driver.partSize
    MaxRetries,    \* retries of one chunk, from the `retries` option
    MaxRestarts    \* bound: how often the application resumes from the token

ASSUME TotalsAssumption == Totals \subseteq Nat
ASSUME ChunkSizeAssumption == ChunkSize \in Nat \ {0}
ASSUME RetriesAssumption == MaxRetries \in Nat
ASSUME RestartsAssumption == MaxRestarts \in Nat

(***************************************************************************)
(* The drivers.                                                            *)
(***************************************************************************)

Driver ==
    [ offset : {"server", "token", "process"},  \* who knows the offset on resume
      write  : {"ranged", "checked", "positional", "append", "pushed"},
      commit : {"last", "complete", "dropped", "inplace"},  \* what makes the object
      proof  : {"required", "none"},            \* complete() needs a final reply
      cancel : {"session", "object", "none"} ]  \* what discard() removes

\* A session URL that takes Content-Range PUTs; 308 answers what is persisted.
HttpRanges ==
    [offset |-> "server", write |-> "ranged", commit |-> "last",
     proof |-> "required", cancel |-> "session"]

Gcs == HttpRanges

GoogleDrive == HttpRanges

\* A Graph upload session, whose chunks must follow each other.
OneDrive ==
    [offset |-> "server", write |-> "checked", commit |-> "last",
     proof |-> "required", cancel |-> "session"]

\* Append at an offset that only the token knows; a session cannot be cancelled.
Dropbox ==
    [offset |-> "token", write |-> "checked", commit |-> "last",
     proof |-> "required", cancel |-> "none"]

Cloudinary ==
    [offset |-> "token", write |-> "ranged", commit |-> "last",
     proof |-> "required", cancel |-> "none"]

\* complete() falls back to the token, and discard() deletes the file by its id.
Appwrite ==
    [offset |-> "token", write |-> "ranged", commit |-> "last",
     proof |-> "none", cancel |-> "object"]

\* TUS: PATCH at the offset the server has, HEAD to ask for it.
Supabase ==
    [offset |-> "server", write |-> "checked", commit |-> "last",
     proof |-> "none", cancel |-> "session"]

\* Appends to the file itself; its size is the offset, if the server tells it.
Ftp ==
    [offset |-> "server", write |-> "append", commit |-> "inplace",
     proof |-> "none", cancel |-> "object"]

Sftp ==
    [offset |-> "server", write |-> "append", commit |-> "inplace",
     proof |-> "none", cancel |-> "object"]

\* Positional writes to a temporary file that complete() renames.
Fs ==
    [offset |-> "server", write |-> "positional", commit |-> "complete",
     proof |-> "none", cancel |-> "session"]

\* Chunks pushed on a list in the process; complete() uploads the whole.
Memory ==
    [offset |-> "process", write |-> "pushed", commit |-> "complete",
     proof |-> "none", cancel |-> "session"]

\* As above, but the list is dropped before the upload is known to succeed.
Box == [Memory EXCEPT !.commit = "dropped"]

BunS3 == Memory

Drivers == {Gcs, GoogleDrive, OneDrive, Dropbox, Cloudinary, Appwrite, Supabase,
            Ftp, Sftp, Fs, Memory, Box, BunS3}

VARIABLES
    (* chosen once *)
    driver, total,
    (* the control and its token *)
    paused, aborted, sigAborted,
    session,     \* "none" or "live"
    noted,       \* the offset kept in the token object
    discard,     \* state.discard: "none" or "installed"
    abortPc,     \* the abort() promise: "none", "discarding", "settled"
    saved,       \* the token the application persisted: "none" or "live"
    savedAt,     \* and the offset that copy carries
    restarts,
    (* runResumableUpload and runOffset *)
    pc,
    offset,
    tries,       \* retries spent on this chunk
    answer,      \* what the call in flight will answer, NoAnswer if an error
    final,       \* the driver has seen the finished object: "yes" or "no"
    (* the provider *)
    server,      \* the session: "none", "open", "committed", "gone", "stray"
    held,        \* how much it holds
    order,       \* "kept", or "lost" once a byte is out of its place
    object,      \* under the key: "absent", "partial", "whole", "broken"
    late,        \* calls the client gave up on that may still take effect
    unguarded    \* an append went without the size check it relies upon

options  == <<driver, total>>
control  == <<paused, aborted, sigAborted, session, noted, discard, abortPc>>
callers  == <<saved, savedAt, restarts>>
loop     == <<pc, offset, tries, answer, final>>
provider == <<server, held, order, object>>
wire     == <<late, unguarded>>
vars     == <<options, control, callers, loop, provider, wire>>

Pc == {"idle", "beginning", "probing", "cleaning", "head", "gate", "parked",
       "slicing", "flight", "writing", "landed", "answered", "backoff",
       "completing", "resolved", "rejected"}
NoAnswer == -1
Settled == pc \in {"resolved", "rejected"}
Cancelled == aborted \/ sigAborted

\* A call given up on: its slice, how far it has come, whether the process that
\* would hear its reply is still the one running.  Only an append asks first.
Call == [at : Nat, upTo : Nat, stage : {"asking", "writing", "landed"},
         here : {"yes", "no"}]

TypeOK ==
    /\ driver \in Driver /\ total \in Nat
    /\ paused \in BOOLEAN /\ aborted \in BOOLEAN /\ sigAborted \in BOOLEAN
    /\ session \in {"none", "live"} /\ noted \in 0 .. total
    /\ discard \in {"none", "installed"}
    /\ abortPc \in {"none", "discarding", "settled"}
    /\ saved \in {"none", "live"} /\ savedAt \in 0 .. total
    /\ restarts \in 0 .. MaxRestarts
    /\ pc \in Pc /\ offset \in Nat /\ tries \in 0 .. MaxRetries
    /\ answer \in {NoAnswer} \cup Nat /\ final \in {"yes", "no"}
    /\ pc = "answered" => answer # NoAnswer
    /\ ~unguarded => offset <= total /\ answer <= total
    /\ server \in {"none", "open", "committed", "gone", "stray"}
    /\ held \in Nat /\ order \in {"kept", "lost"}
    /\ object \in {"absent", "partial", "whole", "broken"}
    /\ late \subseteq Call /\ unguarded \in BOOLEAN

Init ==
    /\ driver \in Drivers /\ total \in Totals
    /\ paused = FALSE /\ aborted = FALSE /\ sigAborted = FALSE
    /\ session = "none" /\ noted = 0 /\ discard = "none" /\ abortPc = "none"
    /\ saved = "none" /\ savedAt = 0 /\ restarts = 0
    /\ pc = "idle" /\ offset = 0 /\ tries = 0 /\ answer = NoAnswer /\ final = "no"
    /\ server = "none" /\ object = "absent" /\ late = {} /\ unguarded = FALSE
    \* An abandoned upload of some other body may have left a file behind.
    /\ \/ held = 0 /\ order = "kept"
       \/ driver.write \in {"append", "positional"} /\ held = 1 /\ order = "lost"

(***************************************************************************)
(* The caller.                                                             *)
(***************************************************************************)

Pause ==
    /\ ~paused /\ ~aborted /\ pc # "resolved"
    /\ paused' = TRUE
    /\ UNCHANGED <<options, aborted, sigAborted, session, noted, discard, abortPc,
                   callers, loop, provider, wire>>

Resume ==
    /\ paused
    /\ paused' = FALSE
    /\ pc' = IF pc = "parked" THEN "gate" ELSE pc
    /\ UNCHANGED <<options, aborted, sigAborted, session, noted, discard, abortPc,
                   callers, offset, tries, answer, final, provider, wire>>

\* Terminal: the application does not resume the token of an upload it aborted.
Abort ==
    /\ ~aborted /\ pc # "resolved"
    /\ aborted' = TRUE /\ paused' = FALSE /\ saved' = "none"
    /\ pc' = IF pc = "parked" THEN "gate" ELSE pc
    /\ IF discard = "installed"
         THEN abortPc' = "discarding" /\ UNCHANGED session
         ELSE abortPc' = "settled" /\ session' = "none"
    /\ UNCHANGED <<options, sigAborted, noted, discard, savedAt, restarts,
                   offset, tries, answer, final, provider, wire>>

AbortReturns ==
    /\ abortPc = "discarding"
    /\ abortPc' = "settled" /\ session' = "none"
    /\ UNCHANGED <<options, paused, aborted, sigAborted, noted, discard,
                   callers, loop, provider, wire>>

SignalAbort ==
    /\ ~sigAborted /\ pc # "resolved"
    /\ sigAborted' = TRUE
    /\ UNCHANGED <<options, paused, aborted, session, noted, discard, abortPc,
                   callers, loop, provider, wire>>

Persist ==
    /\ session = "live" /\ ~aborted
    /\ saved' = "live" /\ savedAt' = noted
    /\ UNCHANGED <<options, control, restarts, loop, provider, wire>>

\* A new control, made from the token, drives a new run.
NewControl ==
    /\ restarts < MaxRestarts /\ restarts' = restarts + 1
    /\ paused' = FALSE /\ aborted' = FALSE /\ sigAborted' = FALSE
    /\ session' = "live" /\ discard' = "none" /\ abortPc' = "none"
    /\ pc' = "idle" /\ offset' = 0 /\ tries' = 0 /\ answer' = NoAnswer
    /\ final' = "no"

\* In the same process: toJSON() handed out the very object the driver keeps
\* up to date, so a late reply still moves its offset.
ResumeHere ==
    /\ pc = "rejected" /\ session = "live" /\ ~aborted
    /\ NewControl
    /\ UNCHANGED <<options, noted, saved, savedAt, provider, wire>>

Network == driver.write \in {"ranged", "checked"}

\* The chunk is on its way; an append asks for the size before that.
Sending == pc = IF driver.write = "append" THEN "writing" ELSE "flight"

\* The slice of the chunk at `offset`.
End == IF offset + ChunkSize < total THEN offset + ChunkSize ELSE total
IsLast == End >= total

\* The process dies, at any moment, and another one resumes a persisted copy:
\* requests on the wire may still arrive, local writes and lists are gone.
Crash ==
    /\ saved = "live" /\ pc # "resolved"
    /\ NewControl
    /\ noted' = savedAt
    /\ late' = IF Network \/ driver.write = "append"
                 THEN {[c EXCEPT !.here = "no"] : c \in {d \in late : d.stage = "writing"}}
                      \cup (IF Sending
                              THEN {[at |-> offset, upTo |-> End, here |-> "no", stage |-> "writing"]}
                              ELSE {})
                 ELSE {}
    /\ server' = IF driver.write = "pushed" THEN "gone" ELSE server
    /\ UNCHANGED <<options, saved, savedAt, held, order, object, unguarded>>

(***************************************************************************)
(* Establishing the session.                                               *)
(***************************************************************************)

Upload ==
    /\ pc = "idle"
    /\ pc' = IF aborted THEN "rejected"
             ELSE IF session = "live" THEN "probing" ELSE "beginning"
    /\ UNCHANGED <<options, control, callers, offset, tries, answer, final,
                   provider, wire>>

\* Slip: the file an earlier upload left behind is not removed.
BeginLandsOnStaleFile ==
    /\ pc = "beginning" /\ server = "none"
    /\ server' = "open"
    /\ UNCHANGED <<options, control, callers, loop, held, order, object, wire>>

BeginLands ==
    /\ pc = "beginning" /\ server = "none"
    /\ server' = "open" /\ held' = 0 /\ order' = "kept"
    /\ UNCHANGED <<options, control, callers, loop, object, wire>>

\* An abort() that raced begin() or probe() found no discard to call.  An empty
\* body is sent in one call wherever the probe says the session is.
Establish(start) ==
    /\ offset' = start
    /\ IF aborted
         THEN pc' = "cleaning" /\ UNCHANGED discard
         ELSE /\ discard' = "installed"
              /\ pc' = IF total = 0 THEN "gate" ELSE "head"

BeginReturns ==
    /\ pc = "beginning" /\ server = "open"
    /\ session' = "live"
    /\ Establish(0)
    /\ UNCHANGED <<options, paused, aborted, sigAborted, noted, abortPc, callers,
                   tries, answer, final, provider, wire>>

\* Whether the driver's probe() gets an answer out of the provider as it is.
ProbeAnswers ==
    CASE driver.offset = "token" -> TRUE
      [] driver.offset = "process" -> server = "open"
      [] driver = Supabase -> server \in {"open", "committed"}
      [] driver = HttpRanges -> server \in {"open", "committed"}
      [] driver.write \in {"positional", "append"} -> TRUE
      [] OTHER -> server = "open"

\* What the driver may make of the answer.  A finished session answers an HTTP
\* status check with the object; the driver then reports an offset past any end.
\* An append driver that is not told the size starts from the top.
Probed ==
    CASE driver.offset = "token" -> {noted}
      [] driver = HttpRanges /\ server = "committed" -> {total + 1}
      [] driver.write = "append" -> {held, 0}
      [] OTHER -> {held}

\* Slip: the loop starts where the driver says.
Unclamped(n) == n

Clamped(n) == IF n < total THEN n ELSE total

ProbeReturns ==
    /\ pc = "probing" /\ ProbeAnswers
    /\ \E n \in Probed : Establish(Clamped(n))
    /\ final' = IF driver = HttpRanges /\ server = "committed" THEN "yes" ELSE final
    /\ UNCHANGED <<options, paused, aborted, sigAborted, session, noted, abortPc,
                   callers, tries, answer, provider, wire>>

RejectRun == pc' = "rejected"

EstablishFails ==
    /\ pc \in {"beginning", "probing"}
    /\ RejectRun
    /\ UNCHANGED <<options, control, callers, offset, tries, answer, final,
                   provider, wire>>

CleanupReturns ==
    /\ pc = "cleaning"
    /\ RejectRun
    /\ session' = "none"
    /\ UNCHANGED <<options, paused, aborted, sigAborted, noted, discard, abortPc,
                   callers, offset, tries, answer, final, provider, wire>>

(***************************************************************************)
(* The chunk loop.                                                         *)
(***************************************************************************)

Step(to) ==
    /\ pc' = to
    /\ UNCHANGED <<options, control, callers, offset, answer, final, wire>>

\* The loop test.  complete() of the in-process drivers begins, in the same
\* segment, by looking up the list, and Box drops it there.
LoopHead ==
    /\ pc = "head"
    /\ Step(IF offset < total THEN "gate"
            ELSE IF driver.write = "pushed" /\ server # "open" THEN "rejected"
            ELSE "completing")
    /\ server' = IF offset >= total /\ driver.commit = "dropped" /\ server = "open"
                   THEN "gone" ELSE server
    /\ UNCHANGED <<tries, held, order, object>>

\* pauseGate(state), then the slice of the body is read.
Gate ==
    /\ pc = "gate"
    /\ Step(IF aborted THEN "rejected" ELSE IF paused THEN "parked" ELSE "slicing")
    /\ UNCHANGED <<tries, provider>>

SliceFails ==
    /\ pc = "slicing"
    /\ Step("rejected")
    /\ UNCHANGED <<tries, provider>>

StartAttempt ==
    /\ pc = "slicing"
    /\ Step(IF Cancelled THEN "rejected" ELSE "flight")
    /\ tries' = 0
    /\ UNCHANGED provider

(***************************************************************************)
(* The provider takes a chunk: n bytes of the slice starting at `at`.      *)
(***************************************************************************)

\* Where a write of `n` bytes at `at` leaves what is held, and its order: an
\* append goes to the end wherever it was meant, a list forgets what it held.
HeldAfter(at, n) ==
    CASE driver.write = "append" -> held + n
      [] driver.write = "pushed" -> at + n
      [] OTHER -> IF at + n > held THEN at + n ELSE held

InPlace(at) ==
    IF driver.write \in {"append", "pushed"} THEN at = held ELSE at <= held

\* Whether the provider takes a write at `at` at all.
Takes(at) ==
    CASE driver.write = "checked" -> server = "open" /\ at = held
      [] driver.write = "ranged" -> server \in {"open", "committed"} /\ at <= held
      [] driver.write = "pushed" -> server = "open"
      [] OTHER -> TRUE

\* The write, and the object if this was all that was missing.  Positional writes
\* and appends create the file again when they find none.
Write(at, n) ==
    /\ held' = HeldAfter(at, n)
    /\ order' = IF InPlace(at) THEN order ELSE "lost"
    /\ server' = IF driver.write \in {"positional", "append"}
                   THEN IF server \in {"gone", "stray"} THEN "stray" ELSE "open"
                 ELSE IF driver.commit = "last" /\ at + n = total THEN "committed"
                 ELSE server
    /\ object' = IF driver.commit = "last" /\ at + n = total
                   THEN IF order' = "kept" THEN "whole" ELSE "broken"
                 ELSE IF driver.commit = "inplace"
                   THEN IF held' = total /\ order' = "kept" THEN "whole" ELSE "partial"
                 ELSE object

\* The nextOffset the driver makes of the reply after n bytes were stored.  An
\* open HTTP session answers a middle chunk with what is persisted, unless that
\* is nothing; all other replies only confirm the slice.
AnswerFor(n) ==
    IF driver = HttpRanges /\ ~IsLast
      THEN IF server = "open" /\ HeldAfter(offset, n) > 0
             THEN HeldAfter(offset, n) ELSE NoAnswer
      ELSE IF n = End - offset THEN End ELSE NoAnswer

\* Slip: the chunk is appended whatever the size is.
FitsAlways(at) == TRUE

\* The chunk is appended only to a file of this size.
Fits(at) == held = at

SizeKnown == server \in {"open", "stray"}

\* An append has seen the size it relies upon and has not ended yet.
Writing ==
    /\ driver.write = "append"
    /\ pc = "writing" \/ \E c \in late : c.stage = "writing"

\* The size check of an append lets it go: the size is right, or SIZE fails, as it
\* does when there is no file, and the chunk is appended as it is.  That check
\* guards the write only if no other append is between its check and its end.
Passes(at) ==
    \/ SizeKnown /\ Fits(at) /\ unguarded' = (unguarded \/ Writing)
    \/ unguarded' = (unguarded \/ Writing \/ server = "gone" \/ held # at)

SizeChecked ==
    /\ pc = "flight" /\ driver.write = "append"
    /\ Passes(offset)
    /\ pc' = "writing"
    /\ UNCHANGED <<options, control, callers, offset, tries, answer, final,
                   provider, late>>

\* A list takes the whole chunk at once; elsewhere a connection may break after
\* a part of it, and an HTTP server may confirm having stored none.
ChunkLands(n) ==
    /\ Sending
    /\ n \in 0 .. End - offset
    /\ driver.write = "pushed" => n = End - offset
    /\ Takes(offset)
    /\ Write(offset, n)
    /\ answer' = AnswerFor(n)
    /\ pc' = "landed"
    /\ UNCHANGED <<options, control, callers, offset, tries, final, wire>>

\* Slip: the answer is the offset that was asked for.
SizeDiffersUnsaid ==
    /\ pc = "flight" /\ driver.write = "append"
    /\ SizeKnown /\ ~Fits(offset)
    /\ answer' = offset
    /\ pc' = "landed"
    /\ UNCHANGED <<options, control, callers, offset, tries, final, provider, wire>>

\* uploadAt of an append driver finds another size than it expected: it writes
\* nothing and answers with that size.
SizeDiffers ==
    /\ pc = "flight" /\ driver.write = "append"
    /\ SizeKnown /\ ~Fits(offset)
    /\ answer' = held
    /\ pc' = "landed"
    /\ UNCHANGED <<options, control, callers, offset, tries, final, provider, wire>>

\* The driver's code after the reply: note the offset, keep a finished object.
ReplyArrives ==
    /\ pc = "landed" /\ answer # NoAnswer /\ ~Cancelled
    /\ noted' = IF driver.offset = "token" THEN answer ELSE noted
    /\ final' = IF driver.proof = "required" /\ IsLast THEN "yes" ELSE final
    /\ pc' = "answered"
    /\ UNCHANGED <<options, paused, aborted, sigAborted, session, discard, abortPc,
                   callers, offset, tries, answer, provider, wire>>

\* The loop goes on from the answer; an empty body is done after its one call.
LoopContinues ==
    /\ pc = "answered"
    /\ offset' = answer /\ answer' = NoAnswer
    /\ pc' = "head"
    /\ UNCHANGED <<options, control, callers, tries, final, provider, wire>>

\* The list drivers' calls settle at once: they fail when there is no list.
CallBreaks ==
    \/ driver.write # "pushed"
    \/ pc = "flight" /\ server # "open"
    \/ pc = "landed" /\ Cancelled

\* What may still happen of a call nobody waits for any more: a request may
\* land, a local write of this process too, and its driver may hear the reply.
\* An append goes on as well: an injected client is never closed, and an own
\* connection only by an abort that comes after it was made.
GiveUp(here) ==
    LET asking == pc = "flight" /\ driver.write = "append" /\ here = "yes"
        lands == \/ Sending /\ (Network \/ driver.write = "append")
                 \/ Sending /\ driver.write = "positional" /\ here = "yes"
        heard == pc = "landed" /\ answer # NoAnswer /\ here = "yes" /\ driver.offset = "token"
    IN late' = IF asking \/ lands \/ heard
                 THEN late \cup {[at |-> offset, upTo |-> End, here |-> here,
                                  stage |-> IF asking THEN "asking"
                                            ELSE IF heard THEN "landed" ELSE "writing"]}
                 ELSE late

\* A retryable provider error, whatever was stored: back off, send the same
\* slice to the same offset again.
AttemptRetries ==
    /\ pc \in {"flight", "writing", "landed"} /\ CallBreaks
    /\ tries < MaxRetries /\ ~Cancelled
    /\ tries' = tries + 1 /\ answer' = NoAnswer
    /\ pc' = "backoff"
    /\ GiveUp("no")
    /\ UNCHANGED <<options, control, callers, offset, final, provider, unguarded>>

BackoffElapses ==
    /\ pc = "backoff"
    /\ Step(IF Cancelled THEN "rejected" ELSE "flight")
    /\ UNCHANGED <<tries, provider>>

\* A permanent error, no retries left, the timeout, or an aborted signal.
AttemptFails ==
    /\ pc \in {"flight", "writing", "landed"}
    /\ CallBreaks \/ Cancelled
    /\ RejectRun
    /\ answer' = NoAnswer
    /\ GiveUp("yes")
    /\ UNCHANGED <<options, control, callers, offset, tries, final, provider, unguarded>>

\* An append given up on asks for the size, and goes on or leaves it.
LateSize(c) ==
    /\ c \in late /\ c.stage = "asking"
    /\ \/ Passes(c.at) /\ late' = (late \ {c}) \cup {[c EXCEPT !.stage = "writing"]}
       \/ SizeKnown /\ ~Fits(c.at) /\ late' = late \ {c} /\ UNCHANGED unguarded
    /\ UNCHANGED <<options, control, callers, loop, provider>>

\* A call given up on lands; of an append, as much as was sent.
LateLands(c, n) ==
    /\ c \in late /\ c.stage = "writing"
    /\ n \in 0 .. c.upTo - c.at
    /\ driver.write # "append" => n = c.upTo - c.at
    /\ IF Takes(c.at)
         THEN /\ Write(c.at, n)
              /\ late' = (late \ {c}) \cup
                           IF c.here = "yes" /\ driver.offset = "token"
                             THEN {[c EXCEPT !.stage = "landed"]} ELSE {}
         ELSE /\ late' = late \ {c}
              /\ UNCHANGED provider
    /\ UNCHANGED <<options, control, callers, loop, unguarded>>

\* Its reply is heard after all: nobody awaits it, but the driver notes it.
LateReply(c) ==
    /\ c \in late /\ c.stage = "landed"
    /\ late' = late \ {c}
    /\ noted' = c.upTo
    /\ UNCHANGED <<options, paused, aborted, sigAborted, session, discard, abortPc,
                   callers, loop, provider, unguarded>>

(***************************************************************************)
(* Finishing.                                                              *)
(***************************************************************************)

\* The drivers whose complete() makes the object of what is held.  A write to the
\* file that was given up on is over before a later run has come to rename it.
CompleteLands ==
    /\ pc = "completing" /\ server # "committed"
    /\ driver.commit \in {"complete", "dropped"}
    /\ driver.write = "positional" => server = "open"
    /\ server' = "committed"
    /\ object' = IF held = total /\ order = "kept" THEN "whole" ELSE "broken"
    /\ IF driver.write = "positional"
         THEN held' = 0 /\ late' = {}
         ELSE UNCHANGED <<held, late>>
    /\ UNCHANGED <<options, control, callers, loop, order, unguarded>>

Completed ==
    CASE driver.commit \in {"complete", "dropped"} -> server = "committed"
      [] driver.commit = "inplace" -> server = "open"
      [] OTHER -> driver.proof = "required" => final = "yes"

CompleteReturns ==
    /\ pc = "completing" /\ Completed
    /\ Step("resolved")
    /\ UNCHANGED <<tries, provider>>

\* complete() rejects.  A rename that took effect is reported; of an upload that
\* took effect the client may not hear, and the list is kept for another try
\* unless the driver dropped it first.
CompleteFails ==
    /\ pc = "completing"
    /\ driver.commit = "last" => ~Completed
    /\ driver.write = "positional" => server # "committed"
    /\ Step("rejected")
    /\ server' = IF driver.commit = "complete" /\ server = "committed" THEN "open" ELSE server
    /\ UNCHANGED <<tries, held, order, object>>

\* What discard() removes; after an append driver that is the file itself, which
\* may take it from under an append.
DiscardLands ==
    /\ abortPc = "discarding" \/ pc = "cleaning"
    /\ \/ driver.cancel = "session" /\ server = "open" /\ UNCHANGED object
       \/ driver.cancel = "object" /\ server \in {"open", "committed", "stray"}
            /\ object' = "absent"
    /\ server' = "gone"
    /\ IF driver.write = "pushed" THEN UNCHANGED <<held, order>>
                                 ELSE held' = 0 /\ order' = "kept"
    /\ unguarded' = (unguarded \/ Writing)
    /\ UNCHANGED <<options, control, callers, loop, late>>

(***************************************************************************)
(* The specification.                                                      *)
(***************************************************************************)

User == Pause \/ Resume \/ Abort \/ SignalAbort \/ Persist \/ ResumeHere \/ Crash \/ Upload

Attempt ==
    \/ StartAttempt \/ ReplyArrives \/ AttemptRetries \/ BackoffElapses \/ AttemptFails

Run ==
    \/ BeginReturns \/ ProbeReturns \/ EstablishFails \/ CleanupReturns
    \/ LoopHead \/ Gate \/ SliceFails \/ Attempt \/ LoopContinues
    \/ CompleteReturns \/ CompleteFails

Provide ==
    \/ BeginLands \/ SizeChecked \/ SizeDiffers \/ CompleteLands \/ DiscardLands
    \/ \E n \in 0 .. ChunkSize :
          ChunkLands(n) \/ \E c \in late : LateLands(c, n)
    \/ \E c \in late : LateSize(c) \/ LateReply(c)

Next == User \/ Run \/ AbortReturns \/ Provide

Spec == Init /\ [][Next]_vars

\* A chunk of which the provider stores something.
ChunkProgresses == \E n \in 1 .. ChunkSize : ChunkLands(n)

\* A list takes its chunk within the call.
ListLands == driver.write = "pushed" /\ \E n \in 0 .. ChunkSize : ChunkLands(n)

\* Continuations run and calls settle; a provider that is sent the same chunk
\* again and again does not store nothing of it for ever.
Fairness == WF_vars(Run \/ AbortReturns \/ ListLands) /\ SF_vars(ChunkProgresses)

FairSpec == Spec /\ Fairness

(***************************************************************************)
(* Properties.                                                             *)
(***************************************************************************)

Looping == pc \in {"head", "gate", "parked", "slicing", "flight", "writing",
                   "landed", "answered", "backoff"}

\* Nothing is skipped and nothing doubled: what an open session holds is the
\* beginning of the body, and neither the loop nor the token is ahead of it.  An
\* append driver can promise this only as long as no append went without its
\* guard: without the size, or beside another append that had passed its check.
StreamInOrder ==
    server = "open" /\ ~unguarded =>
        /\ order = "kept" /\ held <= total
        /\ Looping => offset <= held
        /\ noted <= held

\* What is to be found under the key.  A file that is still growing is no object
\* yet; one that discard() deleted is gone for good.
Revoked == aborted /\ driver.cancel = "object"

Stored ==
    CASE object \in {"whole", "broken"} -> object
      [] OTHER -> IF Revoked /\ server = "gone" THEN "withdrawn" ELSE "absent"

Promise == INSTANCE UploadPromise WITH
    outcome <- IF Settled THEN pc ELSE "pending",
    stored  <- Stored,
    revoked <- Revoked

\* Under every driver, the loop with its retries, crashes, resumptions and late
\* calls does what upload() promises: the object appears whole or not at all, a
\* promise resolves only when it has appeared, and only abort() takes it away.
\* Once an append went without its guard, nothing is promised any more.
ImplementsPromise ==
    Promise!Init /\ [][Promise!Next \/ unguarded']_(Promise!pvars)

\* An upload that nobody pauses settles, though the loop counts no rounds: every
\* answer advances it or the provider soon stores something.
OffsetSettles == (pc # "idle") ~> (Settled \/ pc = "idle" \/ paused)

(***************************************************************************)
(* The inductive invariant behind StreamInOrder and ImplementsPromise.     *)
(***************************************************************************)

NotBegun ==
    /\ pc = "idle" /\ session = "none" => aborted \/ server = "none"
    /\ server = "none" =>
        /\ pc \in {"idle", "beginning", "rejected"}
        /\ session = "none" /\ saved = "none" /\ object = "absent"
        /\ noted = 0 /\ savedAt = 0 /\ late = {}

\* Once discarded for good, a session is not resumed.
AbortIsFinal ==
    /\ aborted => saved = "none"
    /\ abortPc = "discarding" \/ pc = "cleaning" => aborted
    /\ server \in {"gone", "stray"} /\ driver.write # "pushed" => aborted

Alive == server \in {"open", "committed"}

\* Only an append goes unguarded, and only an append checks before it writes; a
\* late reply matters to the drivers that keep the offset in the token.
OnlyAppends ==
    /\ unguarded => driver.write = "append"
    /\ pc = "writing" => driver.write = "append"
    /\ \A c \in late : /\ c.stage = "asking" => driver.write = "append"
                       /\ c.stage = "landed" => driver.offset = "token"

LateCalls ==
    /\ driver.write = "pushed" => late = {}
    /\ driver.write = "positional" /\ server = "committed" /\ pc = "completing"
         => late = {}
    /\ \A c \in late :
          /\ c.at <= c.upTo /\ c.upTo <= total
          /\ Alive => c.at <= held
          /\ Alive /\ c.stage = "landed" => c.upTo <= held

\* Guarded appends that have passed their check: one at a time, and its check
\* still stands.
AppendsApart ==
    driver.write = "append" =>
        /\ server # "stray"
        /\ pc = "writing" => /\ server = "open" /\ offset = held
                            /\ \A c \in late : c.stage # "writing"
        /\ \A c \in late : c.stage = "writing" => server = "open" /\ c.at = held
        /\ \A c, d \in late : c.stage = "writing" /\ d.stage = "writing" => c = d

\* The loop, the answers and the tokens are behind what is held.
Behind ==
    /\ driver.offset # "token" => noted = 0 /\ savedAt = 0
    /\ Alive => /\ order = "kept" /\ held <= total
                /\ noted <= held /\ savedAt <= held
                /\ Looping => offset <= held
                /\ pc \in {"landed", "answered"} => answer <= held
    /\ pc = "landed" /\ driver.offset = "token" => answer \in {NoAnswer, End}
    /\ pc \in {"completing", "resolved"} => offset = total
    /\ pc = "completing" /\ server = "open" => held = total

\* A list is exactly as long as the loop believes.
ListInStep ==
    driver.write = "pushed" =>
        /\ server = "committed" => ~Looping
        /\ server = "open" =>
              /\ pc = "beginning" => held = 0
              /\ Looping /\ pc \notin {"landed", "answered"} => offset = held
              /\ pc \in {"landed", "answered"} => answer = held
        /\ pc = "completing" /\ server # "committed" => held = total /\ order = "kept"

\* A run that comes back to a file already renamed starts a new one.
Renamed ==
    driver.write = "positional" /\ server = "committed" =>
        /\ held = 0 /\ pc \notin {"landed", "answered"}
        /\ pc = "head" => offset < total

\* What a driver that needs no complete() has sent to the end is there.
Delivered == object = "whole" \/ (aborted /\ driver.cancel = "object" /\ server = "gone")

SentToTheEnd ==
    driver.commit \in {"last", "inplace"} =>
        /\ pc \in {"head", "completing", "resolved"} /\ offset = total => Delivered
        /\ pc \in {"landed", "answered"} /\ answer = total => Delivered

ObjectWhole ==
    /\ object # "broken"
    /\ driver.commit # "inplace" /\ server = "committed" => object = "whole"
    /\ driver.commit = "last" =>
          /\ server = "committed" => held = total
          /\ server = "open" /\ total > 0 => held < total
    /\ driver.commit = "inplace" =>
          /\ server # "committed"
          /\ server = "open" /\ total > 0 /\ held = total => object = "whole"
          /\ object = "whole" => held = total
    /\ driver.commit \in {"complete", "dropped"} /\ pc = "resolved" => object = "whole"

InOrder ==
    /\ LateCalls /\ AppendsApart /\ Behind /\ ListInStep
    /\ Renamed /\ SentToTheEnd /\ ObjectWhole

IInv ==
    /\ TypeOK /\ driver \in Drivers
    /\ NotBegun /\ AbortIsFinal /\ OnlyAppends
    /\ ~unguarded => InOrder
=============================================================================
