------------------------------ MODULE FilesMove ------------------------------
(***************************************************************************)
(* Files.move() under Files.#run (index.ts, internal/retry.ts): attempts,  *)
(* retries of provider errors, timeouts and aborts, around the #move       *)
(* closure, which renames natively or copies and then deletes, over the    *)
(* copy, delete and move of each adapter.                                  *)
(*                                                                         *)
(* runWithSignal rejects the attempt as soon as its signal aborts, but the *)
(* closure it started is not stopped: it goes on in the background, and    *)
(* with it the delete that follows a copy.                                 *)
(***************************************************************************)
EXTENDS Integers

CONSTANTS
    Source,        \* the key that holds the object at first
    Target,        \* the key it is to be moved to
    MaxCalls,      \* bound: calls the caller makes, one after the other
    MaxRetries     \* retries per call

ASSUME KeysAssumption == Source # Target
ASSUME BoundsAssumption == MaxCalls \in Nat \ {0} /\ MaxRetries \in Nat

Calls == 1 .. MaxCalls
Keys == {Source, Target}

\* The moves the caller makes: one move, again after failures, and moves of a key
\* onto itself. (A caller that moves back while a timed-out closure still runs can
\* lose the object: the closure's delete meets the object that came back.)
Moves == {<<Source, Target>>, <<Source, Source>>, <<Target, Target>>}

(***************************************************************************)
(* The adapters, as far as a move can tell them apart:                     *)
(*   by       "rename": it has a move of its own; else how it copies:      *)
(*            "server": one request; "reads": it reads, then writes;       *)
(*            "looks": it looks up which file holds the destination, copies*)
(*            to a new file and deletes the one it had found               *)
(*   taken    what becomes of a destination that exists: "replaced", or    *)
(*            the code with which the provider refuses                     *)
(*   missing  what a delete of a missing key gives: "ok" or "NotFound"     *)
(*   cancels  each request carries the signal and is not sent once it has  *)
(*            aborted                                                      *)
(***************************************************************************)
S3 == [by |-> "server", taken |-> "replaced", missing |-> "ok", cancels |-> TRUE]
Azure == S3
VercelBlob == S3
R2Http == [S3 EXCEPT !.cancels = FALSE]
Gcs == [R2Http EXCEPT !.missing = "NotFound"]
Firebase == Gcs
Box == [R2Http EXCEPT !.taken = "Conflict"]
Dropbox == Box
Supabase == Box
OneDrive == [R2Http EXCEPT !.taken = "Provider"]
R2Binding == [R2Http EXCEPT !.by = "reads"]
BunS3 == R2Binding
Bunny == R2Binding
Netlify == R2Binding
Appwrite == [R2Binding EXCEPT !.taken = "Conflict", !.missing = "NotFound"]
PocketBase == [S3 EXCEPT !.by = "reads", !.taken = "Provider"]
GoogleDrive == [S3 EXCEPT !.by = "looks"]
Memory == [R2Http EXCEPT !.by = "rename"]
Fs == Memory
Cloudinary == Memory
Ftp == [S3 EXCEPT !.by = "rename"]
Sftp == [Ftp EXCEPT !.taken = "Provider"]

Adapters == {S3, Azure, VercelBlob, R2Http, Gcs, Firebase, Box, Dropbox, Supabase, OneDrive,
             R2Binding, BunS3, Bunny, Netlify, Appwrite, PocketBase, GoogleDrive, Memory,
             Fs, Cloudinary, Ftp, Sftp}

VARIABLES
    adapter,   \* the adapter
    atSource,  \* the source holds the object
    target,    \* the files under the destination: 0 is what it held before, a copy of
               \* the object has a number above 0; only adapters that look can have several
    copies,    \* number of copies such an adapter has made
    made,      \* number of calls made
    move,      \* the <<from, to>> of each call
    pc,        \* #run of each call: "idle", "trying", "backoff", "resolved", "rejected"
    error,     \* the code it rejected with
    attempt,   \* attempts already failed
    signal,    \* "live" or "aborted": the merged signal of the current attempt
    chain,     \* the #move closure of the call's latest attempt
    found      \* what that closure found under the destination before it copied

vars == <<adapter, atSource, target, copies, made, move, pc, error, attempt, signal, chain, found>>

\* Where a closure is: a request is "sent", has "landed" at the provider, and its
\* reply lets the closure go on, end "ok", or throw.
Codes == {"NotFound", "Conflict", "Provider", "aborted"}
Sent == {"moveSent", "readSent", "copySent", "clearSent", "deleteSent"}
Landed == {"moveLanded", "readLanded", "copyLanded", "clearLanded", "deleteLanded"}
Chain == {"off", "copied", "ok"} \cup Sent \cup Landed \cup Codes

TypeOK ==
    /\ adapter \in Adapters
    /\ atSource \in BOOLEAN
    /\ copies \in Nat
    /\ target \subseteq Nat
    /\ made \in 0 .. MaxCalls
    /\ move \in [Calls -> Moves]
    /\ pc \in [Calls -> {"idle", "trying", "backoff", "resolved", "rejected"}]
    /\ error \in [Calls -> {"none"} \cup Codes]
    /\ attempt \in [Calls -> 0 .. MaxRetries]
    /\ signal \in [Calls -> {"live", "aborted"}]
    /\ chain \in [Calls -> Chain]
    /\ found \in [Calls -> SUBSET Nat]

Init ==
    /\ adapter \in Adapters
    /\ atSource = TRUE
    /\ target \in {{}, {0}}
    /\ copies = 0
    /\ made = 0
    /\ move = [c \in Calls |-> <<Source, Source>>]
    /\ pc = [c \in Calls |-> "idle"]
    /\ error = [c \in Calls |-> "none"]
    /\ attempt = [c \in Calls |-> 0]
    /\ signal = [c \in Calls |-> "live"]
    /\ chain = [c \in Calls |-> "off"]
    /\ found = [c \in Calls |-> {}]

bucket == <<atSource, target, copies>>
caller == <<adapter, made, move>>
runner == <<pc, error, attempt, signal>>

From(c) == move[c][1]
To(c) == move[c][2]
SettledCall(c) == pc[c] \in {"resolved", "rejected"}

ChainTo(c, x) == chain' = [chain EXCEPT ![c] = x]

\* Slip: the guard for a move onto the same key is missing.
FirstRequestUnguarded(m) ==
    CASE adapter.by = "rename" -> "moveSent"
      [] adapter.by = "server" -> "copySent"
      [] OTHER -> "readSent"

\* #move's first step: nothing for a move onto the same key, else a rename or the
\* copy's first request.
FirstRequest(m) ==
    CASE m[1] = m[2] -> "ok"
      [] m[1] # m[2] /\ adapter.by = "rename" -> "moveSent"
      [] m[1] # m[2] /\ adapter.by = "server" -> "copySent"
      [] OTHER -> "readSent"

\* The caller moves again once the previous call settled.
Call ==
    /\ made < MaxCalls
    /\ made > 0 => SettledCall(made)
    /\ \E m \in Moves :
          /\ made' = made + 1
          /\ move' = [move EXCEPT ![made'] = m]
          /\ pc' = [pc EXCEPT ![made'] = "trying"]
          /\ ChainTo(made', FirstRequest(m))
    /\ UNCHANGED <<adapter, bucket, error, attempt, signal, found>>

(***************************************************************************)
(* The #move closure and the provider.                                     *)
(***************************************************************************)

Throw(c, code) == ChainTo(c, code) /\ UNCHANGED <<bucket, found>>

\* The next request, unless the adapter sees that the signal has aborted.
Send(c, x) == ChainTo(c, IF adapter.cancels /\ signal[c] = "aborted" THEN "aborted" ELSE x)

Has(key) == IF key = Source THEN atSource ELSE target # {}

\* A rename or copy of a missing source, or one the destination is in the way of.
Refused(c) ==
    \/ ~Has(From(c)) /\ adapter.by # "reads" /\ Throw(c, "NotFound")
    \/ Has(To(c)) /\ adapter.taken # "replaced" /\ Throw(c, adapter.taken)

\* Slip: a file that is there is overwritten, and cleared away afterwards.
PutInPlace(key) == target' = {1} /\ UNCHANGED copies

\* The object under its new name: in place of what was there, or as a new file.
Put(key) ==
    IF key = Source THEN UNCHANGED <<target, copies>>
    ELSE IF adapter.by = "looks"
      THEN copies' = copies + 1 /\ target' = target \cup {copies'}
      ELSE target' = {1} /\ UNCHANGED copies

\* What a copy reads first: the source, or which file holds the destination. The
\* source's own id may come from a cache that does not know that it is gone.
ReadLands(c) ==
    /\ chain[c] = "readSent"
    /\ \/ ~Has(From(c)) /\ Throw(c, "NotFound")
       \/ adapter.by = "looks" /\ (\E m, n \in target : m # n) /\ Throw(c, "Conflict")
       \/ /\ adapter.by = "looks" /\ \A m, n \in target : m = n
          /\ found' = [found EXCEPT ![c] = target]
          /\ ChainTo(c, "readLanded")
          /\ UNCHANGED bucket
       \/ /\ adapter.by = "reads" /\ Has(From(c))
          /\ ChainTo(c, "readLanded")
          /\ UNCHANGED <<bucket, found>>
    /\ UNCHANGED <<caller, runner>>

\* The rename or the copy reaches the provider.
PutLands(c) ==
    /\ chain[c] \in {"moveSent", "copySent"}
    /\ \/ Refused(c)
       \/ /\ Has(From(c)) \/ adapter.by = "reads"
          /\ ~Has(To(c)) \/ adapter.taken = "replaced"
          /\ Put(To(c))
          /\ atSource' = (To(c) = Source \/ (atSource /\ chain[c] = "copySent"))
          /\ ChainTo(c, IF chain[c] = "moveSent" THEN "moveLanded" ELSE "copyLanded")
          /\ UNCHANGED found
    /\ UNCHANGED <<caller, runner>>

\* The file that was found before the copy is deleted by its id.
ClearLands(c) ==
    /\ chain[c] = "clearSent"
    /\ target' = target \ found[c]
    /\ ChainTo(c, "clearLanded")
    /\ UNCHANGED <<atSource, copies, found, caller, runner>>

DeleteLands(c) ==
    /\ chain[c] = "deleteSent"
    /\ IF Has(From(c)) \/ adapter.missing = "ok"
         THEN /\ atSource' = (atSource /\ From(c) # Source)
              /\ target' = IF From(c) = Target THEN {} ELSE target
              /\ ChainTo(c, "deleteLanded")
              /\ UNCHANGED <<copies, found>>
         ELSE Throw(c, "NotFound")
    /\ UNCHANGED <<caller, runner>>

\* A request fails without having landed, or its reply is lost after it did.
Fails(c) ==
    /\ chain[c] \in Sent \cup Landed
    /\ ChainTo(c, "Provider")
    /\ UNCHANGED <<bucket, found, caller, runner>>

\* Slip: the copy leaves the file it had found where it is.
RepliesLeavingOldFile(c) ==
    /\ \/ chain[c] = "readLanded" /\ Send(c, "copySent")
       \/ chain[c] \in {"copyLanded", "clearLanded"} /\ ChainTo(c, "copied")
       \/ chain[c] \in {"moveLanded", "deleteLanded"} /\ ChainTo(c, "ok")
    /\ UNCHANGED <<bucket, found, caller, runner>>

Replies(c) ==
    /\ \/ chain[c] = "readLanded" /\ Send(c, "copySent")
       \/ chain[c] = "copyLanded" /\ found[c] # {} /\ Send(c, "clearSent")
       \/ chain[c] = "copyLanded" /\ found[c] = {} /\ ChainTo(c, "copied")
       \/ chain[c] = "clearLanded" /\ ChainTo(c, "copied")
       \/ chain[c] \in {"moveLanded", "deleteLanded"} /\ ChainTo(c, "ok")
    /\ UNCHANGED <<bucket, found, caller, runner>>

\* Slip: the delete is sent without the attempt's signal.
SendDeleteRegardless(c) ==
    /\ chain[c] = "copied"
    /\ ChainTo(c, "deleteSent")
    /\ UNCHANGED <<bucket, found, caller, runner>>

\* The closure goes on to the delete, also when its call has already rejected;
\* only an adapter that looks at the signal refuses it then.
SendDelete(c) ==
    /\ chain[c] = "copied"
    /\ Send(c, "deleteSent")
    /\ UNCHANGED <<bucket, found, caller, runner>>

(***************************************************************************)
(* #run.                                                                   *)
(***************************************************************************)

Reject(c, code) ==
    /\ pc' = [pc EXCEPT ![c] = "rejected"]
    /\ error' = [error EXCEPT ![c] = code]

Resolve(c) ==
    /\ pc[c] = "trying"
    /\ chain[c] = "ok"
    /\ pc' = [pc EXCEPT ![c] = "resolved"]
    /\ UNCHANGED <<bucket, found, caller, error, attempt, signal, chain>>

\* Slip: one attempt too many.
CanRetryOnceMore(c) == attempt[c] <= MaxRetries /\ chain[c] = "Provider"

CanRetry(c) == attempt[c] < MaxRetries /\ chain[c] = "Provider"

\* The attempt threw: back off and try again, or reject.
AttemptThrew(c) ==
    /\ pc[c] = "trying"
    /\ chain[c] \in {"NotFound", "Conflict", "Provider"}
    /\ IF CanRetry(c)
         THEN /\ pc' = [pc EXCEPT ![c] = "backoff"]
              /\ attempt' = [attempt EXCEPT ![c] = @ + 1]
              /\ UNCHANGED error
         ELSE Reject(c, chain[c]) /\ UNCHANGED attempt
    /\ UNCHANGED <<bucket, found, caller, signal, chain>>

Retry(c) ==
    /\ pc[c] = "backoff"
    /\ pc' = [pc EXCEPT ![c] = "trying"]
    /\ ChainTo(c, FirstRequest(move[c]))
    /\ found' = [found EXCEPT ![c] = {}]
    /\ UNCHANGED <<bucket, caller, error, attempt, signal>>

\* Slip: the attempt's timer is cleared once the request is sent.
AbortOnlyInBackoff(c) ==
    /\ pc[c] = "backoff"
    /\ Reject(c, "aborted")
    /\ signal' = [signal EXCEPT ![c] = "aborted"]
    /\ UNCHANGED <<bucket, found, caller, attempt, chain>>

\* The timeout fires or the caller's signal aborts, in an attempt or in the
\* backoff: the call rejects at once and its closure is left behind.
Abort(c) ==
    /\ pc[c] \in {"trying", "backoff"}
    /\ Reject(c, "aborted")
    /\ signal' = [signal EXCEPT ![c] = "aborted"]
    /\ UNCHANGED <<bucket, found, caller, attempt, chain>>

Run(c) == Resolve(c) \/ AttemptThrew(c) \/ Retry(c) \/ Abort(c)
Provide(c) ==
    ReadLands(c) \/ PutLands(c) \/ ClearLands(c) \/ DeleteLands(c)
    \/ Fails(c) \/ Replies(c) \/ SendDelete(c)

Next == Call \/ \E c \in Calls : Run(c) \/ Provide(c)

Spec == Init /\ [][Next]_vars

\* A timeout is configured: its timer fires even if the provider never answers.
TimedSpec == Spec /\ \A c \in Calls : WF_vars(Run(c))

(***************************************************************************)
(* Properties, for a caller that makes the same move, again after failures.*)
(***************************************************************************)

\* The destination holds the object, whatever else it holds.
Moved == \E n \in target : n > 0

\* The object is at one of the keys at every moment, whatever was retried, lost,
\* timed out, or still runs in the background, and whichever copy of which closure
\* was taken for a file to be cleared away.
NeverLost == atSource \/ Moved

\* A move that resolved is done and stays done: the source is gone, the
\* destination holds the object, also while closures of earlier calls still run.
\* It holds nothing else, unless a call was given up and its closure went on.
ResolvedMeansMoved ==
    \A c \in Calls : pc[c] = "resolved" /\ From(c) # To(c)
        => /\ ~atSource /\ Moved
           /\ (\A d \in Calls : error[d] # "aborted") => \A m, n \in target : m = n

\* A move of an existing object that rejects with NotFound has been done, by a
\* request whose reply was lost: the content is at the destination.
NotFoundMeansMoved ==
    \A c \in Calls : error[c] = "NotFound" => ~atSource /\ Moved

\* An aborted or timed-out call, and one that failed with a classified error, is
\* never tried again.
OnlyProviderErrorsRetried ==
    [][\A c \in Calls : pc[c] # "backoff" /\ pc'[c] = "backoff" => chain[c] = "Provider"]_vars

\* A call settles even against a provider that never answers.
CallSettles == \A c \in Calls : pc[c] = "trying" ~> SettledCall(c)

\* On an adapter that looks at the signal, aborting tears the work down: no further
\* request starts for that call. (On one that does not, the closure goes on.)
NoRequestAfterAbort ==
    [][\A c \in Calls : adapter.cancels /\ chain[c] # chain'[c] /\ chain'[c] \in Sent
          => error[c] # "aborted"]_vars

=============================================================================
