--------------------------- MODULE FilesMoveProofs ---------------------------
(***************************************************************************)
(* What FilesMove guarantees for every number of calls and retries, over   *)
(* every adapter.                                                          *)
(*                                                                         *)
(* The object is at one of the two keys because a delete is only ever sent *)
(* after a copy landed, and because a file at the destination is replaced  *)
(* or cleared away only for one with a higher number: Evidence says what   *)
(* the place a closure has reached proves about the bucket, and each of    *)
(* these facts is stable under the steps of every other closure. Alone     *)
(* says what is at the destination while no closure was left running.      *)
(***************************************************************************)
EXTENDS FilesMove, TLAPS

AtTarget == {"moveLanded", "copyLanded", "clearSent", "clearLanded", "copied",
             "deleteSent", "deleteLanded"}
Unlinked == {"moveLanded", "deleteLanded"}
Requests == {"moveSent", "readSent", "readLanded", "copySent"} \cup AtTarget
Ended == {"off", "ok"} \cup Codes

HasCopy(t) == \E n \in t : n > 0
Single(t) == \A m, n \in t : m = n

\* What a closure at x that moves m and has found f tells of the source s and the
\* destination t.
Evidence(x, m, f, s, t) ==
    /\ x \in Requests => m = <<Source, Target>>
    /\ x \in AtTarget => HasCopy(t)
    /\ x \in Unlinked => ~s
    /\ x = "ok" /\ m[1] # m[2] => m = <<Source, Target>> /\ HasCopy(t) /\ ~s
    /\ x = "NotFound" => m = <<Source, Target>> /\ HasCopy(t) /\ ~s
    /\ x \in {"readLanded", "copySent"} => \A n \in f : \E k \in t : k >= n
    /\ x \in {"copyLanded", "clearSent"} => \A n \in f : \E k \in t : k > n

\* What it tells of a destination that nobody else works on.
Alone(x, m, f, t) ==
    /\ x \notin {"moveSent", "moveLanded"}
    /\ x \in {"readLanded", "copySent"} => t = f
    /\ x \in {"copyLanded", "clearSent"} => Single(t \ f)
    /\ x \in {"clearLanded", "copied", "deleteSent", "deleteLanded"} => Single(t)
    /\ x = "ok" /\ m[1] # m[2] => Single(t)

\* How far #run is with a call.
Runs(c) ==
    /\ c > made => pc[c] = "idle" /\ chain[c] = "off" /\ error[c] = "none"
    /\ c < made => SettledCall(c)
    /\ pc[c] = "resolved" => chain[c] = "ok"
    /\ pc[c] = "backoff" => chain[c] = "Provider"
    /\ pc[c] = "rejected" => error[c] = "aborted" \/ (error[c] = chain[c] /\ chain[c] \in Codes)
    /\ pc[c] # "rejected" => error[c] = "none"
    /\ signal[c] = "aborted" <=> error[c] = "aborted"
    /\ chain[c] = "aborted" => signal[c] = "aborted"

Quiet == \A c \in Calls : error[c] # "aborted"

\* The files an adapter can have at the destination.
Files ==
    /\ adapter.by = "looks" => \A n \in target : n <= copies
    /\ adapter.by # "looks" => target \subseteq {0, 1} /\ Single(target) /\ \A c \in Calls : found[c] = {}
    /\ \A c \in Calls : Single(found[c])

IInv ==
    /\ TypeOK
    /\ Files
    /\ NeverLost
    /\ \A c \in Calls : Runs(c)
    /\ \A c \in Calls : Evidence(chain[c], move[c], found[c], atSource, target)
    /\ adapter.by = "looks" /\ Quiet =>
          \A c \in Calls : Alone(chain[c], move[c], found[c], target)

Behaviours ==
    [by : {"rename", "server", "reads", "looks"}, taken : {"replaced", "Conflict", "Provider"},
     missing : {"ok", "NotFound"}, cancels : BOOLEAN]

LEMMA AdaptersTyped == Adapters \subseteq Behaviours
<1>1. S3 \in Behaviours
  BY DEF S3, Behaviours
<1>2. R2Http \in Behaviours
  BY <1>1 DEF R2Http, Behaviours
<1>3. Gcs \in Behaviours /\ Box \in Behaviours /\ OneDrive \in Behaviours
      /\ R2Binding \in Behaviours /\ Memory \in Behaviours
  BY <1>2 DEF Gcs, Box, OneDrive, R2Binding, Memory, Behaviours
<1>4. PocketBase \in Behaviours /\ GoogleDrive \in Behaviours /\ Ftp \in Behaviours
  BY <1>1 DEF PocketBase, GoogleDrive, Ftp, Behaviours
<1>5. Appwrite \in Behaviours /\ Sftp \in Behaviours
  BY <1>3, <1>4 DEF Appwrite, Sftp, Behaviours
<1>6. QED
  BY <1>1, <1>2, <1>3, <1>4, <1>5 DEF Adapters, Azure, VercelBlob, Firebase, Dropbox, Supabase,
     BunS3, Bunny, Netlify, Fs, Cloudinary

\* The bucket only moves forward: the source never comes back, and a file of the
\* destination gives way only to a later one.
Forward(s, t, s2, t2) ==
    /\ s2 => s
    /\ t \subseteq Nat /\ t2 \subseteq Nat
    /\ \A k \in t : \E j \in t2 : j >= k

\* Evidence survives whatever the other closures do.
LEMMA EvidenceStable ==
    ASSUME NEW x, NEW m, NEW f \in SUBSET Nat, NEW s, NEW t, NEW s2, NEW t2,
           Evidence(x, m, f, s, t), Forward(s, t, s2, t2)
    PROVE  Evidence(x, m, f, s2, t2)
<1>1. HasCopy(t) => HasCopy(t2)
  BY DEF HasCopy, Forward
<1>2. ASSUME NEW n \in f, \E k \in t : k >= n PROVE \E k \in t2 : k >= n
  BY <1>2 DEF Forward
<1>3. ASSUME NEW n \in f, \E k \in t : k > n PROVE \E k \in t2 : k > n
  BY <1>3 DEF Forward
<1>4. QED
  BY <1>1, <1>2, <1>3 DEF Evidence, Forward

\* Without a call given up, every closure but the current call's has ended.
LEMMA OthersEnded ==
    ASSUME IInv, Quiet, NEW c \in Calls, chain[c] \notin Ended
    PROVE  \A d \in Calls : d # c => chain[d] \in Ended
<1>1. ASSUME NEW d \in Calls, d # made PROVE chain[d] \in Ended
  BY <1>1 DEF IInv, TypeOK, Runs, SettledCall, Quiet, Ended, Calls
<1>2. QED
  BY <1>1

\* What a step of one closure has to respect.
ChainStep(c) ==
    /\ UNCHANGED <<caller, runner>>
    /\ chain' = [chain EXCEPT ![c] = chain'[c]]
    /\ chain'[c] \in Chain
    /\ found' = [found EXCEPT ![c] = found'[c]]
    /\ found'[c] \subseteq Nat /\ copies' \in Nat /\ atSource' \in BOOLEAN
    /\ Files'
    /\ Forward(atSource, target, atSource', target')
    /\ Evidence(chain'[c], move[c], found'[c], atSource', target')
    /\ chain[c] \notin Ended
    /\ chain'[c] = "aborted" => signal[c] = "aborted"
    /\ adapter.by = "looks" /\ Quiet => Alone(chain'[c], move[c], found'[c], target')
    /\ adapter.by = "looks" => target' \subseteq target \/ atSource
    /\ atSource' \/ HasCopy(target')

\* Such a step preserves the invariant.
LEMMA ChainStepKeeps ==
    ASSUME IInv, NEW c \in Calls, ChainStep(c)
    PROVE  IInv'
<1>1. TypeOK'
  BY DEF IInv, TypeOK, ChainStep, Forward, caller, runner
<1>2. \A d \in Calls : d # c => chain'[d] = chain[d] /\ found'[d] = found[d]
  BY DEF IInv, TypeOK, ChainStep
<1>3. \A d \in Calls : found[d] \in SUBSET Nat
  BY DEF IInv, TypeOK
<1>4. \A d \in Calls : Evidence(chain'[d], move'[d], found'[d], atSource', target')
  <2>1. ASSUME NEW d \in Calls, d # c
        PROVE  Evidence(chain'[d], move'[d], found'[d], atSource', target')
    <3>1. Evidence(chain[d], move[d], found[d], atSource, target)
      BY DEF IInv
    <3>2. Evidence(chain[d], move[d], found[d], atSource', target')
      BY <1>3, <3>1, EvidenceStable DEF ChainStep
    <3>3. QED
      BY <1>2, <2>1, <3>2 DEF ChainStep, caller
  <2>2. QED
    BY <2>1 DEF ChainStep, caller
<1>5. \A d \in Calls : Runs(d)'
  BY <1>2 DEF IInv, Runs, ChainStep, caller, runner, Ended, Codes, SettledCall
<1>6. ASSUME adapter'.by = "looks", Quiet', NEW d \in Calls
      PROVE  Alone(chain'[d], move'[d], found'[d], target')
  <2>1. adapter.by = "looks" /\ Quiet
    BY <1>6 DEF ChainStep, Quiet, caller, runner
  <2>2. CASE d = c
    BY <2>1, <2>2 DEF ChainStep, caller
  <2>3. CASE d # c
    <3>1. chain'[d] \in Ended
      BY <1>2, <2>1, <2>3, OthersEnded DEF ChainStep
    <3>2. Alone(chain[d], move[d], found[d], target)
      BY <2>1 DEF IInv
    <3>3. ASSUME chain[d] = "ok", move[d][1] # move[d][2] PROVE Single(target')
      <4>1. ~atSource
        BY <3>3 DEF IInv, Evidence
      <4>2. Single(target) /\ target' \subseteq target
        BY <2>1, <3>2, <3>3, <4>1 DEF Alone, ChainStep
      <4>3. QED
        BY <4>2 DEF Single
    <3>4. QED
      BY <1>2, <2>3, <3>1, <3>3 DEF Alone, ChainStep, caller, Ended, Codes
  <2>4. QED
    BY <2>2, <2>3
<1>7. NeverLost'
  BY DEF ChainStep, NeverLost, Moved, HasCopy
<1>8. QED
  BY <1>1, <1>4, <1>5, <1>6, <1>7 DEF IInv, ChainStep

\* What the invariant says of one closure at work.
LEMMA AtWork ==
    ASSUME IInv, NEW c \in Calls, chain[c] \in Requests
    PROVE  /\ move[c] = <<Source, Target>> /\ From(c) = Source /\ To(c) = Target /\ Source # Target
           /\ chain[c] \notin Ended
           /\ chain \in [Calls -> Chain] /\ found \in [Calls -> SUBSET Nat] /\ found[c] \in SUBSET Nat
           /\ target \subseteq Nat /\ copies \in Nat /\ atSource \in BOOLEAN
           /\ Files /\ NeverLost
           /\ Evidence(chain[c], move[c], found[c], atSource, target)
           /\ adapter.by = "looks" /\ Quiet => Alone(chain[c], move[c], found[c], target)
<1>1. move[c] = <<Source, Target>>
  BY DEF IInv, Evidence
<1>2. chain[c] \notin Ended
  BY DEF Requests, AtTarget, Ended, Codes
<1>3. QED
  BY <1>1, <1>2, KeysAssumption DEF IInv, TypeOK, From, To

\* A step that leaves the bucket and what was found alone.
LEMMA QuietStep ==
    ASSUME IInv, NEW c \in Calls, chain[c] \in Requests, NEW x \in Chain,
           ChainTo(c, x), UNCHANGED <<bucket, found, caller, runner>>,
           Evidence(x, move[c], found[c], atSource, target),
           x = "aborted" => signal[c] = "aborted",
           adapter.by = "looks" /\ Quiet => Alone(x, move[c], found[c], target)
    PROVE  IInv'
<1>1. chain' = [chain EXCEPT ![c] = x] /\ chain'[c] = x /\ found'[c] = found[c]
  BY AtWork DEF ChainTo
<1>2. Forward(atSource, target, atSource', target')
  BY AtWork DEF Forward, bucket
<1>3. found' = [found EXCEPT ![c] = found'[c]]
  BY AtWork, <1>1 DEF bucket
<1>4. Files'
  BY AtWork DEF Files, bucket, caller
<1>5. ChainStep(c)
  BY <1>1, <1>2, <1>3, <1>4, AtWork DEF ChainStep, bucket, NeverLost, Moved, HasCopy
<1>6. QED
  BY <1>5, ChainStepKeeps

LEMMA ThrowKeeps ==
    ASSUME IInv, NEW c \in Calls, chain[c] \in Requests, NEW x \in {"NotFound", "Conflict", "Provider"},
           ChainTo(c, x), UNCHANGED <<bucket, found, caller, runner>>,
           x = "NotFound" => ~atSource
    PROVE  IInv'
<1>1. Evidence(x, move[c], found[c], atSource, target)
  BY AtWork DEF Evidence, NeverLost, Moved, HasCopy, Requests, AtTarget, Unlinked
<1>2. Alone(x, move[c], found[c], target)
  BY DEF Alone
<1>3. QED
  BY <1>1, <1>2, QuietStep DEF Chain, Codes

\* Sending the next request, or giving up because of the signal.
LEMMA SendKeeps ==
    ASSUME IInv, NEW c \in Calls, chain[c] \in Requests, NEW x \in Chain,
           Send(c, x), UNCHANGED <<bucket, found, caller, runner>>,
           x # "aborted", Evidence(x, move[c], found[c], atSource, target),
           adapter.by = "looks" /\ Quiet => Alone(x, move[c], found[c], target)
    PROVE  IInv'
<1>1. CASE adapter.cancels /\ signal[c] = "aborted"
  <2>1. ChainTo(c, "aborted")
    BY <1>1 DEF Send
  <2>2. Evidence("aborted", move[c], found[c], atSource, target) /\ Alone("aborted", move[c], found[c], target)
    BY DEF Evidence, Alone, Requests, AtTarget, Unlinked
  <2>3. QED
    BY <1>1, <2>1, <2>2, QuietStep DEF Chain, Codes
<1>2. CASE ~(adapter.cancels /\ signal[c] = "aborted")
  <2>1. ChainTo(c, x)
    BY <1>2 DEF Send
  <2>2. QED
    BY <2>1, QuietStep
<1>3. QED
  BY <1>1, <1>2

LEMMA RepliesKeep ==
    ASSUME IInv, NEW c \in Calls, Fails(c) \/ Replies(c) \/ SendDelete(c)
    PROVE  IInv'
<1>1. CASE Fails(c)
  BY <1>1, ThrowKeeps DEF Fails, Sent, Landed, Requests, AtTarget
<1>2. CASE Replies(c)
  <2>1. CASE chain[c] = "readLanded"
    <3>1. Send(c, "copySent")
      BY <1>2, <2>1 DEF Replies
    <3>2. chain[c] \in Requests
      BY <2>1 DEF Requests
    <3>3. Evidence("copySent", move[c], found[c], atSource, target)
      BY <2>1, <3>2, AtWork DEF Evidence, Requests, AtTarget, Unlinked
    <3>4. adapter.by = "looks" /\ Quiet => Alone("copySent", move[c], found[c], target)
      BY <2>1, <3>2, AtWork DEF Alone
    <3>5. QED
      BY <1>2, <3>1, <3>2, <3>3, <3>4, SendKeeps DEF Replies, Chain, Sent
  <2>2. CASE chain[c] = "copyLanded" /\ found[c] # {}
    <3>1. Send(c, "clearSent")
      BY <1>2, <2>2 DEF Replies
    <3>2. chain[c] \in Requests
      BY <2>2 DEF Requests, AtTarget
    <3>3. Evidence("clearSent", move[c], found[c], atSource, target)
      BY <2>2, <3>2, AtWork DEF Evidence, Requests, AtTarget, Unlinked
    <3>4. adapter.by = "looks" /\ Quiet => Alone("clearSent", move[c], found[c], target)
      BY <2>2, <3>2, AtWork DEF Alone
    <3>5. QED
      BY <1>2, <3>1, <3>2, <3>3, <3>4, SendKeeps DEF Replies, Chain, Sent
  <2>3. CASE (chain[c] = "copyLanded" /\ found[c] = {}) \/ chain[c] = "clearLanded"
    <3>1. ChainTo(c, "copied") /\ chain[c] \in Requests
      BY <1>2, <2>3 DEF Replies, Requests, AtTarget
    <3>2. Evidence("copied", move[c], found[c], atSource, target)
      BY <2>3, <3>1, AtWork DEF Evidence, Requests, AtTarget, Unlinked
    <3>3. adapter.by = "looks" /\ Quiet => Alone("copied", move[c], found[c], target)
      BY <2>3, <3>1, AtWork DEF Alone, Single
    <3>4. QED
      BY <1>2, <3>1, <3>2, <3>3, QuietStep DEF Replies, Chain
  <2>4. CASE chain[c] \in {"moveLanded", "deleteLanded"}
    <3>1. ChainTo(c, "ok") /\ chain[c] \in Requests
      BY <1>2, <2>4 DEF Replies, Requests, AtTarget
    <3>2. Evidence("ok", move[c], found[c], atSource, target)
      BY <2>4, <3>1, AtWork DEF Evidence, Requests, AtTarget, Unlinked
    <3>3. adapter.by = "looks" /\ Quiet => Alone("ok", move[c], found[c], target)
      BY <2>4, <3>1, AtWork DEF Alone, Single
    <3>4. QED
      BY <1>2, <3>1, <3>2, <3>3, QuietStep DEF Replies, Chain
  <2>5. QED
    BY <1>2, <2>1, <2>2, <2>3, <2>4 DEF Replies
<1>3. CASE SendDelete(c)
  <2>1. chain[c] = "copied" /\ chain[c] \in Requests /\ Send(c, "deleteSent")
    BY <1>3 DEF SendDelete, Requests, AtTarget
  <2>2. Evidence("deleteSent", move[c], found[c], atSource, target)
    BY <2>1, AtWork DEF Evidence, Requests, AtTarget, Unlinked
  <2>3. adapter.by = "looks" /\ Quiet => Alone("deleteSent", move[c], found[c], target)
    BY <2>1, AtWork DEF Alone
  <2>4. QED
    BY <1>3, <2>1, <2>2, <2>3, SendKeeps DEF SendDelete, Chain, Sent
<1>4. QED
  BY <1>1, <1>2, <1>3

LEMMA ReadKeeps == ASSUME IInv, NEW c \in Calls, ReadLands(c) PROVE IInv'
<1>1. chain[c] = "readSent" /\ chain[c] \in Requests
  BY DEF ReadLands, Requests
<1>2. From(c) = Source /\ move[c] = <<Source, Target>>
  BY <1>1, AtWork
<1>3. CASE ~Has(From(c)) /\ Throw(c, "NotFound")
  BY <1>1, <1>2, <1>3, ThrowKeeps DEF ReadLands, Throw, Has
<1>4. CASE Throw(c, "Conflict")
  BY <1>1, <1>4, ThrowKeeps DEF ReadLands, Throw
<1>5. CASE adapter.by = "reads" /\ ChainTo(c, "readLanded") /\ UNCHANGED <<bucket, found>>
  <2>1. found[c] = {}
    BY <1>1, <1>5, AtWork DEF Files
  <2>2. Evidence("readLanded", move[c], found[c], atSource, target)
    BY <1>2, <2>1 DEF Evidence, Requests, AtTarget, Unlinked
  <2>3. QED
    BY <1>1, <1>5, <2>2, QuietStep DEF ReadLands, Chain, Landed
<1>6. CASE /\ adapter.by = "looks" /\ \A m, n \in target : m = n
           /\ found' = [found EXCEPT ![c] = target]
           /\ ChainTo(c, "readLanded")
           /\ UNCHANGED bucket
  <2>1. chain' = [chain EXCEPT ![c] = "readLanded"] /\ chain'[c] = "readLanded" /\ found'[c] = target
    BY <1>1, <1>6, AtWork DEF ChainTo
  <2>2. found' = [found EXCEPT ![c] = found'[c]]
    BY <1>6, <2>1
  <2>3. Files'
    <3>1. \A d \in Calls : Single(found'[d])
      BY <1>1, <1>6, AtWork DEF Files, Single
    <3>2. QED
      BY <1>1, <1>6, <3>1, AtWork DEF Files, ReadLands, caller, bucket
  <2>4. Forward(atSource, target, atSource', target')
    BY <1>1, <1>6, AtWork DEF Forward, bucket
  <2>5. Evidence("readLanded", move[c], target, atSource, target)
    BY <1>1, <1>2, AtWork DEF Evidence, Requests, AtTarget, Unlinked
  <2>6. Alone("readLanded", move[c], target, target)
    BY DEF Alone
  <2>7. ChainStep(c)
    BY <1>1, <1>6, <2>1, <2>2, <2>3, <2>4, <2>5, <2>6, AtWork
       DEF ChainStep, ReadLands, bucket, Chain, Landed, NeverLost, Moved, HasCopy
  <2>8. QED
    BY <2>7, ChainStepKeeps
<1>7. QED
  BY <1>1, <1>3, <1>4, <1>5, <1>6 DEF ReadLands

LEMMA PutKeeps == ASSUME IInv, NEW c \in Calls, PutLands(c) PROVE IInv'
<1> DEFINE x == IF chain[c] = "moveSent" THEN "moveLanded" ELSE "copyLanded"
<1>1. chain[c] \in {"moveSent", "copySent"} /\ chain[c] \in Requests
  BY DEF PutLands, Requests
<1>2. From(c) = Source /\ To(c) = Target /\ move[c] = <<Source, Target>> /\ Source # Target
  BY <1>1, AtWork
<1>3. CASE Refused(c)
  <2>1. CASE ~Has(From(c)) /\ Throw(c, "NotFound")
    BY <1>1, <1>2, <2>1, ThrowKeeps DEF PutLands, Throw, Has
  <2>2. CASE adapter.taken # "replaced" /\ Throw(c, adapter.taken)
    <3>1. adapter.taken \in {"Conflict", "Provider"}
      BY <2>2, AdaptersTyped DEF IInv, TypeOK, Behaviours
    <3>2. QED
      BY <1>1, <2>2, <3>1, ThrowKeeps DEF PutLands, Throw
  <2>3. QED
    BY <1>3, <2>1, <2>2 DEF Refused
<1>4. CASE /\ Has(From(c)) \/ adapter.by = "reads"
           /\ Put(To(c))
           /\ atSource' = (To(c) = Source \/ (atSource /\ chain[c] = "copySent"))
           /\ ChainTo(c, x)
           /\ UNCHANGED found
  <2>1. chain' = [chain EXCEPT ![c] = x] /\ chain'[c] = x /\ x \in {"moveLanded", "copyLanded"}
    BY <1>1, <1>4, AtWork DEF ChainTo
  <2>2. found' = [found EXCEPT ![c] = found'[c]] /\ found'[c] = found[c]
    BY <1>1, <1>4, AtWork
  <2>3. atSource' = (atSource /\ chain[c] = "copySent") /\ UNCHANGED <<caller, runner>>
    BY <1>2, <1>4 DEF PutLands
  <2>4. /\ target' \subseteq Nat /\ copies' \in Nat /\ Files' /\ HasCopy(target')
        /\ \A k \in target : \E j \in target' : j >= k
        /\ x = "copyLanded" => \A n \in found[c] : \E k \in target' : k > n
        /\ adapter.by = "looks" /\ Quiet => Alone(x, move[c], found[c], target')
    <3>1. CASE adapter.by = "looks"
      <4>1. copies' = copies + 1 /\ target' = target \cup {copies + 1}
        BY <1>2, <1>4, <3>1 DEF Put
      <4>2. target' \subseteq Nat /\ copies' \in Nat /\ HasCopy(target')
        BY <1>1, <4>1, AtWork DEF HasCopy
      <4>3. \A n \in target' : n <= copies'
        BY <1>1, <3>1, <4>1, AtWork DEF Files
      <4>4. Files'
        BY <1>1, <1>4, <2>3, <3>1, <4>3, AtWork DEF Files, caller
      <4>5. x = "copyLanded" => \A n \in found[c] : \E k \in target' : k > n
        <5>1. ASSUME chain[c] = "copySent", NEW n \in found[c] PROVE copies + 1 > n
          <6>1. PICK k \in target : k >= n
            BY <1>1, <5>1, AtWork DEF Evidence
          <6>2. n \in Nat /\ k \in Nat /\ k <= copies /\ copies \in Nat
            BY <1>1, <3>1, AtWork DEF Files
          <6>3. QED
            BY <6>1, <6>2
        <5>2. QED
          BY <1>1, <4>1, <5>1
      <4>6. Quiet => Alone(x, move[c], found[c], target')
        <5>1. Quiet => chain[c] = "copySent" /\ target = found[c]
          BY <1>1, <3>1, AtWork DEF Alone
        <5>2. QED
          BY <1>1, <4>1, <5>1 DEF Alone, Single
      <4>7. QED
        BY <1>1, <4>1, <4>2, <4>4, <4>5, <4>6, AtWork
    <3>2. CASE adapter.by # "looks"
      <4>1. copies' = copies /\ target' = {1}
        BY <1>2, <1>4, <3>2 DEF Put
      <4>2. target \subseteq {0, 1} /\ found[c] = {}
        BY <1>1, <3>2, AtWork DEF Files
      <4>3. Files'
        BY <1>1, <1>4, <2>3, <3>2, <4>1, AtWork DEF Files, caller, Single
      <4>4. QED
        BY <1>1, <3>2, <4>1, <4>2, <4>3, AtWork DEF HasCopy
    <3>3. QED
      BY <3>1, <3>2
  <2>5. Forward(atSource, target, atSource', target')
    BY <1>1, <2>3, <2>4, AtWork DEF Forward
  <2>6. Evidence(x, move[c], found[c], atSource', target')
    BY <1>1, <1>2, <2>1, <2>3, <2>4 DEF Evidence, Requests, AtTarget, Unlinked
  <2>7. adapter.by = "looks" => atSource
    BY <1>2, <1>4 DEF Has
  <2>8. ChainStep(c)
    <3>1. x \in Chain /\ x # "aborted" /\ found'[c] \subseteq Nat /\ atSource' \in BOOLEAN /\ chain[c] \notin Ended
      BY <1>1, <2>1, <2>2, <2>3, AtWork DEF Chain, Landed
    <3>2. QED
      BY <2>1, <2>2, <2>3, <2>4, <2>5, <2>6, <2>7, <3>1 DEF ChainStep
  <2>9. QED
    BY <2>8, ChainStepKeeps
<1>5. QED
  BY <1>3, <1>4 DEF PutLands

LEMMA DeletesKeep ==
    ASSUME IInv, NEW c \in Calls, ClearLands(c) \/ DeleteLands(c)
    PROVE  IInv'
<1>1. CASE ClearLands(c)
  <2>1. chain[c] = "clearSent" /\ chain[c] \in Requests
    BY <1>1 DEF ClearLands, Requests, AtTarget
  <2>2. chain' = [chain EXCEPT ![c] = "clearLanded"] /\ chain'[c] = "clearLanded"
    BY <1>1, <2>1, AtWork DEF ClearLands, ChainTo
  <2>3. \A k \in target : \E j \in target' : j >= k
    <3>1. ASSUME NEW k \in target, k \in found[c] PROVE \E j \in target' : j >= k
      <4>1. PICK j \in target : j > k
        BY <2>1, <3>1, AtWork DEF Evidence
      <4>2. j \in Nat /\ k \in Nat /\ j # k
        BY <2>1, <4>1, AtWork
      <4>3. j \notin found[c]
        BY <2>1, <3>1, <4>2, AtWork DEF Files, Single
      <4>4. QED
        BY <1>1, <4>1, <4>2, <4>3 DEF ClearLands
    <3>2. ASSUME NEW k \in target, k \notin found[c] PROVE \E j \in target' : j >= k
      <4>1. k \in target' /\ k \in Nat
        BY <1>1, <2>1, <3>2, AtWork DEF ClearLands
      <4>2. QED
        BY <4>1
    <3>3. QED
      BY <3>1, <3>2
  <2>4. Forward(atSource, target, atSource', target')
    BY <1>1, <2>1, <2>3, AtWork DEF ClearLands, Forward
  <2>5. HasCopy(target')
    <3>1. PICK k \in target : k > 0
      BY <2>1, AtWork DEF Evidence, AtTarget, HasCopy
    <3>2. PICK j \in target' : j >= k
      BY <2>3
    <3>3. j \in Nat /\ k \in Nat
      BY <1>1, <2>1, AtWork DEF ClearLands
    <3>4. QED
      BY <3>1, <3>2, <3>3 DEF HasCopy
  <2>6. Files'
    BY <1>1, <2>1, AtWork DEF ClearLands, Files, caller, Single
  <2>7. Evidence("clearLanded", move[c], found[c], atSource, target')
    BY <2>1, <2>5, AtWork DEF Evidence, Requests, AtTarget, Unlinked
  <2>8. adapter.by = "looks" /\ Quiet => Alone("clearLanded", move[c], found[c], target')
    BY <1>1, <2>1, AtWork DEF ClearLands, Alone
  <2>9. ChainStep(c)
    <3>1. found'[c] = found[c] /\ found' = [found EXCEPT ![c] = found'[c]] /\ target' \subseteq target
      BY <1>1, <2>1, AtWork DEF ClearLands
    <3>2. QED
      BY <1>1, <2>1, <2>2, <2>4, <2>5, <2>6, <2>7, <2>8, <3>1, AtWork
         DEF ClearLands, ChainStep, Chain, Landed
  <2>10. QED
    BY <2>9, ChainStepKeeps
<1>2. CASE DeleteLands(c)
  <2>1. chain[c] = "deleteSent" /\ chain[c] \in Requests
    BY <1>2 DEF DeleteLands, Requests, AtTarget
  <2>2. From(c) = Source /\ Source # Target
    BY <2>1, AtWork
  <2>3. CASE ~Has(From(c)) /\ Throw(c, "NotFound")
    BY <1>2, <2>1, <2>2, <2>3, ThrowKeeps DEF DeleteLands, Throw, Has
  <2>4. CASE /\ atSource' = (atSource /\ From(c) # Source)
             /\ target' = IF From(c) = Target THEN {} ELSE target
             /\ ChainTo(c, "deleteLanded")
             /\ UNCHANGED <<copies, found>>
    <3>1. atSource' = FALSE /\ target' = target
      BY <2>2, <2>4
    <3>2. chain' = [chain EXCEPT ![c] = "deleteLanded"] /\ chain'[c] = "deleteLanded"
      BY <2>1, <2>4, AtWork DEF ChainTo
    <3>3. found'[c] = found[c] /\ found' = [found EXCEPT ![c] = found'[c]]
      BY <2>1, <2>4, AtWork
    <3>4. Forward(atSource, target, atSource', target')
      BY <2>1, <3>1, AtWork DEF Forward
    <3>5. HasCopy(target')
      BY <2>1, <3>1, AtWork DEF Evidence, AtTarget
    <3>6. Files' /\ UNCHANGED <<caller, runner>>
      BY <1>2, <2>1, <2>4, <3>1, AtWork DEF DeleteLands, Files, caller
    <3>7. Evidence("deleteLanded", move[c], found[c], atSource', target')
      BY <2>1, <3>1, <3>5, AtWork DEF Evidence, Requests, AtTarget, Unlinked
    <3>8. adapter.by = "looks" /\ Quiet => Alone("deleteLanded", move[c], found[c], target')
      BY <2>1, <3>1, AtWork DEF Alone
    <3>9. ChainStep(c)
      BY <2>1, <2>4, <3>1, <3>2, <3>3, <3>4, <3>5, <3>6, <3>7, <3>8, AtWork
         DEF ChainStep, Chain, Landed
    <3>10. QED
      BY <3>9, ChainStepKeeps
  <2>5. QED
    BY <1>2, <2>3, <2>4 DEF DeleteLands
<1>3. QED
  BY <1>1, <1>2

\* What a closure knows when it starts.
LEMMA FirstKnows ==
    ASSUME IInv, NEW c \in Calls, NEW m \in Moves
    PROVE  /\ FirstRequest(m) \in {"ok", "moveSent", "copySent", "readSent"}
           /\ Evidence(FirstRequest(m), m, {}, atSource, target)
           /\ Evidence(FirstRequest(m), m, found[c], atSource, target)
           /\ \A f : adapter.by = "looks" => Alone(FirstRequest(m), m, f, target)
<1>1. /\ FirstRequest(m) \in {"ok", "moveSent", "copySent", "readSent"}
      /\ FirstRequest(m) = "ok" <=> m[1] = m[2]
      /\ adapter.by = "looks" => FirstRequest(m) \in {"ok", "readSent"}
      /\ FirstRequest(m) = "copySent" => adapter.by # "looks"
  BY DEF FirstRequest
<1>2. m[1] # m[2] => m = <<Source, Target>>
  BY KeysAssumption DEF Moves
<1>3. FirstRequest(m) = "copySent" => found[c] = {}
  BY <1>1 DEF IInv, Files
<1>4. QED
  BY <1>1, <1>2, <1>3 DEF Evidence, Alone, Requests, AtTarget, Unlinked

LEMMA CallKeeps == ASSUME IInv, Call PROVE IInv'
<1>1. PICK m \in Moves :
         /\ made' = made + 1
         /\ move' = [move EXCEPT ![made'] = m]
         /\ pc' = [pc EXCEPT ![made'] = "trying"]
         /\ chain' = [chain EXCEPT ![made'] = FirstRequest(m)]
  BY DEF Call, ChainTo
<1>2. made' \in Calls /\ made \in Nat
  BY <1>1, BoundsAssumption DEF Call, IInv, TypeOK, Calls
<1>3. FirstRequest(m) \in {"ok", "moveSent", "copySent", "readSent"}
  BY <1>2, FirstKnows
<1>4. /\ pc' \in [Calls -> {"idle", "trying", "backoff", "resolved", "rejected"}]
      /\ chain' \in [Calls -> Chain] /\ move' \in [Calls -> Moves]
  BY <1>1, <1>2, <1>3 DEF IInv, TypeOK, Chain, Sent
<1>5. TypeOK'
  BY <1>1, <1>2, <1>4, BoundsAssumption DEF Call, IInv, TypeOK, Calls, bucket
<1>6. \A d \in Calls : Evidence(chain'[d], move'[d], found'[d], atSource', target')
  <2>1. Evidence(chain'[made'], move'[made'], found'[made'], atSource', target')
    BY <1>1, <1>2, FirstKnows DEF Call, IInv, TypeOK, bucket
  <2>2. \A d \in Calls : d # made' => chain'[d] = chain[d] /\ move'[d] = move[d]
    BY <1>1, <1>2 DEF IInv, TypeOK
  <2>3. QED
    BY <2>1, <2>2 DEF Call, IInv, bucket
<1>7. \A d \in Calls : Runs(d)'
  <2>1. ASSUME NEW d \in Calls, d = made' PROVE Runs(d)'
    <3>1. pc'[d] = "trying" /\ chain'[d] = FirstRequest(m) /\ error'[d] = error[d] /\ signal'[d] = signal[d]
      BY <1>1, <1>2, <2>1 DEF Call, IInv, TypeOK
    <3>2. d > made
      BY <1>1, <1>2, <2>1
    <3>3. QED
      BY <1>1, <1>2, <1>3, <2>1, <3>1, <3>2 DEF IInv, Runs
  <2>2. ASSUME NEW d \in Calls, d # made' PROVE Runs(d)'
    <3>1. pc'[d] = pc[d] /\ chain'[d] = chain[d] /\ error'[d] = error[d] /\ signal'[d] = signal[d]
      BY <1>1, <1>2, <2>2 DEF Call, IInv, TypeOK
    <3>2. (d > made' => d > made) /\ (d < made' => d < made \/ d = made)
      BY <1>1, <1>2, <2>2 DEF Calls
    <3>3. d = made => SettledCall(d)
      BY <1>2 DEF Call, Calls
    <3>4. QED
      BY <3>1, <3>2, <3>3 DEF IInv, Runs, SettledCall
  <2>3. QED
    BY <2>1, <2>2
<1>8. adapter'.by = "looks" /\ Quiet' => \A d \in Calls : Alone(chain'[d], move'[d], found'[d], target')
  <2>1. adapter.by = "looks" => Alone(FirstRequest(m), m, found[made'], target)
    BY <1>2, FirstKnows
  <2>2. \A d \in Calls : d # made' => chain'[d] = chain[d] /\ move'[d] = move[d]
    BY <1>1, <1>2 DEF IInv, TypeOK
  <2>3. chain'[made'] = FirstRequest(m) /\ move'[made'] = m
    BY <1>1, <1>2 DEF IInv, TypeOK
  <2>4. QED
    BY <2>1, <2>2, <2>3 DEF Call, IInv, bucket, Quiet
<1>9. QED
  BY <1>5, <1>6, <1>7, <1>8 DEF Call, IInv, Files, NeverLost, Moved, bucket

\* #run settles a call, or starts the closure again.
LEMMA RunKeeps == ASSUME IInv, NEW c \in Calls, Run(c) PROVE IInv'
<1>1. CASE Resolve(c)
  <2>1. TypeOK'
    BY <1>1 DEF Resolve, IInv, TypeOK, bucket, caller
  <2>2. \A d \in Calls : Runs(d)'
    BY <1>1 DEF Resolve, IInv, TypeOK, caller, Runs, SettledCall
  <2>3. QED
    BY <1>1, <2>1, <2>2 DEF Resolve, IInv, Files, NeverLost, Moved, bucket, caller, Quiet
<1>2. CASE AttemptThrew(c)
  <2>1. TypeOK'
    BY <1>2, BoundsAssumption DEF AttemptThrew, CanRetry, Reject, IInv, TypeOK, Codes, bucket, caller
  <2>2. \A d \in Calls : Runs(d)'
    <3>1. \A d \in Calls : d # c => pc'[d] = pc[d] /\ error'[d] = error[d]
      BY <1>2 DEF AttemptThrew, Reject, IInv, TypeOK
    <3>2. \/ pc'[c] = "backoff" /\ chain[c] = "Provider" /\ error'[c] = error[c]
          \/ pc'[c] = "rejected" /\ error'[c] = chain[c]
      BY <1>2 DEF AttemptThrew, CanRetry, Reject, IInv, TypeOK
    <3>3. Runs(c)'
      BY <1>2, <3>2 DEF AttemptThrew, caller, IInv, Runs, SettledCall, Codes
    <3>4. \A d \in Calls : d # c => Runs(d)'
      BY <1>2, <3>1 DEF AttemptThrew, caller, IInv, Runs, SettledCall
    <3>5. QED
      BY <3>3, <3>4
  <2>3. Quiet' => Quiet
    BY <1>2 DEF AttemptThrew, Reject, Quiet, IInv, TypeOK, Runs
  <2>4. QED
    BY <1>2, <2>1, <2>2, <2>3 DEF AttemptThrew, IInv, Files, NeverLost, Moved, bucket, caller
<1>3. CASE Retry(c)
  <2>1. move[c] \in Moves /\ chain \in [Calls -> Chain] /\ found \in [Calls -> SUBSET Nat]
    BY DEF IInv, TypeOK
  <2>2. FirstRequest(move[c]) \in Chain
    BY <2>1, FirstKnows DEF Chain, Sent
  <2>3. /\ chain' = [chain EXCEPT ![c] = FirstRequest(move[c])]
        /\ found' = [found EXCEPT ![c] = {}]
        /\ pc' = [pc EXCEPT ![c] = "trying"]
    BY <1>3 DEF Retry, ChainTo
  <2>4. TypeOK'
    BY <1>3, <2>2, <2>3 DEF Retry, IInv, TypeOK, bucket, caller
  <2>5. \A d \in Calls : d # c => chain'[d] = chain[d] /\ found'[d] = found[d] /\ pc'[d] = pc[d]
    BY <2>3 DEF IInv, TypeOK
  <2>6. chain'[c] = FirstRequest(move[c]) /\ found'[c] = {} /\ pc'[c] = "trying"
    BY <2>3 DEF IInv, TypeOK
  <2>7. \A d \in Calls : Evidence(chain'[d], move'[d], found'[d], atSource', target')
    BY <1>3, <2>1, <2>5, <2>6, FirstKnows DEF Retry, IInv, bucket, caller
  <2>8. \A d \in Calls : Runs(d)'
    <3>1. Runs(c)'
      BY <1>3, <2>1, <2>6, FirstKnows DEF Retry, IInv, Runs, SettledCall, caller
    <3>2. \A d \in Calls : d # c => Runs(d)'
      BY <1>3, <2>5 DEF Retry, IInv, Runs, SettledCall, caller
    <3>3. QED
      BY <3>1, <3>2
  <2>9. Files'
    BY <1>3, <2>5, <2>6 DEF Retry, IInv, Files, Single, bucket, caller
  <2>10. adapter'.by = "looks" /\ Quiet' => \A d \in Calls : Alone(chain'[d], move'[d], found'[d], target')
    BY <1>3, <2>1, <2>5, <2>6, FirstKnows DEF Retry, IInv, bucket, caller, Quiet
  <2>11. QED
    BY <1>3, <2>4, <2>7, <2>8, <2>9, <2>10 DEF Retry, IInv, NeverLost, Moved, bucket
<1>4. CASE Abort(c)
  <2>1. TypeOK'
    BY <1>4 DEF Abort, Reject, IInv, TypeOK, Codes, bucket, caller
  <2>2. \A d \in Calls : Runs(d)'
    <3>1. \A d \in Calls : d # c => pc'[d] = pc[d] /\ error'[d] = error[d] /\ signal'[d] = signal[d]
      BY <1>4 DEF Abort, Reject, IInv, TypeOK
    <3>2. pc'[c] = "rejected" /\ error'[c] = "aborted" /\ signal'[c] = "aborted" /\ pc[c] # "idle"
      BY <1>4 DEF Abort, Reject, IInv, TypeOK
    <3>3. c <= made
      BY <1>4 DEF Abort, IInv, TypeOK, Runs, Calls
    <3>4. Runs(c)'
      BY <1>4, <3>2, <3>3 DEF Abort, caller, IInv, TypeOK, Runs, SettledCall, Calls
    <3>5. \A d \in Calls : d # c => Runs(d)'
      BY <1>4, <3>1 DEF Abort, caller, IInv, Runs, SettledCall
    <3>6. QED
      BY <3>4, <3>5
  <2>3. ~Quiet'
    BY <1>4 DEF Abort, Reject, IInv, TypeOK, Quiet
  <2>4. QED
    BY <1>4, <2>1, <2>2, <2>3 DEF Abort, IInv, Files, NeverLost, Moved, bucket, caller
<1>5. QED
  BY <1>1, <1>2, <1>3, <1>4 DEF Run

LEMMA InitHolds == Init => IInv
<1> SUFFICES ASSUME Init PROVE IInv
  OBVIOUS
<1>1. TypeOK
  BY BoundsAssumption DEF Init, TypeOK, Moves, Chain
<1>2. Files
  BY DEF Init, Files, Single
<1>3. \A c \in Calls : Runs(c)
  BY BoundsAssumption DEF Init, Runs, Calls
<1>4. \A c \in Calls : /\ Evidence(chain[c], move[c], found[c], atSource, target)
                       /\ Alone(chain[c], move[c], found[c], target)
  BY DEF Init, Evidence, Alone, Requests, AtTarget, Unlinked
<1>5. QED
  BY <1>1, <1>2, <1>3, <1>4 DEF Init, IInv, NeverLost

LEMMA StepKeeps == IInv /\ [Next]_vars => IInv'
<1> SUFFICES ASSUME IInv, [Next]_vars PROVE IInv'
  OBVIOUS
<1>1. CASE Call
  BY <1>1, CallKeeps
<1>2. ASSUME NEW c \in Calls, Run(c) PROVE IInv'
  BY <1>2, RunKeeps
<1>3. ASSUME NEW c \in Calls, Provide(c) PROVE IInv'
  BY <1>3, ReadKeeps, PutKeeps, DeletesKeep, RepliesKeep DEF Provide
<1>4. CASE UNCHANGED vars
  BY <1>4 DEF vars, IInv, TypeOK, Files, NeverLost, Moved, Runs, SettledCall, Quiet
<1>5. QED
  BY <1>1, <1>2, <1>3, <1>4 DEF Next

\* The inductive invariant holds of every reachable state.
THEOREM Invariance == Spec => []IInv
<1>1. QED
  BY InitHolds, StepKeeps, PTL DEF Spec

\* The types of the runner, the closures and the bucket.
THEOREM MoveTyped == Spec => []TypeOK
<1>1. IInv => TypeOK
  BY DEF IInv
<1>2. QED
  BY <1>1, Invariance, PTL

\* No move, retried, timed out or racing its own left-behind closures, loses the
\* object, whatever the adapter does with a destination that exists.
THEOREM MoveNeverLoses == Spec => []NeverLost
<1>1. IInv => NeverLost
  BY DEF IInv
<1>2. QED
  BY <1>1, Invariance, PTL

\* A move that resolved has moved the object, for good, and left nothing else at
\* the destination unless a call was given up.
THEOREM MoveResolvedMoved == Spec => []ResolvedMeansMoved
<1>1. IInv => ResolvedMeansMoved
  <2> SUFFICES ASSUME IInv, NEW c \in Calls, pc[c] = "resolved", From(c) # To(c)
               PROVE  /\ ~atSource /\ Moved
                      /\ (\A d \in Calls : error[d] # "aborted") => \A m, n \in target : m = n
    BY DEF ResolvedMeansMoved
  <2>1. chain[c] = "ok" /\ move[c][1] # move[c][2]
    BY DEF IInv, Runs, From, To
  <2>2. ~atSource /\ Moved
    BY <2>1 DEF IInv, Evidence, HasCopy, Moved
  <2>3. Quiet => Single(target)
    BY <2>1 DEF IInv, Files, Alone
  <2>4. QED
    BY <2>2, <2>3 DEF Quiet, Single
<1>2. QED
  BY <1>1, Invariance, PTL

\* NotFound is only reported once the object is at the destination.
THEOREM MoveNotFoundMoved == Spec => []NotFoundMeansMoved
<1>1. IInv => NotFoundMeansMoved
  <2> SUFFICES ASSUME IInv, NEW c \in Calls, error[c] = "NotFound" PROVE ~atSource /\ Moved
    BY DEF NotFoundMeansMoved
  <2>1. chain[c] = "NotFound"
    BY DEF IInv, Runs
  <2>2. QED
    BY <2>1 DEF IInv, Evidence, HasCopy, Moved
<1>2. QED
  BY <1>1, Invariance, PTL

\* Only an attempt that ended with a provider error is followed by another one.
THEOREM MoveRetriesProviderErrors == Spec => OnlyProviderErrorsRetried
<1> DEFINE Rule == \A c \in Calls : pc[c] # "backoff" /\ pc'[c] = "backoff" => chain[c] = "Provider"
<1>1. IInv /\ [Next]_vars => [Rule]_vars
  <2> SUFFICES ASSUME IInv, Next PROVE Rule
    BY DEF Rule
  <2>1. CASE Call
    BY <2>1 DEF Call, IInv, TypeOK
  <2>2. ASSUME NEW c \in Calls, Run(c) PROVE Rule
    <3>1. CASE Resolve(c)
      BY <3>1 DEF Resolve, IInv, TypeOK
    <3>2. CASE AttemptThrew(c)
      BY <3>2 DEF AttemptThrew, CanRetry, Reject, IInv, TypeOK
    <3>3. CASE Retry(c)
      BY <3>3 DEF Retry, IInv, TypeOK
    <3>4. CASE Abort(c)
      BY <3>4 DEF Abort, Reject, IInv, TypeOK
    <3>5. QED
      BY <2>2, <3>1, <3>2, <3>3, <3>4 DEF Run
  <2>3. ASSUME NEW c \in Calls, Provide(c) PROVE Rule
    BY <2>3 DEF Provide, ReadLands, PutLands, ClearLands, DeleteLands, Fails, Replies, SendDelete, runner
  <2>4. QED
    BY <2>1, <2>2, <2>3 DEF Next
<1>2. QED
  BY <1>1, Invariance, PTL DEF Spec, OnlyProviderErrorsRetried

\* An adapter that looks at the signal sends nothing for a call that was given up.
THEOREM NothingSentAfterAbort == Spec => NoRequestAfterAbort
<1> DEFINE Rule == \A c \in Calls :
             adapter.cancels /\ chain[c] # chain'[c] /\ chain'[c] \in Sent => error[c] # "aborted"
<1>1. IInv /\ [Next]_vars => [Rule]_vars
  <2> SUFFICES ASSUME IInv, Next PROVE Rule
    BY DEF Rule
  <2>1. CASE Call
    <3>1. PICK x : chain' = [chain EXCEPT ![made'] = x] /\ made' = made + 1 /\ made \in Nat
      <4>1. PICK m \in Moves : chain' = [chain EXCEPT ![made'] = FirstRequest(m)] /\ made' = made + 1
        BY <2>1 DEF Call, ChainTo
      <4>2. made \in Nat
        BY BoundsAssumption DEF IInv, TypeOK
      <4>3. QED
        BY <4>1, <4>2
    <3>2. \A c \in Calls : chain[c] # chain'[c] => c > made
      BY <3>1 DEF IInv, TypeOK
    <3>3. QED
      BY <3>2 DEF IInv, Runs
  <2>2. ASSUME NEW c \in Calls, Run(c) PROVE Rule
    <3>1. \A d \in Calls : chain[d] # chain'[d] => d = c /\ pc[c] = "backoff"
      BY <2>2 DEF Run, Resolve, AttemptThrew, Retry, Abort, ChainTo, IInv, TypeOK
    <3>2. QED
      BY <3>1 DEF IInv, Runs
  <2>3. ASSUME NEW c \in Calls, Provide(c) PROVE Rule
    <3>1. \A d \in Calls : d # c => chain'[d] = chain[d]
      BY <2>3 DEF Provide, ReadLands, PutLands, ClearLands, DeleteLands, Fails, Replies, SendDelete,
         Refused, Throw, Send, ChainTo, IInv, TypeOK
    <3>2. chain'[c] \in Sent => ~(adapter.cancels /\ signal[c] = "aborted")
      <4>1. ASSUME NEW x, Send(c, x) PROVE chain'[c] \in Sent => ~(adapter.cancels /\ signal[c] = "aborted")
        BY <4>1 DEF Send, ChainTo, Sent, IInv, TypeOK
      <4>2. CASE Replies(c) \/ SendDelete(c)
        BY <4>1, <4>2 DEF Replies, SendDelete, ChainTo, Sent, IInv, TypeOK
      <4>3. CASE Fails(c) \/ ReadLands(c)
        BY <4>3 DEF Fails, ReadLands, Throw, ChainTo, Sent, IInv, TypeOK
      <4>4. CASE PutLands(c)
        <5>1. adapter.taken \in {"replaced", "Conflict", "Provider"}
          BY AdaptersTyped DEF IInv, TypeOK, Behaviours
        <5>2. QED
          BY <4>4, <5>1 DEF PutLands, Refused, Throw, ChainTo, Sent, IInv, TypeOK
      <4>5. CASE ClearLands(c) \/ DeleteLands(c)
        BY <4>5 DEF ClearLands, DeleteLands, Throw, ChainTo, Sent, IInv, TypeOK
      <4>6. QED
        BY <2>3, <4>2, <4>3, <4>4, <4>5 DEF Provide
    <3>3. error[c] = "aborted" => signal[c] = "aborted"
      BY DEF IInv, Runs, Codes
    <3>4. QED
      BY <3>1, <3>2, <3>3
  <2>4. QED
    BY <2>1, <2>2, <2>3 DEF Next
<1>2. QED
  BY <1>1, Invariance, PTL DEF Spec, NoRequestAfterAbort

(***************************************************************************)
(* AgentTools: how much of an object the download tools hand over.         *)
(***************************************************************************)

Tools == INSTANCE AgentTools

\* Whatever the object's sizes at head() and at the download, the range and the limit asked for,
\* the MCP server hands over at most the limit and refuses only what is or was longer; an
\* executor of a toolbox hands over more just if the object grew past its limit in between.
THEOREM CapsKeep ==
    ASSUME NEW was \in Nat, NEW is \in Nat, NEW maxBytes \in Nat,
           NEW range \in [start : Nat, end : Nat \cup {Tools!ToTheEnd}]
    PROVE  LET mcp == Tools!McpDownload(was, is, range, maxBytes)
               limit == Tools!CapOf(maxBytes, Tools!McpDefault)
               executor == Tools!ExecuteDownload(was, is, maxBytes)
               cap == Tools!CapOf(maxBytes, Tools!ExecutorDefault)
           IN  /\ mcp.told <= limit /\ mcp.told <= Tools!MaxDownload
               /\ mcp.refused = "size" =>
                     Tools!SliceLength(was, range) > limit \/ Tools!SliceLength(is, range) > limit
               /\ mcp.refused = "no" => mcp.told = Tools!SliceLength(is, range)
               /\ range = Tools!WholeObject => Tools!SliceLength(is, range) = is
               /\ mcp.pulled > limit => is # was
               /\ executor.told > cap <=> cap <= Tools!MaxDownload /\ was <= cap /\ is > cap
               /\ was = is => executor.pulled <= Tools!MaxDownload
<1> DEFINE before == Tools!SliceLength(was, range)
           now == Tools!SliceLength(is, range)
           limit == Tools!CapOf(maxBytes, Tools!McpDefault)
           cap == Tools!CapOf(maxBytes, Tools!ExecutorDefault)
<1>1. /\ before \in Nat /\ now \in Nat /\ (was = is => before = now)
    <2>1. range.start \in Nat /\ (range.end \in Nat \/ range.end = -1)
        BY DEF Tools!ToTheEnd
    <2>2. QED
        BY <2>1 DEF Tools!SliceLength, Tools!ToTheEnd
<1>2. range = Tools!WholeObject => now = is
    BY DEF Tools!SliceLength, Tools!ToTheEnd, Tools!WholeObject
<1>3. limit \in Nat /\ cap \in Nat
    BY DEF Tools!CapOf, Tools!McpDefault, Tools!MaxDownload, Tools!ExecutorDefault
<1> HIDE DEF before, now, limit, cap
<1>4. Tools!McpDownload(was, is, range, maxBytes) =
         CASE limit > 3 -> Tools!HandedOver("cap", 0, 0)
           [] limit <= 3 /\ before > limit -> Tools!HandedOver("size", 0, 0)
           [] OTHER -> IF now > limit THEN Tools!HandedOver("size", now, 0)
                       ELSE Tools!HandedOver("no", now, now)
    BY DEF Tools!McpDownload, Tools!MaxDownload, before, now, limit
<1>5. Tools!ExecuteDownload(was, is, maxBytes) =
         CASE cap > 3 -> Tools!HandedOver("cap", 0, 0)
           [] cap <= 3 /\ was > cap -> Tools!HandedOver("size", 0, 0)
           [] OTHER -> Tools!HandedOver("no", is, is)
    BY DEF Tools!ExecuteDownload, Tools!MaxDownload, cap
<1> DEFINE mcp == Tools!McpDownload(was, is, range, maxBytes)
           executor == Tools!ExecuteDownload(was, is, maxBytes)
<1>6. /\ mcp.told <= limit /\ mcp.told <= 3
      /\ mcp.refused = "size" => before > limit \/ now > limit
      /\ mcp.refused = "no" => mcp.told = now
      /\ mcp.pulled > limit => is # was
    BY <1>1, <1>3, <1>4 DEF Tools!HandedOver
<1>7. /\ executor.told > cap <=> cap <= 3 /\ was <= cap /\ is > cap
      /\ was = is => executor.pulled <= 3
    BY <1>3, <1>5 DEF Tools!HandedOver
<1>8. QED
    BY <1>6, <1>7, <1>2 DEF before, now, limit, cap, Tools!MaxDownload

=============================================================================
