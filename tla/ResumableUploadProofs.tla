----------------------- MODULE ResumableUploadProofs -----------------------
(***************************************************************************)
(* Proofs about ResumableUpload, for any number of parts, workers, retries *)
(* and restarts: type correctness, the part list handed to complete(), and *)
(* the refinement of UploadPromise.                                        *)
(***************************************************************************)
EXTENDS ResumableUpload, Sequences, SequenceTheorems, WellFoundedInduction, TLAPS

\* The ways a step changes the program counters keep them program counters.
LEMMA WokenType ==
  ASSUME NEW pcs \in [Workers -> WorkerPc]
  PROVE  Woken(pcs) \in [Workers -> WorkerPc]
BY DEF Woken, WorkerPc

LEMMA WokenHolds ==
  ASSUME TypeOK, NEW w \in Workers, wpc' = Woken(wpc)
  PROVE  Holds(w)' <=> Holds(w)
BY DEF Woken, Holds, TypeOK, WorkerPc

LEMMA PcType ==
  ASSUME NEW pcs \in [Workers -> WorkerPc], NEW w \in Workers,
         NEW pc \in WorkerPc
  PROVE  [pcs EXCEPT ![w] = pc] \in [Workers -> WorkerPc]
OBVIOUS

\* Every action keeps every variable in its type.
LEMMA TypeStep == TypeOK /\ [Next]_vars => TypeOK'
<1> SUFFICES ASSUME TypeOK, [Next]_vars PROVE TypeOK'
  OBVIOUS
<1> USE NumPartsAssumption, MaxRetriesAssumption, MaxRestartsAssumption
<1> USE DEF TypeOK, NoPart, control, orch, workers, callers, provider
<1>same. UNCHANGED wpc => \A w \in Workers : Holds(w)' <=> Holds(w)
  BY DEF Holds
<1>1. CASE Pause
  BY <1>1, <1>same DEF Pause
<1>2. CASE Resume
  <2>1. wpc' \in [Workers -> WorkerPc]
    BY <1>2, WokenType DEF Resume
  <2>2. \A w \in Workers : Holds(w)' <=> Holds(w)
    BY <1>2, WokenHolds DEF Resume
  <2> QED
    <3>1. /\ status' \in {"idle", "uploading", "paused", "completed", "aborted", "error"}
          /\ paused' \in BOOLEAN
      BY <1>2 DEF Resume
    <3>2. \A w \in Workers : Holds(w)' => part'[w] \in Parts
      BY <1>2, <2>2 DEF Resume
    <3>3. UNCHANGED <<session, aborted, discard, orch, part, tries, callers, provider>>
      BY <1>2 DEF Resume
    <3> QED
      BY <2>1, <3>1, <3>2, <3>3
<1>3. CASE Abort
  BY <1>3, WokenType, WokenHolds DEF Abort
<1>4. CASE SignalAbort
  BY <1>4, <1>same DEF SignalAbort
<1>5. CASE Persist
  BY <1>5, <1>same DEF Persist
<1>6. CASE Restart
  <2>1. late' \subseteq Parts
    BY <1>6 DEF Restart, Holds
  <2>4. results' \in [Parts -> Nat]
    BY <1>6 DEF Restart, NoResults
  <2>5. /\ wpc' = EachWorker("off")
        /\ part' \in [Workers -> Parts \cup {NoPart}]
        /\ tries' \in [Workers -> 0 .. MaxRetries]
    BY <1>6 DEF Restart, EachWorker
  <2>6. /\ wpc' \in [Workers -> WorkerPc]
        /\ \A w \in Workers : Holds(w)' => part'[w] \in Parts
    BY <2>5 DEF EachWorker, WorkerPc, Holds
  <2>2. lateList' \subseteq Parts
    BY <1>6 DEF Restart
  <2>3. restarts' \in 0 .. MaxRestarts
    BY <1>6 DEF Restart
  <2> QED
    <3>1. /\ status' = "idle" /\ paused' = FALSE /\ session' = saved
          /\ aborted' = FALSE /\ discard' = "none" /\ run' = "idle"
          /\ committed' = {} /\ next' = 1 /\ failed' = FALSE
          /\ abortPc' = "none" /\ sigAborted' = FALSE
          /\ noted' = savedParts
          /\ UNCHANGED <<driver, saved, savedParts, server, landed, object>>
      BY <1>6 DEF Restart
    <3>2. next' \in 1 .. NumParts + 1
      BY <3>1
    <3> QED
      BY <2>1, <2>2, <2>3, <2>4, <2>5, <2>6, <3>1, <3>2 DEF RunPc
<1>7. CASE Upload
  BY <1>7, <1>same DEF Upload, RunPc
<1>8. CASE BeginReturns
  BY <1>8 DEF BeginReturns, Establish, EachWorker, RunPc, WorkerPc, Holds
<1>9. CASE ProbeReturns
  <2>1. results' \in [Parts -> Nat]
    BY <1>9 DEF ProbeReturns
  <2>2. committed' \subseteq Parts
    BY <1>9 DEF ProbeReturns, Probed
  <2> QED
    BY <1>9, <2>1, <2>2 DEF ProbeReturns, Establish, EachWorker, RunPc, WorkerPc, Holds
<1>10. CASE EstablishFails
  BY <1>10, <1>same DEF EstablishFails, RejectRun, RunPc
<1>11. CASE LateDiscardReturns
  BY <1>11, <1>same DEF LateDiscardReturns, RejectRun, RunPc
<1>12. CASE GateThrew
  BY <1>12, <1>same DEF GateThrew, RejectRun, RunPc
<1>13. CASE WorkersReturn
  <2>1. CASE failed
    BY <1>13, <2>1, <1>same DEF WorkersReturn, RejectRun, RunPc
  <2>2. CASE ~failed
    BY <1>13, <2>2, <1>same DEF WorkersReturn, RunPc
  <2> QED
    BY <2>1, <2>2
<1>14. CASE CompleteReturns
  BY <1>14, <1>same DEF CompleteReturns, RunPc
<1>15. CASE CompleteFails
  BY <1>15, <1>same DEF CompleteFails, RejectRun, RunPc
<1>16. CASE AbortReturns
  BY <1>16, <1>same DEF AbortReturns
<1>17. ASSUME NEW w \in Workers, Work(w) PROVE TypeOK'
  <2> DEFINE Pcs == [Workers -> WorkerPc]
             Held == \A v \in Workers : Holds(v) => part[v] \in Parts
  <2>pcs. /\ MoveWorker(w, "done") => wpc' \in Pcs
          /\ MoveWorker(w, "parked") => wpc' \in Pcs
          /\ MoveWorker(w, "thrown") => wpc' \in Pcs
          /\ MoveWorker(w, "passed") => wpc' \in Pcs
          /\ MoveWorker(w, "slicing") => wpc' \in Pcs
          /\ MoveWorker(w, "flight") => wpc' \in Pcs
          /\ MoveWorker(w, "answered") => wpc' \in Pcs
          /\ MoveWorker(w, "ready") => wpc' \in Pcs
          /\ MoveWorker(w, "backoff") => wpc' \in Pcs
    BY PcType DEF MoveWorker, WorkerPc
  <2>move. ASSUME NEW pc, MoveWorker(w, pc), UNCHANGED part,
                  Holds(w) \/ pc \in {"done", "ready", "thrown"}
           PROVE  Held'
    BY <2>move DEF MoveWorker, Holds
  <2>fail. FailWorker(w) => /\ wpc' \in Pcs
                            /\ failed' = TRUE
                            /\ UNCHANGED part => Held'
    <3>1. Woken(wpc) \in Pcs
      BY WokenType
    <3>2. FailWorker(w) => \A v \in Workers : Holds(v)' => Holds(v)
      BY DEF FailWorker, Woken, Holds
    <3> QED
      BY <3>1, <3>2, PcType DEF FailWorker, WorkerPc
  <2>gate. Gate(w) => /\ wpc' \in Pcs
                      /\ status' \in {"idle", "uploading", "paused",
                                       "completed", "aborted", "error"}
    BY <2>pcs DEF Gate
  <2>1. CASE Claim(w)
    <3>1. PICK p \in Unclaimed :
             next' = p + 1 /\ part' = [part EXCEPT ![w] = p]
      BY <2>1 DEF Claim
    <3>2. p \in Parts /\ p + 1 \in 1 .. NumParts + 1
      BY <3>1 DEF Unclaimed, Parts
    <3>3. next' \in 1 .. NumParts + 1 /\ part' \in [Workers -> Parts \cup {NoPart}]
      BY <3>1, <3>2
    <3>4. tries' \in [Workers -> 0 .. MaxRetries]
      BY <2>1 DEF Claim
    <3>5. \A v \in Workers \ {w} : wpc'[v] = wpc[v] /\ part'[v] = part[v]
      BY <2>1, <3>1 DEF Claim, Gate, MoveWorker
    <3>6. Held'
      BY <3>1, <3>2, <3>5 DEF Holds
    <3> HIDE DEF Held
    <3> QED
      BY <2>1, <2>gate, <3>3, <3>4, <3>6 DEF Claim, Held
  <2>2. CASE NothingLeft(w)
    BY <2>2, <2>pcs, <2>move DEF NothingLeft
  <2>3. CASE Recheck(w)
    <3>1. Held'
      BY <2>3 DEF Recheck, Gate, MoveWorker, Holds
    <3> QED
      BY <2>3, <2>gate, <3>1 DEF Recheck
  <2>4. CASE CheckLatch(w)
    <3>1. wpc' \in Pcs
      BY <2>4, <2>pcs DEF CheckLatch
    <3>2. Held'
      BY <2>4 DEF CheckLatch, MoveWorker, Holds
    <3> QED
      BY <2>4, <3>1, <3>2 DEF CheckLatch
  <2>5. CASE StartAttempt(w)
    <3>1. wpc' \in Pcs /\ failed' \in BOOLEAN
      BY <2>5, <2>pcs, <2>fail DEF StartAttempt
    <3>2. Held'
      BY <2>5, <2>move, <2>fail DEF StartAttempt, Holds
    <3> QED
      BY <2>5, <3>1, <3>2 DEF StartAttempt
  <2>6. CASE SliceFails(w)
    BY <2>6, <2>fail DEF SliceFails
  <2>7. CASE PartAnswered(w)
    BY <2>7, <2>pcs, <2>move DEF PartAnswered, Holds
  <2>8. CASE PartReturns(w)
    <3>1. results' \in [Parts -> Nat]
      BY <2>8 DEF PartReturns, Holds
    <3> QED
      BY <2>8, <2>pcs, <2>move, <3>1 DEF PartReturns
  <2>9. CASE AttemptRetries(w)
    <3>1. tries' \in [Workers -> 0 .. MaxRetries]
      BY <2>9 DEF AttemptRetries
    <3>2. late' \subseteq Parts
      BY <2>9 DEF AttemptRetries, GiveUpCall, Holds
    <3>3. wpc' \in Pcs /\ Held'
      BY <2>9, <2>pcs, <2>move DEF AttemptRetries, Holds
    <3> QED
      BY <2>9, <3>1, <3>2, <3>3 DEF AttemptRetries
  <2>10. CASE BackoffElapses(w)
    <3>1. wpc' \in Pcs /\ failed' \in BOOLEAN
      BY <2>10, <2>pcs, <2>fail DEF BackoffElapses
    <3>2. Held'
      BY <2>10, <2>move, <2>fail DEF BackoffElapses, Holds
    <3> QED
      BY <2>10, <3>1, <3>2 DEF BackoffElapses
  <2>11. CASE AttemptFails(w)
    <3>1. late' \subseteq Parts
      BY <2>11 DEF AttemptFails, GiveUpCall, Holds
    <3> QED
      BY <2>11, <2>fail, <3>1 DEF AttemptFails
  <2> QED
    BY <1>17, <2>1, <2>2, <2>3, <2>4, <2>5, <2>6, <2>7, <2>8, <2>9, <2>10,
       <2>11 DEF Work
<1>18. CASE BeginLands
  BY <1>18, <1>same DEF BeginLands
<1>19. CASE CompleteLands
  BY <1>19, <1>same DEF CompleteLands, Assemble, RunPc
<1>20. CASE LateCompleteLands
  BY <1>20, <1>same DEF LateCompleteLands, Assemble
<1>21. CASE DiscardLands
  BY <1>21, <1>same DEF DiscardLands
<1>22. ASSUME NEW w \in Workers, PartLands(w) PROVE TypeOK'
  <2>1. wpc' \in [Workers -> WorkerPc]
    BY <1>22, PcType DEF PartLands, MoveWorker, WorkerPc
  <2>2. \A v \in Workers : Holds(v)' <=> Holds(v)
    BY <1>22 DEF PartLands, MoveWorker, Holds
  <2>3. landed' \subseteq Parts
    BY <1>22 DEF PartLands, Holds
  <2> QED
    BY <1>22, <2>1, <2>2, <2>3 DEF PartLands
<1>23. ASSUME NEW p \in Parts, LatePartLands(p) PROVE TypeOK'
  BY <1>23, <1>same DEF LatePartLands
<1>24. CASE UNCHANGED vars
  BY <1>24, <1>same DEF vars
<1> QED
  BY <1>1, <1>2, <1>3, <1>4, <1>5, <1>6, <1>7, <1>8, <1>9, <1>10, <1>11, <1>12,
     <1>13, <1>14, <1>15, <1>16, <1>17, <1>18, <1>19, <1>20, <1>21, <1>22,
     <1>23, <1>24 DEF Next, User, Orchestrate, Provide

LEMMA InitTypes == Init => TypeOK
<1> SUFFICES ASSUME Init PROVE TypeOK
  OBVIOUS
<1>1. results \in [Parts -> Nat] /\ next \in 1 .. NumParts + 1
  BY NumPartsAssumption DEF Init, NoResults
<1>2. /\ part \in [Workers -> Parts \cup {NoPart}]
      /\ tries \in [Workers -> 0 .. MaxRetries]
      /\ restarts \in 0 .. MaxRestarts
  BY MaxRetriesAssumption, MaxRestartsAssumption DEF Init, EachWorker, NoPart
<1>3. /\ wpc \in [Workers -> WorkerPc]
      /\ \A w \in Workers : Holds(w) => part[w] \in Parts
  BY DEF Init, EachWorker, WorkerPc, Holds
<1> QED
  BY <1>1, <1>2, <1>3 DEF Init, TypeOK, RunPc

\* Type correctness of the specification.
THEOREM TypeCorrect == Spec => []TypeOK
BY InitTypes, TypeStep, PTL DEF Spec

(***************************************************************************)
(* The accounting of part numbers, by the kind of step that touches it.    *)
(***************************************************************************)

Accounting == ListedOnce /\ HeldParts /\ NoPartForgotten /\ DoneMeansClaimed

\* A step that leaves the pool and the lists alone.
LEMMA AccountingFrame ==
  ASSUME Accounting, UNCHANGED <<committed, results, next, failed, wpc, part>>
  PROVE  Accounting'
BY DEF Accounting, ListedOnce, HeldParts, NoPartForgotten, DoneMeansClaimed, Holds

\* A step that wakes the parked workers.
LEMMA AccountingWoken ==
  ASSUME TypeOK, Accounting, wpc' = Woken(wpc),
         UNCHANGED <<committed, results, next, failed, part>>
  PROVE  Accounting'
<1>1. \A w \in Workers : /\ Holds(w)' <=> Holds(w)
                         /\ wpc'[w] = "thrown" <=> wpc[w] = "thrown"
                         /\ wpc'[w] = "done" <=> wpc[w] = "done"
  BY DEF Woken, Holds, TypeOK, WorkerPc
<1> QED
  BY <1>1 DEF Accounting, ListedOnce, HeldParts, NoPartForgotten, DoneMeansClaimed

\* A worker moves on with the part it holds, or its gate throws.
LEMMA AccountingMove ==
  ASSUME TypeOK, Accounting, NEW w \in Workers, NEW pc, MoveWorker(w, pc),
         Holds(w),
         pc \in {"parked", "passed", "slicing", "flight", "landed", "answered",
                 "backoff", "thrown"},
         UNCHANGED <<committed, results, next, failed, part>>
  PROVE  Accounting'
<1>1. \A v \in Workers : v # w => wpc'[v] = wpc[v]
  BY DEF MoveWorker, TypeOK
<1>2. wpc'[w] = pc
  BY DEF MoveWorker, TypeOK
<1>3. \A v \in Workers : Holds(v)' => Holds(v)
  BY <1>1, <1>2 DEF Holds
<1>4. \A v \in Workers : Holds(v) => Holds(v)' \/ wpc'[v] = "thrown"
  BY <1>1, <1>2 DEF Holds
<1>5. \A v \in Workers : wpc[v] = "thrown" => wpc'[v] = "thrown"
  BY <1>1, <1>2 DEF Holds
<1>6. \A v \in Workers : wpc'[v] = "done" => wpc[v] = "done"
  BY <1>1, <1>2
<1>7. ListedOnce' /\ HeldParts'
  BY <1>3 DEF Accounting, ListedOnce, HeldParts
<1>8. NoPartForgotten'
  BY <1>4, <1>5 DEF Accounting, NoPartForgotten
<1>9. DoneMeansClaimed'
  BY <1>6 DEF Accounting, DoneMeansClaimed
<1> QED
  BY <1>7, <1>8, <1>9 DEF Accounting

\* A worker's failure is latched.
LEMMA AccountingFail ==
  ASSUME TypeOK, Accounting, NEW w \in Workers, FailWorker(w),
         UNCHANGED <<committed, results, next, part>>
  PROVE  Accounting'
<1>1. \A v \in Workers : Holds(v)' => Holds(v)
  BY DEF FailWorker, Woken, Holds, TypeOK
<1>2. failed'
  BY DEF FailWorker
<1> QED
  BY <1>1, <1>2 DEF Accounting, ListedOnce, HeldParts, NoPartForgotten, DoneMeansClaimed

\* A worker claims the smallest part that is left, and comes to the gate.
LEMMA AccountingClaim ==
  ASSUME TypeOK, Accounting, NEW w \in Workers, Claim(w)
  PROVE  Accounting'
<1>1. PICK p \in Unclaimed :
         /\ \A q \in Unclaimed : p <= q
         /\ next' = p + 1
         /\ part' = [part EXCEPT ![w] = p]
  BY DEF Claim
<1>2. PICK pc \in {"parked", "thrown", "passed"} : MoveWorker(w, pc)
  BY DEF Claim, Gate
<1>3. UNCHANGED <<committed, results, failed>> /\ wpc[w] = "ready"
  BY DEF Claim
<1>4. p \in Parts \ committed /\ p >= next /\ results[p] = 0
  BY <1>1 DEF Unclaimed, Parts, Accounting, ListedOnce, TypeOK
<1>5. \A v \in Workers : v # w => wpc'[v] = wpc[v] /\ part'[v] = part[v]
  BY <1>1, <1>2 DEF MoveWorker, TypeOK
<1>6. wpc'[w] = pc /\ part'[w] = p
  BY <1>1, <1>2 DEF MoveWorker, TypeOK
<1>7. ~Holds(w)
  BY <1>3 DEF Holds
<1>8. \A v \in Workers : v # w => (Holds(v)' <=> Holds(v))
  BY <1>5 DEF Holds
<1>n. next \in Nat /\ p \in Nat /\ next' = p + 1 /\ next' > next
  BY <1>1, <1>4 DEF TypeOK, Parts
<1>9. ListedOnce'
  BY <1>3, <1>4, <1>n DEF Accounting, ListedOnce, Parts
<1>10. HeldParts'
  <2>1. ASSUME NEW v \in Workers, Holds(v)'
        PROVE  part'[v] \in Parts \ committed /\ part'[v] < next' /\ results[part'[v]] = 0
    <3>1. CASE v = w
      BY <3>1, <1>4, <1>6, <1>n
    <3>2. CASE v # w
      <4>1. part[v] \in Parts \ committed /\ part[v] < next /\ results[part[v]] = 0
        BY <2>1, <3>2, <1>8 DEF Accounting, HeldParts
      <4> QED
        BY <4>1, <3>2, <1>5, <1>n DEF Parts
    <3> QED
      BY <3>1, <3>2
  <2>2. ASSUME NEW u \in Workers, NEW v \in Workers, Holds(u)', Holds(v)',
               part'[u] = part'[v]
        PROVE  u = v
    <3>1. \A x \in Workers : x # w /\ Holds(x)' => part'[x] < p
      BY <1>4, <1>5, <1>8, <1>n DEF Accounting, HeldParts, Parts
    <3>2. CASE u = w \/ v = w
      BY <2>2, <3>1, <3>2, <1>6, <1>n
    <3>3. CASE u # w /\ v # w
      BY <2>2, <3>3, <1>5, <1>8 DEF Accounting, HeldParts
    <3> QED
      BY <3>2, <3>3
  <2> QED
    BY <2>1, <2>2, <1>3 DEF HeldParts
<1>11. NoPartForgotten'
  <2> SUFFICES ASSUME NEW q \in Parts \ committed, q < p + 1, results[q] = 0, ~failed
               PROVE  \/ \E v \in Workers : wpc'[v] = "thrown"
                      \/ \E v \in Workers : Holds(v)' /\ part'[v] = q
    BY <1>1, <1>3 DEF NoPartForgotten
  <2>1. CASE q < next
    <3>1. \/ \E v \in Workers : wpc[v] = "thrown"
          \/ \E v \in Workers : Holds(v) /\ part[v] = q
      BY <2>1 DEF Accounting, NoPartForgotten
    <3> QED
      BY <3>1, <1>3, <1>5, <1>7, <1>8
  <2>2. CASE ~(q < next)
    <3>1. q \in Unclaimed
      BY <2>2, <1>n DEF Unclaimed, Parts
    <3>2. q = p
      BY <3>1, <1>1, <1>n DEF Parts
    <3> QED
      BY <3>2, <1>2, <1>6 DEF Holds
  <2> QED
    BY <2>1, <2>2
<1>12. DoneMeansClaimed'
  <2> SUFFICES ASSUME NEW v \in Workers, wpc'[v] = "done", ~failed
               PROVE  FALSE
    BY <1>3 DEF DoneMeansClaimed
  <2>1. v # w /\ wpc[v] = "done"
    BY <1>5, <1>6
  <2>2. next = NumParts + 1
    BY <2>1 DEF Accounting, DoneMeansClaimed
  <2> QED
    BY <2>2, <1>4, NumPartsAssumption DEF Parts
<1> QED
  BY <1>9, <1>10, <1>11, <1>12 DEF Accounting

\* A worker finds no part left and leaves the pool.
LEMMA AccountingNothingLeft ==
  ASSUME TypeOK, Accounting, NEW w \in Workers, NothingLeft(w)
  PROVE  Accounting'
<1>1. /\ wpc[w] = "ready" /\ Unclaimed = {} /\ next' = NumParts + 1
      /\ UNCHANGED <<committed, results, failed, part>>
  BY DEF NothingLeft, orch
<1>2. \A v \in Workers : v # w => wpc'[v] = wpc[v]
  BY DEF NothingLeft, MoveWorker, TypeOK
<1>3. wpc'[w] = "done"
  BY DEF NothingLeft, MoveWorker, TypeOK
<1>4. \A v \in Workers : /\ Holds(v)' <=> Holds(v)
                         /\ wpc'[v] = "thrown" <=> wpc[v] = "thrown"
  BY <1>1, <1>2, <1>3 DEF Holds
<1>5. \A p \in Parts \ committed : p < next
  BY <1>1 DEF Unclaimed, Parts, TypeOK
<1>6. ListedOnce'
  BY <1>1, NumPartsAssumption DEF Accounting, ListedOnce, Parts
<1>7. HeldParts'
  BY <1>1, <1>4, NumPartsAssumption DEF Accounting, HeldParts, Parts
<1>8. NoPartForgotten'
  BY <1>1, <1>4, <1>5 DEF Accounting, NoPartForgotten
<1>9. DoneMeansClaimed'
  BY <1>1 DEF DoneMeansClaimed
<1> QED
  BY <1>6, <1>7, <1>8, <1>9 DEF Accounting

\* A worker records the part the provider acknowledged.
LEMMA AccountingReturn ==
  ASSUME TypeOK, Accounting, NEW w \in Workers, PartReturns(w)
  PROVE  Accounting'
<1>1. /\ wpc[w] = "answered" /\ MoveWorker(w, "ready")
      /\ results' = [results EXCEPT ![part[w]] = @ + 1]
      /\ UNCHANGED <<committed, next, failed, part>>
  BY DEF PartReturns, workers
<1>2. Holds(w) /\ part[w] \in Parts \ committed /\ part[w] < next /\ results[part[w]] = 0
  BY <1>1 DEF Holds, Accounting, HeldParts
<1>3. \A v \in Workers : v # w => wpc'[v] = wpc[v]
  BY <1>1 DEF MoveWorker, TypeOK
<1>4. wpc'[w] = "ready"
  BY <1>1 DEF MoveWorker, TypeOK
<1>5. results'[part[w]] = 1 /\ \A q \in Parts : q # part[w] => results'[q] = results[q]
  BY <1>1, <1>2 DEF TypeOK
<1>6. \A v \in Workers : Holds(v)' <=> Holds(v) /\ v # w
  BY <1>3, <1>4 DEF Holds
<1>7. \A v \in Workers : Holds(v)' => part[v] # part[w]
  BY <1>2, <1>6 DEF Accounting, HeldParts
<1>8. ListedOnce'
  <2>1. next \in Nat /\ \A p \in Parts : p \in Nat
    BY DEF TypeOK, Parts
  <2> QED
    BY <1>1, <1>2, <1>5, <2>1 DEF Accounting, ListedOnce
<1>9. HeldParts'
  BY <1>1, <1>5, <1>6, <1>7 DEF Accounting, HeldParts
<1>10. NoPartForgotten'
  <2>1. \A v \in Workers : wpc[v] = "thrown" => wpc'[v] = "thrown"
    BY <1>1, <1>3
  <2>2. \A q \in Parts : results'[q] = 0 => q # part[w] /\ results[q] = 0
    BY <1>5
  <2> QED
    BY <1>1, <1>6, <2>1, <2>2 DEF Accounting, NoPartForgotten
<1>11. DoneMeansClaimed'
  BY <1>1, <1>3, <1>4 DEF Accounting, DoneMeansClaimed
<1> QED
  BY <1>8, <1>9, <1>10, <1>11 DEF Accounting

(***************************************************************************)
(* Each step keeps the accounting, the phases and the object.              *)
(***************************************************************************)

LEMMA AccountingStep == IInv /\ [Next]_vars => Accounting'
<1> SUFFICES ASSUME IInv, [Next]_vars PROVE Accounting'
  OBVIOUS
<1>t. TypeOK /\ Accounting
  BY DEF IInv, Accounting
<1> USE DEF control, orch, workers, callers, provider
<1>1. CASE Pause \/ SignalAbort \/ Persist \/ Upload
  BY <1>1, <1>t, AccountingFrame DEF Pause, SignalAbort, Persist, Upload
<1>2. CASE Resume \/ Abort
  BY <1>2, <1>t, AccountingWoken DEF Resume, Abort
<1>3. CASE Restart
  <2>1. /\ committed' = {} /\ results' = NoResults /\ next' = 1 /\ ~failed'
        /\ wpc' = EachWorker("off")
    BY <1>3 DEF Restart
  <2> QED
    BY <2>1 DEF Accounting, ListedOnce, HeldParts, NoPartForgotten,
                DoneMeansClaimed, NoResults, EachWorker, Holds, Parts
<1>4. CASE BeginReturns \/ ProbeReturns
  <2>1. run \in {"beginning", "probing"}
    BY <1>4 DEF BeginReturns, ProbeReturns
  <2>2. /\ next = 1 /\ committed = {} /\ results = NoResults /\ ~failed
        /\ wpc = EachWorker("off")
    BY <2>1 DEF IInv, Phases
  <2>3. wpc' \in {EachWorker("off"), EachWorker("ready")}
    BY <1>4, <2>2 DEF BeginReturns, ProbeReturns, Establish
  <2>4. next' = 1 /\ ~failed' /\ committed' \subseteq Parts
    BY <1>4, <2>2 DEF BeginReturns, ProbeReturns, Probed, IInv, TypeOK
  <2>5. results' = [q \in Parts |-> IF q \in committed' THEN 1 ELSE 0]
    BY <1>4, <2>2 DEF BeginReturns, ProbeReturns, NoResults
  <2>6. \A w \in Workers : ~Holds(w)' /\ wpc'[w] # "done"
    BY <2>3 DEF EachWorker, Holds
  <2> QED
    BY <2>4, <2>5, <2>6 DEF Accounting, ListedOnce, HeldParts, NoPartForgotten,
                            DoneMeansClaimed, Parts
<1>5. CASE EstablishFails \/ LateDiscardReturns \/ GateThrew
  BY <1>5, <1>t, AccountingFrame DEF EstablishFails, LateDiscardReturns, GateThrew
<1>6. CASE WorkersReturn \/ CompleteReturns \/ CompleteFails \/ AbortReturns
  BY <1>6, <1>t, AccountingFrame
  DEF WorkersReturn, CompleteReturns, CompleteFails, AbortReturns
<1>7. ASSUME NEW w \in Workers, Work(w) PROVE Accounting'
  <2>1. CASE Claim(w)
    BY <2>1, <1>t, AccountingClaim
  <2>2. CASE NothingLeft(w)
    BY <2>2, <1>t, AccountingNothingLeft
  <2>3. CASE Recheck(w)
    BY <2>3, <1>t, AccountingMove DEF Recheck, Gate, Holds
  <2>4. CASE CheckLatch(w)
    <3>1. CASE failed
      <4>1. \A v \in Workers : Holds(v)' => Holds(v)
        BY <2>4, <3>1, <1>t DEF CheckLatch, MoveWorker, Holds, TypeOK
      <4> QED
        BY <2>4, <3>1, <4>1, <1>t
        DEF CheckLatch, Accounting, ListedOnce, HeldParts, NoPartForgotten, DoneMeansClaimed
    <3>2. CASE ~failed
      BY <2>4, <3>2, <1>t, AccountingMove DEF CheckLatch, Holds
    <3> QED
      BY <3>1, <3>2
  <2>5. CASE StartAttempt(w)
    BY <2>5, <1>t, AccountingMove, AccountingFail DEF StartAttempt, Holds
  <2>6. CASE SliceFails(w)
    BY <2>6, <1>t, AccountingFail DEF SliceFails
  <2>7. CASE PartAnswered(w)
    BY <2>7, <1>t, AccountingMove DEF PartAnswered, Holds
  <2>8. CASE PartReturns(w)
    BY <2>8, <1>t, AccountingReturn
  <2>9. CASE AttemptRetries(w)
    BY <2>9, <1>t, AccountingMove DEF AttemptRetries, Holds
  <2>10. CASE BackoffElapses(w)
    BY <2>10, <1>t, AccountingMove, AccountingFail DEF BackoffElapses, Holds
  <2>11. CASE AttemptFails(w)
    BY <2>11, <1>t, AccountingFail DEF AttemptFails
  <2> QED
    BY <1>7, <2>1, <2>2, <2>3, <2>4, <2>5, <2>6, <2>7, <2>8, <2>9, <2>10,
       <2>11 DEF Work
<1>8. CASE BeginLands \/ CompleteLands \/ LateCompleteLands \/ DiscardLands
  BY <1>8, <1>t, AccountingFrame
  DEF BeginLands, CompleteLands, LateCompleteLands, DiscardLands
<1>9. ASSUME NEW w \in Workers, PartLands(w) PROVE Accounting'
  BY <1>9, <1>t, AccountingMove DEF PartLands, Holds
<1>10. ASSUME NEW p \in Parts, LatePartLands(p) PROVE Accounting'
  BY <1>10, <1>t, AccountingFrame DEF LatePartLands
<1>11. CASE UNCHANGED vars
  BY <1>11, <1>t, AccountingFrame DEF vars
<1> QED
  BY <1>1, <1>2, <1>3, <1>4, <1>5, <1>6, <1>7, <1>8, <1>9, <1>10, <1>11
  DEF Next, User, Orchestrate, Provide

\* A worker only acts while it is in the pool, so not before the run has started
\* nor after all workers returned.
LEMMA WorkersActOnlyInRun ==
  ASSUME IInv, NEW w \in Workers, Work(w) \/ PartLands(w)
  PROVE  /\ run \notin {"idle", "beginning", "probing", "discarding",
                        "completing", "completed", "resolved"}
         /\ run' = run
<1>1. wpc[w] \notin {"off", "done"}
  BY DEF Work, Claim, NothingLeft, Recheck, CheckLatch, StartAttempt, SliceFails,
         PartAnswered, PartReturns, AttemptRetries, BackoffElapses, AttemptFails,
         PartLands
<1>2. run' = run
  BY DEF Work, Claim, NothingLeft, Recheck, CheckLatch, StartAttempt, SliceFails,
         PartAnswered, PartReturns, AttemptRetries, BackoffElapses, AttemptFails,
         PartLands, orch
<1>3. run \in {"idle", "beginning", "probing", "discarding"} => wpc[w] = "off"
  BY DEF IInv, Phases, EachWorker
<1>4. run \in {"completing", "completed", "resolved"} => wpc[w] = "done"
  BY DEF IInv, Phases
<1> QED
  BY <1>1, <1>2, <1>3, <1>4

\* With every worker back and no failure, every part is listed exactly once.
LEMMA AllListed ==
  ASSUME TypeOK, Accounting, ~failed, \A w \in Workers : wpc[w] = "done"
  PROVE  \A p \in Parts : results[p] = 1
<1>1. next = NumParts + 1
  BY WorkersAssumption DEF Accounting, DoneMeansClaimed
<1>2. \A w \in Workers : ~Holds(w) /\ wpc[w] # "thrown"
  BY DEF Holds
<1>3. \A p \in Parts : p < next
  BY <1>1, NumPartsAssumption DEF Parts
<1> QED
  BY <1>2, <1>3 DEF Accounting, NoPartForgotten, ListedOnce

\* The phases of the run.
LEMMA PhasesStep == IInv /\ [Next]_vars => Phases'
<1> SUFFICES ASSUME IInv, [Next]_vars PROVE Phases'
  OBVIOUS
<1> USE DEF control, orch, workers, callers, provider
<1>1. CASE UNCHANGED <<run, committed, results, next, failed, wpc>>
  BY <1>1 DEF IInv, Phases
<1>2. CASE Resume \/ Abort
  <2>1. wpc' = Woken(wpc) /\ UNCHANGED <<run, committed, results, next, failed>>
    BY <1>2 DEF Resume, Abort
  <2>2. wpc = EachWorker("off") => wpc' = EachWorker("off")
    BY <2>1 DEF Woken, EachWorker
  <2>3. (\A w \in Workers : wpc[w] = "done") => \A w \in Workers : wpc'[w] = "done"
    BY <2>1 DEF Woken
  <2> QED
    BY <2>1, <2>2, <2>3 DEF IInv, Phases
<1>3. CASE Restart
  BY <1>3 DEF Restart, Phases
<1>4. CASE Upload
  BY <1>4 DEF Upload, IInv, Phases
<1>5. CASE BeginReturns \/ ProbeReturns
  <2>1. run \in {"beginning", "probing"}
    BY <1>5 DEF BeginReturns, ProbeReturns
  <2>2. wpc = EachWorker("off")
    BY <2>1 DEF IInv, Phases
  <2>3. run' = "running" \/ (run' = "discarding" /\ wpc' = wpc)
    BY <1>5 DEF BeginReturns, ProbeReturns, Establish
  <2> QED
    BY <2>2, <2>3 DEF Phases
<1>6. CASE EstablishFails \/ LateDiscardReturns \/ GateThrew \/ CompleteFails
  <2>1. run' = "rejected"
    BY <1>6 DEF EstablishFails, LateDiscardReturns, GateThrew, CompleteFails, RejectRun
  <2> QED
    BY <2>1 DEF Phases
<1>7. CASE WorkersReturn
  <2>1. CASE failed
    BY <1>7, <2>1 DEF WorkersReturn, RejectRun, Phases
  <2>2. CASE ~failed
    <3>1. \A p \in Parts : results[p] = 1
      BY <1>7, <2>2, AllListed DEF WorkersReturn, IInv, Accounting
    <3> QED
      BY <1>7, <2>2, <3>1 DEF WorkersReturn, Phases
  <2> QED
    BY <2>1, <2>2
<1>8. CASE CompleteReturns
  BY <1>8 DEF CompleteReturns, IInv, Phases
<1>9. ASSUME NEW w \in Workers, Work(w) \/ PartLands(w) PROVE Phases'
  BY <1>9, WorkersActOnlyInRun DEF Phases
<1>11. CASE CompleteLands
  BY <1>11 DEF CompleteLands, IInv, Phases
<1>10. Pause \/ SignalAbort \/ Persist \/ AbortReturns \/ BeginLands
       \/ LateCompleteLands \/ DiscardLands \/ (\E p \in Parts : LatePartLands(p))
       \/ UNCHANGED vars
         => UNCHANGED <<run, committed, results, next, failed, wpc>>
  BY DEF Pause, SignalAbort, Persist, AbortReturns, BeginLands,
         LateCompleteLands, DiscardLands, LatePartLands, vars
<1> QED
  BY <1>1, <1>2, <1>3, <1>4, <1>5, <1>6, <1>7, <1>8, <1>9, <1>10, <1>11
  DEF Next, User, Orchestrate, Provide

\* The object is absent until a commit, and a commit writes all of it.
LEMMA ObjectStep == IInv /\ [Next]_vars => ObjectWhole'
<1> SUFFICES ASSUME IInv, [Next]_vars PROVE ObjectWhole'
  OBVIOUS
<1> USE DEF control, orch, workers, callers, provider
<1>1. ASSUME UNCHANGED <<server, object, lateList>>,
             run' \notin {"completed", "resolved"} \/ run' = run
      PROVE  ObjectWhole'
  BY <1>1 DEF IInv, ObjectWhole
<1>2. CASE Restart
  <2>1. run = "completing" => {p \in Parts : results[p] > 0} = Parts
    BY DEF IInv, Phases
  <2>2. lateList' \in {{}, Parts}
    BY <1>2, <2>1 DEF Restart, IInv, ObjectWhole
  <2> QED
    BY <1>2, <2>2 DEF Restart, IInv, ObjectWhole
<1>3. CASE BeginLands \/ DiscardLands
  <2>1. server # "committed" /\ server' # "committed"
    BY <1>3 DEF BeginLands, DiscardLands
  <2> QED
    BY <1>3, <2>1 DEF BeginLands, DiscardLands, IInv, ObjectWhole
<1>4. CASE CompleteLands
  <2>1. {p \in Parts : results[p] = 1} = Parts
    BY <1>4 DEF CompleteLands, IInv, Phases
  <2> QED
    BY <1>4, <2>1 DEF CompleteLands, Assemble, IInv, ObjectWhole
<1>5. CASE LateCompleteLands
  BY <1>5 DEF LateCompleteLands, Assemble, IInv, ObjectWhole
<1>6. CASE CompleteReturns
  BY <1>6 DEF CompleteReturns, IInv, ObjectWhole
<1>7. CASE WorkersReturn
  <2>1. run' \notin {"completed", "resolved"}
    BY <1>7 DEF WorkersReturn, RejectRun
  <2> QED
    BY <1>7, <2>1, <1>1 DEF WorkersReturn
<1>8. ASSUME NEW w \in Workers, Work(w) \/ PartLands(w) PROVE ObjectWhole'
  <2>1. UNCHANGED <<server, object, lateList>>
    BY <1>8 DEF Work, Claim, NothingLeft, Recheck, CheckLatch, StartAttempt,
                SliceFails, PartAnswered, PartReturns, AttemptRetries,
                BackoffElapses, AttemptFails, PartLands
  <2> QED
    BY <1>8, <2>1, <1>1, WorkersActOnlyInRun
<1>9. CASE Upload \/ BeginReturns \/ ProbeReturns \/ EstablishFails
           \/ LateDiscardReturns \/ GateThrew \/ CompleteFails
  <2>1. /\ run' \notin {"completed", "resolved"}
        /\ UNCHANGED <<server, object, lateList>>
    BY <1>9 DEF Upload, BeginReturns, ProbeReturns, Establish, EstablishFails,
                LateDiscardReturns, GateThrew, CompleteFails, RejectRun
  <2> QED
    BY <2>1, <1>1
<1>10. CASE Pause \/ Resume \/ Abort \/ SignalAbort \/ Persist \/ AbortReturns
            \/ (\E p \in Parts : LatePartLands(p)) \/ UNCHANGED vars
  <2>1. UNCHANGED <<run, server, object, lateList>>
    BY <1>10 DEF Pause, Resume, Abort, SignalAbort, Persist, AbortReturns,
                 LatePartLands, vars
  <2> QED
    BY <2>1, <1>1
<1> QED
  BY <1>2, <1>3, <1>4, <1>5, <1>6, <1>7, <1>8, <1>9, <1>10
  DEF Next, User, Orchestrate, Provide

\* The inductive invariant: the accounting of parts, the phases and the object.
THEOREM Invariance == Spec => []IInv
<1>1. Init => IInv
  <2> SUFFICES ASSUME Init PROVE IInv
    OBVIOUS
  <2>1. TypeOK
    BY InitTypes
  <2>2. ListedOnce /\ HeldParts /\ NoPartForgotten /\ DoneMeansClaimed
    BY NumPartsAssumption DEF Init, ListedOnce, HeldParts, NoPartForgotten, DoneMeansClaimed,
           NoResults, EachWorker, Holds, Parts
  <2>3. Phases
    BY DEF Init, Phases
  <2>4. ObjectWhole
    BY DEF Init, ObjectWhole
  <2> QED
    BY <2>1, <2>2, <2>3, <2>4 DEF IInv
<1>2. IInv /\ [Next]_vars => IInv'
  <2> SUFFICES ASSUME IInv, [Next]_vars PROVE IInv'
    OBVIOUS
  <2>1. TypeOK'
    BY TypeStep DEF IInv
  <2> QED
    BY <2>1, AccountingStep, PhasesStep, ObjectStep DEF IInv, Accounting
<1> QED
  BY <1>1, <1>2, PTL DEF Spec

\* complete() is only ever called with every part listed exactly once.
THEOREM PartListCorrect == Spec => []CompleteListsEachPartOnce
<1>1. IInv => CompleteListsEachPartOnce
  BY DEF IInv, Phases, CompleteListsEachPartOnce
<1> QED
  BY <1>1, Invariance, PTL

\* The orchestrator with its pool, retries, aborts, restarts and late calls
\* implements the promise of a whole object.
THEOREM Refinement == Spec => ImplementsPromise
<1>p. Parts # {}
  BY NumPartsAssumption DEF Parts
<1>1. Init => Promise!Init
  BY DEF Init, Promise!Init, Settled
<1>2. IInv /\ IInv' /\ [Next]_vars => [Promise!Next]_(Promise!pvars)
  <2> SUFFICES ASSUME IInv, IInv', [Next]_vars PROVE [Promise!Next]_(Promise!pvars)
    OBVIOUS
  <2> USE DEF control, orch, workers, callers, provider
  <2>1. CASE UNCHANGED <<run, object>>
    BY <2>1 DEF Promise!pvars, Settled
  <2>2. CASE CompleteLands \/ LateCompleteLands
    <3>1. object \in {{}, Parts} /\ object' = Parts
      <4>1. object \in {{}, Parts}
        BY DEF IInv, ObjectWhole
      <4>2. CompleteLands => {p \in Parts : results[p] = 1} = Parts
        BY DEF CompleteLands, IInv, Phases
      <4> QED
        BY <2>2, <4>1, <4>2 DEF CompleteLands, LateCompleteLands, Assemble, IInv, ObjectWhole
    <3>2. UNCHANGED run \/ (run = "completing" /\ run' = "completed")
      BY <2>2 DEF CompleteLands, LateCompleteLands
    <3> QED
      BY <3>1, <3>2, <1>p DEF Promise!Next, Promise!Commit, Promise!pvars, Settled
  <2>3. CASE CompleteReturns
    <3>1. run = "completed" /\ run' = "resolved" /\ object = Parts /\ UNCHANGED object
      BY <2>3 DEF CompleteReturns, IInv, ObjectWhole
    <3> QED
      BY <3>1, <1>p DEF Promise!Next, Promise!Resolve, Settled
  <2>4. ASSUME run \notin {"resolved", "rejected"}, run' = "rejected", UNCHANGED object
        PROVE  [Promise!Next]_(Promise!pvars)
    BY <2>4 DEF Promise!Next, Promise!Reject, Settled
  <2>5. ASSUME run \notin {"resolved", "rejected"}, run' \notin {"resolved", "rejected"},
               UNCHANGED object
        PROVE  [Promise!Next]_(Promise!pvars)
    BY <2>5 DEF Promise!pvars, Settled
  <2>6. CASE EstablishFails \/ LateDiscardReturns \/ GateThrew \/ CompleteFails
    BY <2>6, <2>4 DEF EstablishFails, LateDiscardReturns, GateThrew, CompleteFails, RejectRun
  <2>7. CASE WorkersReturn
    <3>1. CASE failed
      BY <2>7, <3>1, <2>4 DEF WorkersReturn, RejectRun
    <3>2. CASE ~failed
      BY <2>7, <3>2, <2>5 DEF WorkersReturn
    <3> QED
      BY <3>1, <3>2
  <2>8. CASE Upload \/ BeginReturns \/ ProbeReturns
    <3>1. UNCHANGED object /\ run \notin {"resolved", "rejected"} /\ run' # "resolved"
      BY <2>8 DEF Upload, BeginReturns, ProbeReturns, Establish
    <3> QED
      BY <3>1, <2>4, <2>5
  <2>9. CASE Restart
    <3>1. run' = "idle" /\ run # "resolved" /\ UNCHANGED object
      BY <2>9 DEF Restart
    <3>2. CASE run = "rejected"
      BY <3>1, <3>2 DEF Promise!Next, Promise!StartAgain, Settled
    <3>3. CASE run # "rejected"
      BY <3>1, <3>3, <2>5
    <3> QED
      BY <3>2, <3>3
  <2>10. ASSUME NEW w \in Workers, Work(w) \/ PartLands(w)
         PROVE  UNCHANGED <<run, object>>
    <3>1. UNCHANGED object
      BY <2>10 DEF Work, Claim, NothingLeft, Recheck, CheckLatch, StartAttempt,
                   SliceFails, PartAnswered, PartReturns, AttemptRetries,
                   BackoffElapses, AttemptFails, PartLands
    <3> QED
      BY <2>10, <3>1, WorkersActOnlyInRun
  <2>11. Pause \/ Resume \/ Abort \/ SignalAbort \/ Persist \/ AbortReturns
         \/ BeginLands \/ DiscardLands \/ (\E p \in Parts : LatePartLands(p))
         \/ UNCHANGED vars => UNCHANGED <<run, object>>
    BY DEF Pause, Resume, Abort, SignalAbort, Persist, AbortReturns, BeginLands,
           DiscardLands, LatePartLands, vars
  <2> QED
    BY <2>1, <2>2, <2>3, <2>6, <2>7, <2>8, <2>9, <2>10, <2>11
    DEF Next, User, Orchestrate, Provide
<1> QED
  BY <1>1, <1>2, Invariance, PTL DEF Spec, ImplementsPromise, Promise!Spec

(***************************************************************************)
(* The control: its status, its token, and which runs still send parts.    *)
(***************************************************************************)

\* The token: who may drop it, and what holds while a discard is installed.
Tokens ==
    /\ abortPc # "none" => aborted
    /\ run = "discarding" => aborted
    /\ aborted => discard # "installed"
    /\ aborted /\ abortPc = "settled" => session = "none" \/ run = "discarding"
    /\ ~aborted /\ (discard = "installed" \/ run = "probing") => session = "live"

\* A worker that still has something to do belongs to a run that goes on, or to
\* one that abort() ended.
Dead ==
    /\ status = "aborted" => aborted
    /\ \A w \in Workers : wpc[w] = "thrown" => aborted
    /\ \A w \in Workers : wpc[w] = "ready" \/ Holds(w) => run = "running" \/ aborted

ControlInv == IInv /\ StatusReflectsPause /\ Tokens /\ Dead

\* What a worker's step does to the control.
LEMMA WorkersLeaveControl ==
  ASSUME NEW w \in Workers, Work(w) \/ PartLands(w)
  PROVE  UNCHANGED <<paused, session, aborted, discard, run, abortPc>>
BY DEF Work, Claim, NothingLeft, Recheck, CheckLatch, StartAttempt, SliceFails,
       PartAnswered, PartReturns, AttemptRetries, BackoffElapses, AttemptFails, PartLands,
       control, orch, callers

\* And to the status, at the gate alone.
LEMMA WorkersStatus ==
  ASSUME NEW w \in Workers, Work(w) \/ PartLands(w)
  PROVE  \/ UNCHANGED status
         \/ paused /\ status # "aborted" /\ status' = "paused"
         \/ ~paused /\ status # "aborted" /\ status' = "uploading"
BY DEF Work, Claim, NothingLeft, Recheck, CheckLatch, StartAttempt, SliceFails, Gate,
       PartAnswered, PartReturns, AttemptRetries, BackoffElapses, AttemptFails, PartLands,
       control

LEMMA StatusStep ==
  ASSUME StatusReflectsPause, [Next]_vars
  PROVE  StatusReflectsPause'
<1> USE DEF StatusReflectsPause, control
<1>1. CASE User
  BY <1>1 DEF User, Pause, Resume, Abort, SignalAbort, Persist, Restart, Upload
<1>2. CASE Orchestrate
  BY <1>2 DEF Orchestrate, BeginReturns, ProbeReturns, EstablishFails, LateDiscardReturns,
              GateThrew, WorkersReturn, CompleteReturns, CompleteFails, AbortReturns, RejectRun
<1>3. ASSUME NEW w \in Workers, Work(w) \/ PartLands(w) PROVE StatusReflectsPause'
  BY <1>3, WorkersLeaveControl, WorkersStatus
<1>4. CASE BeginLands \/ CompleteLands \/ LateCompleteLands \/ DiscardLands
            \/ \E p \in Parts : LatePartLands(p)
  BY <1>4 DEF BeginLands, CompleteLands, LateCompleteLands, DiscardLands, LatePartLands
<1>5. CASE UNCHANGED vars
  BY <1>5 DEF vars
<1> QED
  BY <1>1, <1>2, <1>3, <1>4, <1>5 DEF Next, Provide

LEMMA TokensStep ==
  ASSUME IInv, Tokens, [Next]_vars
  PROVE  Tokens'
<1> USE DEF Tokens, control, callers
<1>t. /\ session \in {"none", "live"} /\ aborted \in BOOLEAN
      /\ discard \in {"none", "installed", "called"}
  BY DEF IInv, TypeOK
<1>1. CASE Pause \/ Resume \/ SignalAbort \/ Persist
  BY <1>1 DEF Pause, Resume, SignalAbort, Persist, orch
<1>2. CASE Abort
  BY <1>2, <1>t DEF Abort, orch
<1>3. CASE Restart
  BY <1>3 DEF Restart
<1>4. CASE Upload
  BY <1>4 DEF Upload
<1>5. CASE BeginReturns
  BY <1>5, <1>t DEF BeginReturns, Establish
<1>6. CASE ProbeReturns
  BY <1>6, <1>t DEF ProbeReturns, Establish
<1>7. CASE EstablishFails \/ GateThrew \/ CompleteFails
  BY <1>7 DEF EstablishFails, GateThrew, CompleteFails, RejectRun
<1>8. CASE LateDiscardReturns
  BY <1>8 DEF LateDiscardReturns, RejectRun
<1>9. CASE WorkersReturn
  BY <1>9 DEF WorkersReturn, RejectRun
<1>10. CASE CompleteReturns \/ AbortReturns
  BY <1>10 DEF CompleteReturns, AbortReturns, orch
<1>11. ASSUME NEW w \in Workers, Work(w) \/ PartLands(w) PROVE Tokens'
  BY <1>11, WorkersLeaveControl
<1>12. CASE BeginLands \/ LateCompleteLands \/ DiscardLands
             \/ \E p \in Parts : LatePartLands(p)
  BY <1>12 DEF BeginLands, LateCompleteLands, DiscardLands, LatePartLands, orch
<1>13. CASE CompleteLands
  BY <1>13 DEF CompleteLands
<1>14. CASE UNCHANGED vars
  BY <1>14 DEF vars, orch
<1> QED
  BY <1>1, <1>2, <1>3, <1>4, <1>5, <1>6, <1>7, <1>8, <1>9, <1>10, <1>11, <1>12, <1>13, <1>14
  DEF Next, User, Orchestrate, Provide

\* Who still works after a step of one worker.
LEMMA WorkersAlive ==
  ASSUME TypeOK, Dead, NEW w \in Workers, Work(w) \/ PartLands(w)
  PROVE  \A v \in Workers :
            /\ (wpc[v] = "ready" \/ Holds(v))' => wpc[v] = "ready" \/ Holds(v)
            /\ wpc'[v] = "thrown" => wpc[v] = "thrown" \/ status = "aborted"
<1> USE DEF TypeOK, WorkerPc, Holds, MoveWorker, FailWorker, Woken
<1>1. CASE Claim(w)
  BY <1>1 DEF Claim, Gate
<1>2. CASE NothingLeft(w)
  BY <1>2 DEF NothingLeft
<1>3. CASE Recheck(w)
  BY <1>3 DEF Recheck, Gate
<1>4. CASE CheckLatch(w) \/ PartAnswered(w) \/ PartReturns(w) \/ PartLands(w)
  BY <1>4 DEF CheckLatch, PartAnswered, PartReturns, PartLands
<1>5. CASE StartAttempt(w) \/ BackoffElapses(w)
  BY <1>5 DEF StartAttempt, BackoffElapses
<1>6. CASE SliceFails(w) \/ AttemptFails(w) \/ AttemptRetries(w)
  BY <1>6 DEF SliceFails, AttemptFails, AttemptRetries
<1> QED
  BY <1>1, <1>2, <1>3, <1>4, <1>5, <1>6 DEF Work

LEMMA DeadStep ==
  ASSUME IInv, Dead, [Next]_vars
  PROVE  Dead'
<1> USE DEF control, callers, workers
<1>1. CASE Pause \/ SignalAbort \/ Persist \/ AbortReturns \/ BeginLands \/ LateCompleteLands
            \/ DiscardLands \/ (\E p \in Parts : LatePartLands(p)) \/ UNCHANGED vars
  <2>1. /\ UNCHANGED <<aborted, run, wpc>>
        /\ status' = status \/ status' = "paused"
    BY <1>1 DEF Pause, SignalAbort, Persist, AbortReturns, BeginLands, LateCompleteLands,
                DiscardLands, LatePartLands, vars, orch
  <2> QED
    BY <2>1 DEF Dead, Holds
<1>2. CASE Resume \/ Abort
  <2>1. wpc' = Woken(wpc) /\ UNCHANGED run
    BY <1>2 DEF Resume, Abort, orch
  <2>2. \A w \in Workers : /\ wpc'[w] = "thrown" <=> wpc[w] = "thrown"
                           /\ (wpc[w] = "ready" \/ Holds(w))' <=> wpc[w] = "ready" \/ Holds(w)
    BY <2>1 DEF Woken, Holds
  <2>3. CASE Resume
    BY <2>1, <2>2, <2>3 DEF Resume, Dead
  <2>4. CASE Abort
    BY <2>4 DEF Abort, Dead
  <2> QED
    BY <1>2, <2>3, <2>4
<1>3. CASE Restart
  BY <1>3 DEF Restart, Dead, EachWorker, Holds
<1>4. CASE Upload \/ EstablishFails
  <2>1. wpc = EachWorker("off") /\ UNCHANGED <<wpc, aborted>>
    BY <1>4 DEF Upload, EstablishFails, IInv, Phases
  <2>2. status' = status \/ status' = "error"
    BY <1>4 DEF Upload, EstablishFails, RejectRun
  <2> QED
    BY <2>1, <2>2 DEF Dead, EachWorker, Holds
<1>5. CASE BeginReturns \/ ProbeReturns
  <2>1. /\ UNCHANGED <<aborted, status>>
        /\ (run' = "running" /\ wpc' = EachWorker("ready")) \/ (UNCHANGED wpc /\ aborted)
    BY <1>5 DEF BeginReturns, ProbeReturns, Establish
  <2> QED
    BY <2>1 DEF Dead, EachWorker, Holds
<1>6. CASE LateDiscardReturns
  <2>1. wpc = EachWorker("off") /\ UNCHANGED <<wpc, aborted>>
    BY <1>6 DEF LateDiscardReturns, IInv, Phases
  <2>2. status' = status \/ status' = "error"
    BY <1>6 DEF LateDiscardReturns, RejectRun
  <2> QED
    BY <2>1, <2>2 DEF Dead, EachWorker, Holds
<1>7. CASE GateThrew
  BY <1>7 DEF GateThrew, RejectRun, Dead
<1>8. CASE WorkersReturn \/ CompleteReturns \/ CompleteFails \/ CompleteLands
  <2>1. /\ \A w \in Workers : wpc[w] = "done"
        /\ UNCHANGED <<wpc, aborted>>
        /\ status' = status \/ status' \in {"error", "completed"}
    BY <1>8 DEF WorkersReturn, CompleteReturns, CompleteFails, CompleteLands, RejectRun, IInv, Phases
  <2> QED
    BY <2>1 DEF Dead, Holds
<1>9. ASSUME NEW w \in Workers, Work(w) \/ PartLands(w) PROVE Dead'
  <2>1. UNCHANGED <<run, aborted>>
    BY <1>9, WorkersLeaveControl
  <2>2. status' = "aborted" => status = "aborted"
    BY <1>9, WorkersStatus
  <2> QED
    BY <1>9, <2>1, <2>2, WorkersAlive DEF Dead, IInv
<1> QED
  BY <1>1, <1>2, <1>3, <1>4, <1>5, <1>6, <1>7, <1>8, <1>9 DEF Next, User, Orchestrate, Provide

LEMMA ControlInvariance == Spec => []ControlInv
<1>1. Init => StatusReflectsPause /\ Tokens /\ Dead
  BY DEF Init, StatusReflectsPause, Tokens, Dead, EachWorker, Holds
<1>2. IInv /\ StatusReflectsPause /\ Tokens /\ Dead /\ [Next]_vars
        => (StatusReflectsPause /\ Tokens /\ Dead)'
  BY StatusStep, TokensStep, DeadStep
<1> QED
  BY <1>1, <1>2, Invariance, PTL DEF Spec, ControlInv

\* StatusReflectsPause: however pause(), resume(), the workers at the gate and the
\* failure latch take turns, the status agrees with the pause flag.
THEOREM StatusAgrees == Spec => []StatusReflectsPause
<1>1. ControlInv => StatusReflectsPause
  BY DEF ControlInv
<1> QED
  BY <1>1, ControlInvariance, PTL

\* TokenKeptUnlessAborted: abort() takes the token, whenever it ran; no failure and
\* no signal does.
THEOREM TokenIsKept == Spec => []TokenKeptUnlessAborted
<1>1. ControlInv => TokenKeptUnlessAborted
  BY DEF ControlInv, Tokens, TokenKeptUnlessAborted, Settled
<1> QED
  BY <1>1, ControlInvariance, PTL

\* NoCallOnDeadRun: no worker, wherever it was parked, slicing or backing off,
\* sends a part once the run is dead.
THEOREM NothingSentWhenDead == Spec => NoCallOnDeadRun
<1> DEFINE Rule == \A w \in Workers :
             wpc[w] # "flight" /\ wpc'[w] = "flight" => run = "running" /\ ~SignalsAborted
<1>1. ControlInv /\ [Next]_vars => [Rule]_vars
  <2> SUFFICES ASSUME ControlInv, Next, NEW w \in Workers,
                      wpc[w] # "flight", wpc'[w] = "flight"
               PROVE  run = "running" /\ ~SignalsAborted
    OBVIOUS
  <2> USE DEF control, orch, workers
  <2>1. PICK v \in Workers : Work(v) \/ PartLands(v)
    BY DEF Next, User, Orchestrate, Provide, Pause, Resume, Abort, SignalAbort, Persist,
           Restart, Upload, BeginReturns, ProbeReturns, Establish, EstablishFails,
           LateDiscardReturns, GateThrew, WorkersReturn, CompleteReturns, CompleteFails,
           AbortReturns, BeginLands, CompleteLands, LateCompleteLands, DiscardLands,
           LatePartLands, Woken, EachWorker
  <2>2. wpc \in [Workers -> WorkerPc]
    BY DEF ControlInv, IInv, TypeOK
  <2>3. (StartAttempt(w) \/ BackoffElapses(w)) /\ ~SignalsAborted
    BY <2>1, <2>2 DEF Work, Claim, NothingLeft, Recheck, Gate, CheckLatch, StartAttempt,
           SliceFails, PartAnswered, PartReturns, AttemptRetries, BackoffElapses, AttemptFails,
           PartLands, MoveWorker, FailWorker, Woken
  <2>4. Holds(w)
    BY <2>3 DEF StartAttempt, BackoffElapses, Holds
  <2> QED
    BY <2>3, <2>4 DEF ControlInv, Dead, SignalsAborted
<1> QED
  BY <1>1, ControlInvariance, PTL DEF Spec, NoCallOnDeadRun

(***************************************************************************)
(* FilesClient, which the uploads go through: the prefix that is put       *)
(* before a caller's keys and taken off again, for texts of any length     *)
(* over any alphabet.                                                      *)
(***************************************************************************)

Client == INSTANCE FilesClient

\* Induction, in the form the provers can use: what holds at 0, and after a number holds
\* at the next, holds up to N.
LEMMA UpTo ==
    ASSUME NEW N \in Nat, NEW P, 0 \in P, \A n \in 1 .. N : n - 1 \in P => n \in P
    PROVE  \A n \in 0 .. N : n \in P
<1> DEFINE R == {p \in Nat \X Nat : p[1] < p[2]}
           T == {n \in 0 .. N : n \notin P}
<1>1. IsWellFoundedOn(R, Nat)
    BY NatLessThanWellFounded DEF OpToRel
<1>2. SUFFICES ASSUME T # {} PROVE FALSE
    OBVIOUS
<1>3. \E n \in T : \A m \in T : <<m, n>> \notin R
    <2>1. T \subseteq Nat
        OBVIOUS
    <2> HIDE DEF R, T
    <2>2. QED
        BY <1>1, <1>2, <2>1, WFMin
<1>4. PICK n \in T : \A m \in T : <<m, n>> \notin R
    <2> HIDE DEF R, T
    <2>1. QED
        BY <1>3
<1>5. n \in 1 .. N /\ n - 1 \in 0 .. N /\ <<n - 1, n>> \in R
    OBVIOUS
<1>6. n - 1 \in P /\ n \notin P
    <2> HIDE DEF R
    <2>1. QED
        BY <1>4, <1>5
<1>7. QED
    BY <1>5, <1>6

\* What stands after a beginning, and that it begins so.
LEMMA Joined ==
    ASSUME NEW T, NEW s \in Seq(T), NEW t \in Seq(T)
    PROVE  /\ s \o t \in Seq(T) /\ Len(s \o t) = Len(s) + Len(t)
           /\ \A i \in 1 .. Len(s) : (s \o t)[i] = s[i]
           /\ \A i \in 1 .. Len(t) : (s \o t)[Len(s) + i] = t[i]
           /\ SubSeq(s \o t, 1, Len(s)) = s
           /\ SubSeq(s \o t, Len(s) + 1, Len(s \o t)) = t
<1> DEFINE st == s \o t
<1>1. /\ st \in Seq(T) /\ Len(st) = Len(s) + Len(t)
      /\ \A i \in 1 .. Len(s) : st[i] = s[i]
      /\ \A i \in 1 .. Len(t) : st[Len(s) + i] = t[i]
    BY ConcatProperties
<1>2. /\ s = [i \in 1 .. Len(s) |-> s[i]] /\ t = [i \in 1 .. Len(t) |-> t[i]]
      /\ Len(s) \in Nat /\ Len(t) \in Nat
    OBVIOUS
<1> HIDE DEF st
<1>3. SubSeq(st, 1, Len(s)) = [i \in 1 .. Len(s) |-> st[i]]
    BY <1>1, <1>2
<1>4. SubSeq(st, Len(s) + 1, Len(st)) = [i \in 1 .. Len(t) |-> st[Len(s) + i]]
    BY <1>1, <1>2
<1>5. [i \in 1 .. Len(s) |-> st[i]] = [i \in 1 .. Len(s) |-> s[i]]
    BY <1>1
<1>6. [i \in 1 .. Len(t) |-> st[Len(s) + i]] = [i \in 1 .. Len(t) |-> t[i]]
    BY <1>1
<1>7. QED
    BY <1>1, <1>2, <1>3, <1>4, <1>5, <1>6 DEF st

\* What begins with s is s and the rest.
LEMMA Begins ==
    ASSUME NEW T, NEW s \in Seq(T), NEW t \in Seq(T)
    PROVE  /\ Client!IsPrefix(s, t) <=> Len(s) <= Len(t) /\ \A i \in 1 .. Len(s) : s[i] = t[i]
<1>1. Len(s) \in Nat /\ Len(t) \in Nat
    OBVIOUS
<1>2. SubSeq(s, 1, Len(s)) = s
    OBVIOUS
<1>3. ASSUME Len(s) <= Len(t)
      PROVE  SubSeq(t, 1, Len(s)) = [i \in 1 .. Len(s) |-> t[i]]
    BY <1>1, <1>3
<1>4. s = [i \in 1 .. Len(s) |-> s[i]]
    OBVIOUS
<1>5. ASSUME Client!IsPrefix(s, t)
      PROVE  Len(s) <= Len(t) /\ \A i \in 1 .. Len(s) : s[i] = t[i]
    BY <1>1, <1>2, <1>3, <1>5 DEF Client!IsPrefix
<1>6. ASSUME Len(s) <= Len(t), \A i \in 1 .. Len(s) : s[i] = t[i]
      PROVE  Client!IsPrefix(s, t)
    BY <1>1, <1>2, <1>3, <1>4, <1>6 DEF Client!IsPrefix
<1>7. QED
    BY <1>5, <1>6

\* The leading slashes of a text are some number of its first characters.
LEMMA LeadingSlashes ==
    ASSUME NEW T, NEW text \in Seq(T)
    PROVE  LET n == Client!Leading(text)
           IN  /\ n \in 0 .. Len(text)
               /\ \A i \in 1 .. n : text[i] = Client!Slash
               /\ n < Len(text) => text[n + 1] # Client!Slash
<1> DEFINE N == Len(text)
           Led(n) == \A i \in 1 .. n : text[i] = Client!Slash
           Ends(n) == n < N => text[n + 1] # Client!Slash
           P == {n \in 0 .. N : Led(n)}
<1>1. N \in Nat
    OBVIOUS
<1>2. \E n \in 0 .. N : Led(n) /\ Ends(n)
    <2> SUFFICES ASSUME \A n \in 0 .. N : Led(n) => ~Ends(n)
                 PROVE  FALSE
        OBVIOUS
    <2>1. 0 \in P
        BY <1>1
    <2>2. ASSUME NEW n \in 1 .. N, n - 1 \in P
          PROVE  n \in P
        <3>1. n - 1 \in 0 .. N /\ Led(n - 1) /\ ~Ends(n - 1)
            BY <1>1, <2>2
        <3>2. text[n] = Client!Slash
            <4>1. n - 1 < N /\ (n - 1) + 1 = n
                BY <1>1
            <4> HIDE DEF N
            <4>2. QED
                BY <3>1, <4>1
        <3>3. 1 .. n = (1 .. n - 1) \cup {n}
            BY <1>1
        <3>4. QED
            BY <3>1, <3>2, <3>3
    <2>3. Led(N)
        <3> HIDE DEF P
        <3>1. \A n \in 0 .. N : n \in P
            BY <1>1, <2>1, <2>2, UpTo
        <3>2. N \in P
            BY <1>1, <3>1
        <3>3. QED
            BY <3>2 DEF P
    <2>4. Ends(N)
        BY <1>1
    <2>5. QED
        BY <1>1, <2>3, <2>4
<1>3. QED
    BY <1>2 DEF Client!Leading

\* What is left of a text has no leading slash, and nothing is taken from it again.
LEMMA UnledText ==
    ASSUME NEW T, NEW text \in Seq(T)
    PROVE  LET u == Client!Unled(text)
           IN  /\ u \in Seq(T)
               /\ u # <<>> => u[1] # Client!Slash
               /\ Client!Unled(u) = u
<1> DEFINE n == Client!Leading(text)
           u == Client!Unled(text)
<1>1. n \in 0 .. Len(text) /\ (n < Len(text) => text[n + 1] # Client!Slash) /\ Len(text) \in Nat
    BY LeadingSlashes
<1>2. /\ u \in Seq(T) /\ Len(u) = Len(text) - n
      /\ \A i \in 1 .. Len(text) - n : u[i] = text[n + i]
    <2> HIDE DEF n
    <2>1. u = SubSeq(text, n + 1, Len(text))
        BY DEF Client!Unled, n
    <2>2. \A i \in n + 1 .. Len(text) : text[i] \in T
        BY <1>1
    <2>3. /\ u \in Seq(T)
          /\ Len(u) = IF n + 1 <= Len(text) THEN Len(text) - (n + 1) + 1 ELSE 0
          /\ \A i \in 1 .. Len(text) - (n + 1) + 1 : u[i] = text[n + 1 + i - 1]
        BY <1>1, <2>1, <2>2, SubSeqProperties
    <2> HIDE DEF u
    <2>4. QED
        BY <1>1, <2>3
<1> HIDE DEF u, n
<1>3. u # <<>> => u[1] # Client!Slash
    <2> SUFFICES ASSUME u # <<>> PROVE u[1] # Client!Slash
        OBVIOUS
    <2>1. Len(u) # 0
        BY <1>2
    <2>2. n < Len(text) /\ 1 \in 1 .. Len(text) - n
        BY <1>1, <1>2, <2>1
    <2>3. QED
        BY <1>1, <1>2, <2>2
<1>4. Client!Leading(u) = 0
    <2> DEFINE m == Client!Leading(u)
    <2>1. m \in 0 .. Len(u) /\ \A i \in 1 .. m : u[i] = Client!Slash
        BY <1>2, LeadingSlashes
    <2> HIDE DEF m
    <2>2. m # 0 => u[1] = Client!Slash /\ u # <<>>
        BY <1>2, <2>1
    <2>3. m = 0
        BY <1>3, <2>2
    <2>4. QED
        BY <2>3 DEF m
<1>5. Client!Unled(u) = u
    <2>1. Client!Unled(u) = SubSeq(u, 1, Len(u))
        BY <1>4 DEF Client!Unled
    <2>2. QED
        BY <1>2, <2>1, SubSeqFull
<1>6. QED
    BY <1>2, <1>3, <1>5 DEF u

\* A path below a prefix is cut in two where the slash after the prefix is.
LEMMA PathIsJoined ==
    ASSUME NEW T, Client!Slash \in T, NEW base \in Seq(T), base # <<>>, NEW key \in Seq(T)
    PROVE  LET b == base \o <<Client!Slash>>
               u == Client!Unled(key)
           IN  /\ b \in Seq(T) /\ Len(b) = Len(base) + 1 /\ u \in Seq(T)
               /\ \A i \in 1 .. Len(base) : b[i] = base[i]
               /\ b[Len(base) + 1] = Client!Slash
               /\ Client!PathOfKey(base, key) = b \o u
<1> DEFINE e == <<Client!Slash>>
<1>1. e \in Seq(T) /\ Len(e) = 1 /\ e[1] = Client!Slash
    OBVIOUS
<1> HIDE DEF e
<1>2. base \o e \in Seq(T) /\ Len(base \o e) = Len(base) + 1
    BY <1>1, ConcatProperties
<1>3. /\ \A i \in 1 .. Len(base) : (base \o e)[i] = base[i]
      /\ (base \o e)[Len(base) + 1] = Client!Slash
    <2>1. 1 \in 1 .. Len(e)
        BY <1>1
    <2>2. QED
        BY <1>1, <2>1, Joined
<1>4. Client!Unled(key) \in Seq(T)
    BY UnledText
<1>5. Client!PathOfKey(base, key) = (base \o e) \o Client!Unled(key)
    BY <1>1, <1>4, ConcatAssociative DEF Client!PathOfKey, e
<1>6. QED
    BY <1>2, <1>3, <1>4, <1>5 DEF e

\* Whatever the prefix and the key, what is stored under a key is shown under it, without its
\* leading slashes, and the key shown leads to the same object; but for a key of slashes alone,
\* which is shown as the empty key.
THEOREM KeysLeadBack ==
    ASSUME NEW T, Client!Slash \in T, NEW base \in Seq(T), base # <<>>, NEW key \in Seq(T),
           Client!Accepts(base, key)
    PROVE  LET path == Client!PathOfKey(base, key)
               shown == Client!StripPrefix(base, path)
           IN  /\ shown = Client!Unled(key)
               /\ Client!Accepts(base, shown) <=> Client!Unled(key) # <<>>
               /\ Client!Accepts(base, shown) => Client!PathOfKey(base, shown) = path
<1> DEFINE b == base \o <<Client!Slash>>
           u == Client!Unled(key)
           path == Client!PathOfKey(base, key)
           shown == Client!StripPrefix(base, path)
<1>1. b \in Seq(T) /\ Len(b) = Len(base) + 1 /\ u \in Seq(T) /\ path = b \o u
    BY PathIsJoined
<1>2. Client!Unled(u) = u
    BY UnledText
<1>3. ~Client!IsRelative(u)
    BY DEF Client!Accepts
<1>4. Client!IsPrefix(b, path) /\ SubSeq(path, Len(b) + 1, Len(path)) = u
    <2> HIDE DEF b, u, path
    <2>1. /\ path \in Seq(T) /\ Len(path) = Len(b) + Len(u)
          /\ \A i \in 1 .. Len(b) : path[i] = b[i]
          /\ SubSeq(path, Len(b) + 1, Len(path)) = u
        <3> DEFINE bu == b \o u
        <3>1. /\ bu \in Seq(T) /\ Len(bu) = Len(b) + Len(u)
              /\ \A i \in 1 .. Len(b) : bu[i] = b[i]
              /\ SubSeq(bu, Len(b) + 1, Len(bu)) = u
            <4>1. b \in Seq(T) /\ u \in Seq(T)
                BY <1>1
            <4>2. QED
                BY <4>1, Joined
        <3>2. path = bu
            BY <1>1
        <3> HIDE DEF bu
        <3>3. QED
            BY <3>1, <3>2
    <2>2. Len(b) <= Len(path)
        BY <1>1, <2>1
    <2>3. QED
        BY <1>1, <2>1, <2>2, Begins
<1>5. shown = u
    <2> HIDE DEF u, path
    <2>1. QED
        BY <1>4 DEF Client!StripPrefix
<1>6. Client!Accepts(base, u) <=> u # <<>>
    BY <1>2, <1>3 DEF Client!Accepts, Client!Valid
<1>7. Client!PathOfKey(base, u) = path
    <2> HIDE DEF u
    <2>1. QED
        BY <1>2 DEF Client!PathOfKey, u
<1> HIDE DEF u, path, shown
<1>8. QED
    BY <1>5, <1>6, <1>7 DEF u, path, shown

\* A path has a relative segment if its prefix has one or what follows the slash has.
LEMMA RelativeParts ==
    ASSUME NEW T, NEW base \in Seq(T), NEW u \in Seq(T), NEW path \in Seq(T),
           Len(path) = Len(base) + 1 + Len(u),
           \A i \in 1 .. Len(base) : path[i] = base[i],
           path[Len(base) + 1] = Client!Slash,
           \A i \in 1 .. Len(u) : path[Len(base) + 1 + i] = u[i],
           Client!IsRelative(path)
    PROVE  Client!IsRelative(base) \/ Client!IsRelative(u)
<1> DEFINE n == Len(base)
           m == Len(u)
<1>0. n \in Nat /\ m \in Nat
    OBVIOUS
<1>1. n \in Nat /\ m \in Nat /\ DOMAIN base = 1 .. n /\ DOMAIN u = 1 .. m
      /\ DOMAIN path = 1 .. n + 1 + m /\ Len(path) = n + 1 + m
    OBVIOUS
<1>2. PICK i \in 1 .. n + 1 + m : /\ path[i] = Client!Dot
                                  /\ i = 1 \/ path[i - 1] = Client!Slash
                                  /\ i = n + 1 + m \/ path[i + 1] = Client!Slash
    BY <1>1 DEF Client!IsRelative
<1>3. path[n + 1] # Client!Dot
    BY DEF Client!Slash, Client!Dot
<1>4. /\ \A k \in 1 .. n : path[k] = base[k]
      /\ \A k \in 1 .. m : path[n + 1 + k] = u[k]
    OBVIOUS
<1> HIDE DEF n, m
<1>5. CASE i <= n
    <2>1. i \in 1 .. n /\ base[i] = Client!Dot
        BY <1>1, <1>2, <1>4, <1>5
    <2>2. i = 1 \/ base[i - 1] = Client!Slash
        BY <1>1, <1>2, <1>4, <2>1
    <2>3. i = n \/ base[i + 1] = Client!Slash
        BY <1>1, <1>2, <1>4, <2>1
    <2>4. QED
        BY <1>1, <2>1, <2>2, <2>3 DEF Client!IsRelative, n
<1>6. CASE i > n
    <2> DEFINE k == i - n - 1
    <2>1. i # n + 1
        BY <1>2, <1>3
    <2>2. k \in 1 .. m /\ n + 1 + k = i
        BY <1>1, <1>2, <1>6, <2>1
    <2> HIDE DEF k
    <2>3. u[k] = Client!Dot
        BY <1>2, <1>4, <2>2
    <2>4. k = 1 \/ u[k - 1] = Client!Slash
        <3>1. k # 1 => k - 1 \in 1 .. m /\ n + 1 + (k - 1) = i - 1 /\ i # 1
            BY <1>0, <2>2
        <3>2. QED
            BY <1>2, <1>4, <3>1
    <2>5. k = m \/ u[k + 1] = Client!Slash
        <3>1. k # m => k + 1 \in 1 .. m /\ n + 1 + (k + 1) = i + 1 /\ i # n + 1 + m
            BY <1>0, <2>2
        <3>2. QED
            BY <1>2, <1>4, <3>1
    <2>6. QED
        BY <1>1, <2>2, <2>3, <2>4, <2>5 DEF Client!IsRelative, m
<1>7. QED
    BY <1>1, <1>2, <1>5, <1>6

\* Of two beginnings of one text, one is a beginning of the other.
LEMMA BeginningsNest ==
    ASSUME NEW T, NEW s \in Seq(T), NEW t \in Seq(T), NEW text \in Seq(T),
           Client!IsPrefix(s, text), Client!IsPrefix(t, text)
    PROVE  Client!IsPrefix(s, t) \/ Client!IsPrefix(t, s)
<1>1. Len(s) \in Nat /\ Len(t) \in Nat
    OBVIOUS
<1>2. /\ \A i \in 1 .. Len(s) : s[i] = text[i]
      /\ \A i \in 1 .. Len(t) : t[i] = text[i]
    BY Begins
<1>3. CASE Len(s) <= Len(t)
    <2>1. \A i \in 1 .. Len(s) : s[i] = t[i]
        BY <1>1, <1>2, <1>3
    <2>2. QED
        BY <1>3, <2>1, Begins
<1>4. CASE Len(t) <= Len(s)
    <2>1. \A i \in 1 .. Len(t) : t[i] = s[i]
        BY <1>1, <1>2, <1>4
    <2>2. QED
        BY <1>4, <2>1, Begins
<1>5. QED
    BY <1>1, <1>3, <1>4

\* What a client with a prefix writes lies below that prefix, past exactly one slash, and has no
\* relative segment that would lead out of it; a client with another prefix has it in a list only
\* if the one prefix lies below the other, whatever the two prefixes and the key are.
THEOREM PrefixesKeepApart ==
    ASSUME NEW T, Client!Slash \in T, NEW base \in Seq(T), base # <<>>,
           ~Client!IsRelative(base), NEW other \in Seq(T), other # <<>>,
           NEW key \in Seq(T), Client!Accepts(base, key)
    PROVE  LET path == Client!PathOfKey(base, key)
               b == base \o <<Client!Slash>>
               o == other \o <<Client!Slash>>
           IN  /\ Client!IsPrefix(b, path) /\ ~Client!IsRelative(path)
               /\ Len(path) > Len(base) + 1 => path[Len(base) + 2] # Client!Slash
               /\ Client!Listed(other, <<>>, {path}) # {} =>
                     Client!IsPrefix(o, b) \/ Client!IsPrefix(b, o)
<1> DEFINE b == base \o <<Client!Slash>>
           o == other \o <<Client!Slash>>
           u == Client!Unled(key)
           path == Client!PathOfKey(base, key)
<1>1. /\ b \in Seq(T) /\ Len(b) = Len(base) + 1 /\ u \in Seq(T) /\ path = b \o u
      /\ \A i \in 1 .. Len(base) : b[i] = base[i]
      /\ b[Len(base) + 1] = Client!Slash
    BY PathIsJoined
<1>2. o \in Seq(T)
    <2>1. <<Client!Slash>> \in Seq(T)
        OBVIOUS
    <2>2. QED
        BY <2>1, ConcatProperties
<1>3. u # <<>> => u[1] # Client!Slash
    BY UnledText
<1>4. ~Client!IsRelative(u)
    BY DEF Client!Accepts
<1>5. Len(base) \in Nat /\ Len(u) \in Nat
    BY <1>1
<1> HIDE DEF b, o, u, path
<1>6. /\ path \in Seq(T) /\ Len(path) = Len(b) + Len(u)
      /\ \A i \in 1 .. Len(b) : path[i] = b[i]
      /\ \A i \in 1 .. Len(u) : path[Len(b) + i] = u[i]
    <2> DEFINE bu == b \o u
    <2>1. b \in Seq(T) /\ u \in Seq(T)
        BY <1>1
    <2>2. /\ bu \in Seq(T) /\ Len(bu) = Len(b) + Len(u)
          /\ \A i \in 1 .. Len(b) : bu[i] = b[i]
          /\ \A i \in 1 .. Len(u) : bu[Len(b) + i] = u[i]
        BY <2>1, Joined
    <2>3. path = bu
        BY <1>1
    <2> HIDE DEF bu
    <2>4. QED
        BY <2>2, <2>3
<1>7. Client!IsPrefix(b, path)
    <2>1. Len(b) <= Len(path)
        BY <1>1, <1>5, <1>6
    <2>2. b \in Seq(T) /\ path \in Seq(T) /\ \A i \in 1 .. Len(b) : b[i] = path[i]
        BY <1>1, <1>6
    <2>3. QED
        BY <2>1, <2>2, Begins
<1>8. ~Client!IsRelative(path)
    <2>1. /\ Len(path) = Len(base) + 1 + Len(u)
          /\ \A i \in 1 .. Len(base) : path[i] = base[i]
          /\ path[Len(base) + 1] = Client!Slash
          /\ \A i \in 1 .. Len(u) : path[Len(base) + 1 + i] = u[i]
        BY <1>1, <1>5, <1>6
    <2>2. QED
        BY <1>1, <1>4, <1>6, <2>1, RelativeParts
<1>9. Len(path) > Len(base) + 1 => path[Len(base) + 2] # Client!Slash
    <2> SUFFICES ASSUME Len(path) > Len(base) + 1
                 PROVE  path[Len(base) + 2] # Client!Slash
        OBVIOUS
    <2>1. 1 \in 1 .. Len(u) /\ Len(b) + 1 = Len(base) + 2
        BY <1>1, <1>5, <1>6
    <2>2. path[Len(base) + 2] = u[1] /\ u # <<>>
        BY <1>6, <2>1
    <2>3. QED
        BY <1>3, <2>2
<1>10. ASSUME Client!Listed(other, <<>>, {path}) # {}
       PROVE  Client!IsPrefix(o, b) \/ Client!IsPrefix(b, o)
    <2>1. Client!ListPrefix(other, <<>>) = o
        BY DEF Client!ListPrefix, o
    <2>2. Client!IsPrefix(o, path)
        BY <1>10, <2>1 DEF Client!Listed
    <2>3. QED
        BY <1>1, <1>2, <1>6, <1>7, <2>2, BeginningsNest
<1>11. QED
    BY <1>7, <1>8, <1>9, <1>10 DEF b, o, path

\* Past a beginning that two texts share, one begins with the other just as before it.
LEMMA SameBeginning ==
    ASSUME NEW T, NEW b \in Seq(T), NEW s \in Seq(T), NEW t \in Seq(T)
    PROVE  Client!IsPrefix(b \o s, b \o t) <=> Client!IsPrefix(s, t)
<1> DEFINE bs == b \o s
           bt == b \o t
           n == Len(b)
<1>1. /\ bs \in Seq(T) /\ bt \in Seq(T) /\ Len(bs) = n + Len(s) /\ Len(bt) = n + Len(t)
    BY ConcatProperties
<1>2. /\ \A i \in 1 .. n : bs[i] = b[i] /\ bt[i] = b[i]
      /\ \A i \in 1 .. Len(s) : bs[n + i] = s[i]
      /\ \A i \in 1 .. Len(t) : bt[n + i] = t[i]
    BY Joined
<1>3. n \in Nat /\ Len(s) \in Nat /\ Len(t) \in Nat
    OBVIOUS
<1> HIDE DEF bs, bt, n
<1>4. Client!IsPrefix(bs, bt) <=> Len(bs) <= Len(bt) /\ \A i \in 1 .. Len(bs) : bs[i] = bt[i]
    <2>1. bs \in Seq(T) /\ bt \in Seq(T)
        BY <1>1
    <2>2. QED
        BY <2>1, Begins
<1>5. Client!IsPrefix(s, t) <=> Len(s) <= Len(t) /\ \A i \in 1 .. Len(s) : s[i] = t[i]
    BY Begins
<1>6. Len(bs) <= Len(bt) <=> Len(s) <= Len(t)
    BY <1>1, <1>3
<1>7. ASSUME Len(s) <= Len(t), \A i \in 1 .. Len(s) : s[i] = t[i]
      PROVE  \A i \in 1 .. Len(bs) : bs[i] = bt[i]
    <2> SUFFICES ASSUME NEW i \in 1 .. Len(bs) PROVE bs[i] = bt[i]
        OBVIOUS
    <2>1. CASE i <= n
        BY <1>2, <1>3, <2>1
    <2>2. CASE i > n
        <3> DEFINE k == i - n
        <3>1. k \in 1 .. Len(s) /\ k \in 1 .. Len(t) /\ i = n + k
            BY <1>1, <1>3, <1>7, <2>2
        <3> HIDE DEF k
        <3>2. QED
            BY <1>2, <1>7, <3>1
    <2>3. QED
        BY <1>1, <1>3, <2>1, <2>2
<1>8. ASSUME Len(s) <= Len(t), \A i \in 1 .. Len(bs) : bs[i] = bt[i]
      PROVE  \A i \in 1 .. Len(s) : s[i] = t[i]
    <2> SUFFICES ASSUME NEW i \in 1 .. Len(s) PROVE s[i] = t[i]
        OBVIOUS
    <2>1. n + i \in 1 .. Len(bs) /\ i \in 1 .. Len(t)
        BY <1>1, <1>3, <1>8
    <2>2. QED
        BY <1>2, <1>8, <2>1
<1>9. QED
    BY <1>4, <1>5, <1>6, <1>7, <1>8 DEF bs, bt

\* list() of a client with a prefix shows an object of its own if and only if the object's key
\* begins with the prefix asked for, slashes at the beginning of either aside; and shows it under
\* that key.
THEOREM ListsKeepToTheirScope ==
    ASSUME NEW T, Client!Slash \in T, NEW base \in Seq(T), base # <<>>, NEW key \in Seq(T),
           Client!Accepts(base, key), NEW asked \in Seq(T)
    PROVE  Client!Listed(base, asked, {Client!PathOfKey(base, key)}) =
              IF Client!IsPrefix(Client!Unled(asked), Client!Unled(key))
                THEN {Client!Unled(key)} ELSE {}
<1> DEFINE b == base \o <<Client!Slash>>
           u == Client!Unled(key)
           a == Client!Unled(asked)
           path == Client!PathOfKey(base, key)
<1>1. b \in Seq(T) /\ u \in Seq(T) /\ a \in Seq(T) /\ path = b \o u
    BY PathIsJoined, UnledText
<1>2. Client!ListPrefix(base, asked) = b \o a
    <2>1. CASE asked = <<>>
        <3>1. Client!ListPrefix(base, asked) = b
            BY <2>1 DEF Client!ListPrefix
        <3>2. a = <<>>
            <4>1. Len(asked) = 0
                BY <2>1
            <4> DEFINE n == Client!Leading(asked)
            <4>2. n \in 0 .. Len(asked)
                BY LeadingSlashes
            <4>3. a = SubSeq(asked, 1, 0)
                <5>1. a = SubSeq(asked, n + 1, Len(asked))
                    BY DEF Client!Unled
                <5> HIDE DEF n, a
                <5>2. n = 0
                    BY <4>1, <4>2
                <5>3. QED
                    BY <4>1, <5>1, <5>2
            <4>4. QED
                BY <4>3, SubSeqEmpty
        <3> HIDE DEF a, b
        <3>3. QED
            BY <1>1, <3>1, <3>2, ConcatEmptySeq
    <2>2. CASE asked # <<>>
        BY <2>2 DEF Client!ListPrefix
    <2>3. QED
        BY <2>1, <2>2
<1>3. Client!IsPrefix(b \o a, path) <=> Client!IsPrefix(a, u)
    <2> HIDE DEF a, b, u, path
    <2>1. QED
        BY <1>1, SameBeginning
<1>4. Client!StripPrefix(base, path) = u
    BY KeysLeadBack
<1>5. Client!Listed(base, asked, {path}) =
         {Client!StripPrefix(base, p) : p \in {p \in {path} : Client!IsPrefix(b \o a, p)}}
    BY <1>2 DEF Client!Listed
<1> HIDE DEF a, b, u, path
<1>6. QED
    BY <1>3, <1>4, <1>5 DEF a, u, path

\* The attempt that ends a call: every one before it met a provider's failure, and so did it
\* only if it was the last allowed.
LEMMA AttemptsEnd ==
    ASSUME NEW retries \in Nat, NEW answers
    PROVE  LET n == Client!LastAttempt(answers, retries)
           IN  /\ n \in 1 .. retries + 1
               /\ \A m \in 1 .. n - 1 : answers[m] = "Provider"
               /\ n < retries + 1 => answers[n] # "Provider"
<1> DEFINE ends == {n \in 1 .. retries + 1 : n = retries + 1 \/ answers[n] # "Provider"}
           P == {n \in 0 .. retries + 1 : \A m \in 1 .. n : m \notin ends}
<1>1. retries + 1 \in ends /\ ends \subseteq 1 .. retries + 1
    OBVIOUS
<1>2. \E n \in ends : \A m \in ends : n <= m
    <2> SUFFICES ASSUME \A n \in ends : \E m \in ends : m < n
                 PROVE  FALSE
        BY <1>1
    <2>1. 0 \in P
        OBVIOUS
    <2>2. ASSUME NEW n \in 1 .. retries + 1, n - 1 \in P
          PROVE  n \in P
        <3> HIDE DEF ends
        <3>1. \A m \in 1 .. n - 1 : m \notin ends
            BY <2>2
        <3>2. n \notin ends
            BY <1>1, <3>1
        <3>3. QED
            BY <3>1, <3>2
    <2> HIDE DEF P, ends
    <2>3. retries + 1 \in Nat
        OBVIOUS
    <2>4. \A n \in 0 .. retries + 1 : n \in P
        BY <2>1, <2>2, <2>3, UpTo
    <2>5. retries + 1 \in P
        BY <2>3, <2>4
    <2>6. QED
        BY <1>1, <2>5 DEF P
<1>3. Client!LastAttempt(answers, retries) = CHOOSE n \in ends : \A m \in ends : n <= m
    BY DEF Client!LastAttempt
<1> DEFINE n == Client!LastAttempt(answers, retries)
<1>4. n \in ends /\ \A m \in ends : n <= m
    <2> HIDE DEF ends
    <2>1. QED
        BY <1>2, <1>3
<1> HIDE DEF n
<1>5. QED
    BY <1>4 DEF n

\* Two sequences of one element, joined.
LEMMA Pair ==
    ASSUME NEW S, NEW a \in S, NEW b \in S
    PROVE  <<a>> \o <<b>> = <<a, b>>
<1>1. <<a>> \in Seq(S) /\ <<b>> \in Seq(S) /\ <<a, b>> \in Seq(S)
    OBVIOUS
<1>2. Len(<<a>> \o <<b>>) = 2 /\ (<<a>> \o <<b>>)[1] = a /\ (<<a>> \o <<b>>)[2] = b
    OBVIOUS
<1>3. \A i \in 1 .. 2 : (<<a>> \o <<b>>)[i] = <<a, b>>[i]
    BY <1>1, <1>2
<1>4. QED
    BY <1>1, <1>2, <1>3, SeqEqual, ConcatProperties

\* However often a call may be retried and whatever the provider answers: it sends another
\* request just after a provider's failure, as long as it may; it rejects if what came last is a
\* failure; and it reports one onRetry for each request but the first, then one onError if it
\* rejects, and one onAction.  A call to write through a read-only instance sends nothing.
THEOREM CallsAreToldInOrder ==
    ASSUME NEW verb \in Client!BulkVerbs, NEW readOnly \in BOOLEAN, NEW stream \in BOOLEAN,
           NEW retries \in Nat, NEW answers \in [1 .. retries + 1 -> Client!Answers]
    PROVE  LET call == Client!CallOne(verb, readOnly, stream, retries, answers)
               allowed == IF verb = "upload" /\ stream THEN 1 ELSE retries + 1
               told == IF call.requests = 0 THEN 0 ELSE call.requests - 1
           IN  /\ IF readOnly /\ verb \in Client!WriteActions
                    THEN call.requests = 0 /\ call.rejects
                  ELSE /\ call.requests \in 1 .. allowed
                       /\ \A m \in 1 .. call.requests - 1 : answers[m] = "Provider"
                       /\ call.requests < allowed => answers[call.requests] # "Provider"
                       /\ call.rejects <=> Client!Failed(verb, answers[call.requests])
               /\ call.hooks = [i \in 1 .. told |-> "onRetry"]
                                 \o (IF call.rejects THEN <<"onError", "onAction">>
                                     ELSE <<"onAction">>)
<1> DEFINE chances == Client!RetriesOf(verb, FALSE, stream, retries)
           last == Client!LastAttempt(answers, chances)
           refused == readOnly /\ verb \in Client!WriteActions
           fails == refused \/ Client!Failed(verb, answers[last])
           call == Client!CallOne(verb, readOnly, stream, retries, answers)
           retried == [n \in 1 .. last - 1 |-> "onRetry"]
           error == IF fails THEN <<"onError">> ELSE <<>>
           before == IF refused THEN <<>> ELSE retried
           Hooks == {"onRetry", "onError", "onAction"}
<1>1. chances = IF verb = "upload" /\ stream THEN 0 ELSE retries
    BY DEF Client!RetriesOf
<1>2. /\ last \in 1 .. chances + 1
      /\ \A m \in 1 .. last - 1 : answers[m] = "Provider"
      /\ last < chances + 1 => answers[last] # "Provider"
    <2> HIDE DEF chances
    <2>1. chances \in Nat
        BY <1>1
    <2>2. QED
        BY <2>1, AttemptsEnd
<1>3. fails \in BOOLEAN /\ refused \in BOOLEAN
    BY DEF Client!Failed
<1>4. call = [requests |-> IF refused THEN 0 ELSE last,
              hooks |-> before \o error \o <<"onAction">>, rejects |-> fails]
    BY DEF Client!CallOne
<1> HIDE DEF call, last, refused, fails, chances, error, before
<1>5. /\ call.requests = IF refused THEN 0 ELSE last
      /\ call.hooks = before \o error \o <<"onAction">> /\ call.rejects = fails
    BY <1>4
<1>6. last \in Nat /\ last >= 1
    BY <1>1, <1>2
<1> DEFINE told == IF call.requests = 0 THEN 0 ELSE call.requests - 1
<1>7. before = [i \in 1 .. told |-> "onRetry"]
    BY <1>5, <1>6 DEF before
<1>8. told \in Nat
    BY <1>5, <1>6
<1> HIDE DEF told
<1>9. before \o error \o <<"onAction">> =
         before \o (IF fails THEN <<"onError", "onAction">> ELSE <<"onAction">>)
    <2> DEFINE end == <<"onAction">>
               both == <<"onError", "onAction">>
    <2>1. before \in Seq(Hooks)
        BY <1>7, <1>8
    <2>2. end \in Seq(Hooks)
        OBVIOUS
    <2>3. CASE fails
        <3>1. error = <<"onError">> /\ error \in Seq(Hooks)
            BY <2>3 DEF error
        <3>2. error \o end = both
            <4>1. "onError" \in Hooks /\ "onAction" \in Hooks
                OBVIOUS
            <4> HIDE DEF Hooks
            <4>2. QED
                BY <3>1, <4>1, Pair
        <3> HIDE DEF end, both, Hooks, before, error
        <3>3. (before \o error) \o end = before \o both
            <4>1. error \in Seq(Hooks)
                BY <3>1
            <4>2. (before \o error) \o end = before \o (error \o end)
                BY <2>1, <2>2, <4>1, ConcatAssociative
            <4>3. QED
                BY <3>2, <4>2
        <3>4. QED
            BY <2>3, <3>3 DEF end, both
    <2>4. CASE ~fails
        <3>1. error = <<>>
            BY <2>4 DEF error
        <3> HIDE DEF end, Hooks
        <3>2. before \o error = before
            BY <2>1, <3>1, ConcatEmptySeq
        <3>3. QED
            BY <2>4, <3>2 DEF end
    <2>5. QED
        BY <2>3, <2>4
<1>10. IF refused THEN call.requests = 0 /\ call.rejects
       ELSE /\ call.requests \in 1 .. chances + 1
            /\ \A m \in 1 .. call.requests - 1 : answers[m] = "Provider"
            /\ call.requests < chances + 1 => answers[call.requests] # "Provider"
            /\ call.rejects <=> Client!Failed(verb, answers[call.requests])
    <2>1. fails <=> refused \/ Client!Failed(verb, answers[last])
        BY DEF fails
    <2>2. QED
        BY <1>2, <1>3, <1>5, <2>1
<1>11. QED
    <2> HIDE DEF retried
    <2> DEFINE allowed == IF verb = "upload" /\ stream THEN 1 ELSE retries + 1
    <2>1. allowed = chances + 1
        BY <1>1
    <2>2. call.hooks = [i \in 1 .. told |-> "onRetry"]
                          \o (IF call.rejects THEN <<"onError", "onAction">>
                              ELSE <<"onAction">>)
        BY <1>5, <1>7, <1>9
    <2> HIDE DEF allowed
    <2>3. IF refused THEN call.requests = 0 /\ call.rejects
          ELSE /\ call.requests \in 1 .. allowed
               /\ \A m \in 1 .. call.requests - 1 : answers[m] = "Provider"
               /\ call.requests < allowed => answers[call.requests] # "Provider"
               /\ call.rejects <=> Client!Failed(verb, answers[call.requests])
        BY <1>10, <2>1
    <2>4. QED
        BY <2>2, <2>3 DEF call, refused, told, allowed

=============================================================================
