------------------------- MODULE OffsetUploadProofs -------------------------
(***************************************************************************)
(* Proofs about OffsetUpload, for every body size, chunk size, number of   *)
(* retries and of resumptions: its type invariant, that what an open       *)
(* session holds is the beginning of the body, and that the loop does what *)
(* UploadPromise says under each of the thirteen drivers; and that the     *)
(* long sessions of Dropbox and OneDrive send the body they are given.     *)
(***************************************************************************)
EXTENDS OffsetUpload, Sequences, SequenceTheorems, FiniteSetTheorems, TLAPS

(***************************************************************************)
(* What the drivers have in common.  The proofs use these facts only, and  *)
(* so hold for any other driver that satisfies them.                       *)
(***************************************************************************)

\* Which fields of a driver go together.
LEMMA DriverFacts ==
    ASSUME driver \in Drivers
    PROVE  /\ driver \in Driver
           /\ driver.write = "append" =>
                 driver.commit = "inplace" /\ driver.offset = "server" /\ driver.cancel = "object"
           /\ driver.commit = "inplace" => driver.write = "append"
           /\ driver.write = "positional" =>
                 driver.commit = "complete" /\ driver.offset = "server" /\ driver.cancel = "session"
           /\ driver.write = "pushed" =>
                 /\ driver.commit \in {"complete", "dropped"}
                 /\ driver.offset = "process" /\ driver.cancel = "session"
           /\ driver.offset = "process" => driver.write = "pushed"
           /\ driver.commit = "dropped" => driver.write = "pushed"
           /\ driver.commit = "complete" => driver.write \in {"positional", "pushed"}
           /\ driver.write \in {"ranged", "checked"} <=> driver.commit = "last"
           /\ driver.offset = "token" => driver.commit = "last"
           /\ driver.cancel = "object" => driver.commit \in {"last", "inplace"}
           /\ driver.proof = "required" => driver.commit = "last" /\ driver.cancel # "object"
BY DEF Drivers, Driver, HttpRanges, Gcs, GoogleDrive, OneDrive, Dropbox, Cloudinary,
       Appwrite, Supabase, Ftp, Sftp, Fs, Memory, Box, BunS3

\* The two drivers whose probe() an action names.
LEMMA NamedDrivers ==
    /\ driver = HttpRanges =>
          /\ driver.offset = "server" /\ driver.write = "ranged"
          /\ driver.commit = "last" /\ driver.proof = "required"
    /\ driver = Supabase =>
          /\ driver.offset = "server" /\ driver.write = "checked"
          /\ driver.commit = "last" /\ driver.proof = "none"
BY DEF HttpRanges, Supabase

LEMMA StartsInvariant == Init => IInv
<1> SUFFICES ASSUME Init PROVE IInv
    OBVIOUS
<1> USE TotalsAssumption, ChunkSizeAssumption, RetriesAssumption, RestartsAssumption
<1> USE DEF Init
<1>1. TypeOK
    <2>1. driver \in Driver /\ total \in Nat /\ held \in Nat
        BY DriverFacts
    <2>2. paused \in BOOLEAN /\ aborted \in BOOLEAN /\ sigAborted \in BOOLEAN
        OBVIOUS
    <2>3. unguarded \in BOOLEAN
        OBVIOUS
    <2>4. offset <= total /\ answer <= total /\ pc # "answered"
        BY <2>1 DEF NoAnswer
    <2>5. QED
        BY <2>1, <2>2, <2>3, <2>4 DEF TypeOK, Pc, NoAnswer, Call
<1>2. QED
    BY <1>1, DriverFacts, NamedDrivers
       DEF IInv, NotBegun, AbortIsFinal, OnlyAppends, InOrder, LateCalls, AppendsApart,
           Behind, Alive, Looping, ListInStep, Renamed, SentToTheEnd, Delivered,
           ObjectWhole, NoAnswer

(***************************************************************************)
(* The invariant is kept: the caller, the program, the provider.           *)
(***************************************************************************)

\* The definitions that say what has to be kept are expanded in every step.
LEMMA CallerKeeps ==
    ASSUME IInv, User
    PROVE  IInv'
<1> USE TotalsAssumption, ChunkSizeAssumption, RetriesAssumption, RestartsAssumption
<1> USE DriverFacts, NamedDrivers
<1> USE DEF IInv, NotBegun, AbortIsFinal, OnlyAppends, InOrder, LateCalls, AppendsApart,
            Behind, Alive, Looping, ListInStep, Renamed, SentToTheEnd, Delivered,
            ObjectWhole, NoAnswer, End, options, control, callers, loop, provider, wire
<1>1. CASE Pause
    BY <1>1 DEF Pause, TypeOK
<1>2. CASE Resume
    <2>1. TypeOK'
        <3>1. pc' \in Pc
            BY <1>2 DEF Resume, TypeOK, Pc
        <3>2. paused' \in BOOLEAN
            BY <1>2 DEF Resume
        <3>3. QED
            BY <1>2, <3>1, <3>2 DEF Resume, TypeOK
    <2>2. QED
        BY <1>2, <2>1 DEF Resume, TypeOK
<1>3. CASE Abort
    <2>1. TypeOK'
        <3>1. pc' \in Pc
            BY <1>3 DEF Abort, TypeOK, Pc
        <3>2. paused' \in BOOLEAN /\ aborted' \in BOOLEAN
            BY <1>3 DEF Abort
        <3>3. QED
            BY <1>3, <3>1, <3>2 DEF Abort, TypeOK
    <2>2. QED
        BY <1>3, <2>1 DEF Abort, TypeOK
<1>4. CASE SignalAbort
    BY <1>4 DEF SignalAbort, TypeOK
<1>5. CASE Persist
    BY <1>5 DEF Persist, TypeOK
<1>6. CASE ResumeHere
    <2>1. TypeOK'
        <3>1. pc' \in Pc /\ restarts' \in 0 .. MaxRestarts
            BY <1>6 DEF ResumeHere, NewControl, TypeOK, Pc
        <3>2. paused' \in BOOLEAN /\ aborted' \in BOOLEAN /\ sigAborted' \in BOOLEAN
            BY <1>6 DEF ResumeHere, NewControl
        <3>3. QED
            BY <1>6, <3>1, <3>2 DEF ResumeHere, NewControl, TypeOK
    <2>2. QED
        BY <1>6, <2>1 DEF ResumeHere, NewControl, TypeOK
<1>7. CASE Crash
    <2>1. TypeOK'
        <3>1. pc' \in Pc /\ restarts' \in 0 .. MaxRestarts
            BY <1>7 DEF Crash, NewControl, TypeOK, Pc
        <3>2. paused' \in BOOLEAN /\ aborted' \in BOOLEAN /\ sigAborted' \in BOOLEAN
            BY <1>7 DEF Crash, NewControl
        <3>3. late' \subseteq Call
            BY <1>7 DEF Crash, NewControl, TypeOK, Call
        <3>4. QED
            BY <1>7, <3>1, <3>2, <3>3 DEF Crash, NewControl, TypeOK
    <2>2. QED
        BY <1>7, <2>1 DEF Crash, NewControl, Network, Sending, TypeOK, Call
<1>8. CASE Upload
    BY <1>8 DEF Upload, TypeOK, Pc
<1>9. QED
    BY <1>1, <1>2, <1>3, <1>4, <1>5, <1>6, <1>7, <1>8 DEF User

LEMMA RunKeeps ==
    ASSUME IInv, Run \/ AbortReturns
    PROVE  IInv'
<1> USE TotalsAssumption, ChunkSizeAssumption, RetriesAssumption, RestartsAssumption
<1> USE DriverFacts, NamedDrivers
<1> USE DEF IInv, TypeOK, NotBegun, AbortIsFinal, OnlyAppends, InOrder, LateCalls,
            AppendsApart, Behind, Alive, Looping, ListInStep, Renamed, SentToTheEnd,
            Delivered, ObjectWhole, NoAnswer, End, Pc, options, control, callers, loop,
            provider, wire
<1>1. CASE BeginReturns
    BY <1>1 DEF BeginReturns, Establish
<1>2. CASE ProbeReturns
    BY <1>2 DEF ProbeReturns, Establish, Clamped, Probed, ProbeAnswers
<1>3. CASE EstablishFails
    BY <1>3 DEF EstablishFails, RejectRun
<1>4. CASE CleanupReturns
    BY <1>4 DEF CleanupReturns, RejectRun
<1>5. CASE LoopHead
    BY <1>5 DEF LoopHead, Step
<1>6. CASE Gate
    BY <1>6 DEF Gate, Step
<1>7. CASE SliceFails
    BY <1>7 DEF SliceFails, Step
<1>8. CASE StartAttempt
    BY <1>8 DEF StartAttempt, Step
<1>9. CASE ReplyArrives
    BY <1>9 DEF ReplyArrives
<1>10. CASE AttemptRetries
    <2>1. TypeOK' /\ driver' \in Drivers
        BY <1>10 DEF AttemptRetries, GiveUp, Network, Sending, Call
    <2>2. NotBegun' /\ AbortIsFinal' /\ OnlyAppends'
        BY <1>10 DEF AttemptRetries, GiveUp, Network, Sending, Call
    <2>3. ASSUME ~unguarded'
          PROVE  InOrder'
        <3>1. ~unguarded
            BY <1>10, <2>3 DEF AttemptRetries
        <3>2. LateCalls'
            BY <1>10, <3>1 DEF AttemptRetries, GiveUp, Network, Sending, Call
        <3>3. AppendsApart'
            BY <1>10, <3>1 DEF AttemptRetries, GiveUp, Network, Sending, Call
        <3>4. Behind'
            BY <1>10, <3>1 DEF AttemptRetries
        <3>5. ListInStep' /\ Renamed'
            BY <1>10, <3>1 DEF AttemptRetries, CallBreaks, Cancelled
        <3>6. SentToTheEnd' /\ ObjectWhole'
            BY <1>10, <3>1 DEF AttemptRetries
        <3>7. QED
            BY <3>2, <3>3, <3>4, <3>5, <3>6
    <2>4. QED
        BY <2>1, <2>2, <2>3
<1>11. CASE BackoffElapses
    BY <1>11 DEF BackoffElapses, Step
<1>12. CASE AttemptFails
    BY <1>12 DEF AttemptFails, RejectRun, GiveUp, Network, Sending, Call
<1>13. CASE LoopContinues
    <2>1. offset' \in Nat /\ TypeOK' /\ driver' \in Drivers
        <3>1. answer \in Nat
            BY <1>13 DEF LoopContinues
        <3>2. ~unguarded => answer <= total
            BY <1>13 DEF LoopContinues
        <3>3. QED
            BY <1>13, <3>1, <3>2 DEF LoopContinues
    <2>2. NotBegun' /\ AbortIsFinal' /\ OnlyAppends'
        BY <1>13 DEF LoopContinues
    <2>3. ASSUME ~unguarded'
          PROVE  InOrder'
        BY <1>13, <2>3 DEF LoopContinues
    <2>4. QED
        BY <2>1, <2>2, <2>3
<1>14. CASE CompleteReturns
    BY <1>14 DEF CompleteReturns, Step, Completed
<1>15. CASE CompleteFails
    BY <1>15 DEF CompleteFails, Step, Completed
<1>16. CASE AbortReturns
    BY <1>16 DEF AbortReturns
<1>17. QED
    BY <1>1, <1>2, <1>3, <1>4, <1>5, <1>6, <1>7, <1>8, <1>9, <1>10, <1>11, <1>12,
       <1>13, <1>14, <1>15, <1>16 DEF Run, Attempt

LEMMA ProviderKeeps ==
    ASSUME IInv, Provide
    PROVE  IInv'
<1> USE TotalsAssumption, ChunkSizeAssumption, RetriesAssumption, RestartsAssumption
<1> USE DriverFacts, NamedDrivers
<1> USE DEF IInv, TypeOK, NotBegun, AbortIsFinal, OnlyAppends, InOrder, LateCalls,
            AppendsApart, Behind, Alive, Looping, ListInStep, Renamed, SentToTheEnd,
            Delivered, ObjectWhole, NoAnswer, End, Pc, options, control, callers, loop,
            provider, wire
<1>1. CASE BeginLands
    BY <1>1 DEF BeginLands
<1>2. ASSUME NEW n \in 0 .. ChunkSize, ChunkLands(n)
      PROVE  IInv'
    <2>1. TypeOK' /\ driver' \in Drivers
        BY <1>2 DEF ChunkLands, Sending, Takes, Write, HeldAfter, InPlace, AnswerFor, IsLast
    <2>2. NotBegun' /\ AbortIsFinal' /\ OnlyAppends'
        BY <1>2 DEF ChunkLands, Sending, Takes, Write
    <2>3. ASSUME ~unguarded'
          PROVE  InOrder'
        <3>1. ~unguarded /\ unguarded' = unguarded /\ late' = late /\ pc' = "landed"
            BY <1>2, <2>3 DEF ChunkLands
        <3>2. /\ driver' = driver /\ total' = total /\ noted' = noted /\ savedAt' = savedAt
              /\ offset' = offset
            BY <1>2 DEF ChunkLands
        <3>3. driver.write = "append" =>
                /\ server = "open" /\ server' = "open" /\ offset = held
                /\ \A c \in late : c.stage # "writing"
            BY <1>2, <3>1 DEF ChunkLands, Sending, Write
        <3>4. (Alive' => Alive) /\ (Alive => held <= held')
            BY <1>2, <3>1, <3>3 DEF ChunkLands, Sending, Takes, Write, HeldAfter
        <3>5. held \in Int /\ held' \in Int /\ \A c \in late : c.at \in Int /\ c.upTo \in Int
            BY <2>1 DEF Call
        <3>6. LateCalls'
            BY <3>1, <3>2, <3>4, <3>5
        <3>7. AppendsApart'
            BY <3>1, <3>2, <3>3
        <3>8. Behind'
            <4>1. Alive => offset + n <= held' /\ held <= held' /\ held' <= total /\ order' = "kept"
                BY <1>2, <3>1, <3>3 DEF ChunkLands, Sending, Takes, Write, HeldAfter, InPlace
            <4>2. Alive => answer' <= held'
                BY <1>2, <3>1, <3>3, <4>1
                   DEF ChunkLands, Sending, Takes, Write, HeldAfter, AnswerFor
            <4>3. driver.offset = "token" => answer' \in {NoAnswer, End'}
                BY <1>2 DEF ChunkLands, AnswerFor
            <4>4. offset \in Int /\ noted \in Int /\ savedAt \in Int
                BY <2>1
            <4>5. QED
                BY <3>1, <3>2, <3>4, <3>5, <4>1, <4>2, <4>3, <4>4
        <3>9. ListInStep' /\ Renamed'
            BY <1>2, <3>1
               DEF ChunkLands, Sending, Takes, Write, HeldAfter, InPlace, AnswerFor, IsLast
        <3>10. SentToTheEnd'
            BY <1>2, <3>1, <3>3
               DEF ChunkLands, Sending, Takes, Write, HeldAfter, InPlace, AnswerFor, IsLast
        <3>11. ObjectWhole'
            BY <1>2, <3>1, <3>3
               DEF ChunkLands, Sending, Takes, Write, HeldAfter, InPlace, AnswerFor, IsLast
        <3>12. QED
            BY <3>6, <3>7, <3>8, <3>9, <3>10, <3>11
    <2>4. QED
        BY <2>1, <2>2, <2>3
<1>3. CASE SizeDiffers
    BY <1>3 DEF SizeDiffers, SizeKnown, Fits
<1>4. CASE CompleteLands
    BY <1>4 DEF CompleteLands
<1>5. CASE DiscardLands
    BY <1>5 DEF DiscardLands, Writing
<1>6. ASSUME NEW n \in 0 .. ChunkSize, NEW c \in late, LateLands(c, n)
      PROVE  IInv'
    <2>1. TypeOK' /\ driver' \in Drivers
        BY <1>6 DEF LateLands, Takes, Write, HeldAfter, InPlace, Call
    <2>2. NotBegun' /\ AbortIsFinal' /\ OnlyAppends'
        BY <1>6 DEF LateLands, Takes, Write, HeldAfter, InPlace, Call
    <2>3. ASSUME ~unguarded'
          PROVE  InOrder'
        <3>1. ~unguarded
            BY <1>6, <2>3 DEF LateLands
        <3>2. LateCalls'
            BY <1>6, <3>1 DEF LateLands, Takes, Write, HeldAfter, InPlace, Call
        <3>3. AppendsApart'
            BY <1>6, <3>1 DEF LateLands, Takes, Write
        <3>4. Behind'
            BY <1>6, <3>1 DEF LateLands, Takes, Write, HeldAfter, InPlace, Call
        <3>5. ListInStep' /\ Renamed'
            BY <1>6, <3>1 DEF LateLands, Takes, Write, HeldAfter, InPlace, Call
        <3>6. SentToTheEnd'
            BY <1>6, <3>1 DEF LateLands, Takes, Write, HeldAfter, InPlace, Call
        <3>7. ObjectWhole'
            BY <1>6, <3>1 DEF LateLands, Takes, Write, HeldAfter, InPlace, Call
        <3>8. QED
            BY <3>2, <3>3, <3>4, <3>5, <3>6, <3>7
    <2>4. QED
        BY <2>1, <2>2, <2>3
<1>7. ASSUME NEW c \in late, LateReply(c)
      PROVE  IInv'
    <2>1. TypeOK' /\ driver' \in Drivers
        <3>1. ~unguarded
            BY <1>7, DriverFacts DEF LateReply, Call
        <3>2. QED
            BY <1>7, <3>1 DEF LateReply, Call
    <2>2. NotBegun' /\ AbortIsFinal' /\ OnlyAppends'
        BY <1>7 DEF LateReply, Call
    <2>3. ASSUME ~unguarded'
          PROVE  InOrder'
        BY <1>7, <2>3 DEF LateReply, Call
    <2>4. QED
        BY <2>1, <2>2, <2>3
<1>8. CASE SizeChecked
    <2>1. /\ unguarded' \in BOOLEAN /\ (unguarded => unguarded')
          /\ ~unguarded' => ~Writing /\ offset = held /\ server # "gone"
        BY <1>8 DEF SizeChecked, Passes, Fits, SizeKnown, Writing
    <2>2. TypeOK' /\ driver' \in Drivers
        BY <1>8, <2>1 DEF SizeChecked
    <2>3. NotBegun' /\ AbortIsFinal' /\ OnlyAppends'
        BY <1>8, <2>1 DEF SizeChecked
    <2>4. ASSUME ~unguarded'
          PROVE  InOrder'
        <3>1. server = "open"
            BY <1>8, <2>1, <2>4, DriverFacts DEF SizeChecked
        <3>2. QED
            BY <1>8, <2>1, <2>4, <3>1 DEF SizeChecked, Writing
    <2>5. QED
        BY <2>2, <2>3, <2>4
<1>9. ASSUME NEW c \in late, LateSize(c)
      PROVE  IInv'
    <2> DEFINE d == [c EXCEPT !.stage = "writing"]
    <2>1. c \in Call /\ d \in Call /\ d.at = c.at /\ d.upTo = c.upTo /\ d.stage = "writing"
        BY DEF Call
    <2>2. \/ late' = (late \ {c}) \cup {d} /\ Passes(c.at)
          \/ late' = late \ {c} /\ unguarded' = unguarded
        BY <1>9 DEF LateSize
    <2>3. unguarded' \in BOOLEAN /\ (unguarded => unguarded')
        BY <2>2 DEF Passes, Writing
    <2>4. Passes(c.at) /\ ~unguarded' => ~Writing /\ c.at = held /\ server # "gone"
        BY DEF Passes, Fits, SizeKnown, Writing
    <2> HIDE DEF d
    <2>5. TypeOK' /\ driver' \in Drivers
        BY <1>9, <2>1, <2>2, <2>3 DEF LateSize
    <2>6. NotBegun' /\ AbortIsFinal' /\ OnlyAppends'
        <3>1. driver.write = "append" /\ late # {}
            BY <1>9 DEF LateSize
        <3>2. NotBegun' /\ AbortIsFinal'
            BY <1>9, <3>1 DEF LateSize
        <3>3. OnlyAppends'
            BY <1>9, <2>1, <2>2, <3>1 DEF LateSize
        <3>4. QED
            BY <3>2, <3>3
    <2>7. ASSUME ~unguarded'
          PROVE  InOrder'
        <3>1. driver.write = "append"
            BY <1>9, <2>3, <2>7 DEF LateSize
        <3>2. LateCalls'
            BY <1>9, <2>1, <2>2, <2>3, <2>7, <3>1 DEF LateSize
        <3>3. AppendsApart'
            <4>1. Passes(c.at) => server = "open"
                BY <2>3, <2>4, <2>7, <3>1
            <4>2. QED
                BY <1>9, <2>1, <2>2, <2>3, <2>4, <2>7, <3>1, <4>1 DEF LateSize, Writing
        <3>4. Behind'
            BY <1>9, <2>3, <2>7 DEF LateSize
        <3>5. ListInStep' /\ Renamed' /\ SentToTheEnd' /\ ObjectWhole'
            BY <1>9, <2>3, <2>7, <3>1 DEF LateSize
        <3>6. QED
            BY <3>2, <3>3, <3>4, <3>5
    <2>8. QED
        BY <2>5, <2>6, <2>7
<1>10. QED
    BY <1>1, <1>2, <1>3, <1>4, <1>5, <1>6, <1>7, <1>8, <1>9 DEF Provide

\* The invariant holds in every reachable state.
THEOREM OffsetInvariance == Spec => []IInv
<1>1. IInv /\ [Next]_vars => IInv'
    <2>1. ASSUME IInv, UNCHANGED vars
          PROVE  IInv'
        BY <2>1 DEF vars, options, control, callers, loop, provider, wire, IInv, TypeOK,
                    NotBegun, AbortIsFinal, OnlyAppends, InOrder, LateCalls, AppendsApart,
                    Behind, Alive, Looping, ListInStep, Renamed, SentToTheEnd, Delivered,
                    ObjectWhole, End
    <2>2. QED
        BY <2>1, CallerKeeps, RunKeeps, ProviderKeeps DEF Next
<1>2. QED
    BY StartsInvariant, <1>1, PTL DEF Spec

(***************************************************************************)
(* The theorems.                                                           *)
(***************************************************************************)

\* TypeOK: the offset and the token never pass the end of the body, wherever the
\* driver says the session is, and no chunk is retried more than it may be.
THEOREM OffsetTyped == Spec => []TypeOK
<1>1. IInv => TypeOK
    BY DEF IInv
<1>2. QED
    BY OffsetInvariance, <1>1, PTL

\* StreamInOrder: whatever is retried, lost, stored in part, answered late or
\* resumed after a crash, no byte is skipped, repeated or out of place, unless an
\* append went without the size check it relies upon: on no size at all, or with
\* another append between its check and its end.
THEOREM StreamStaysInOrder == Spec => []StreamInOrder
<1>1. IInv => StreamInOrder
    BY DEF IInv, InOrder, Behind, Alive, StreamInOrder
<1>2. QED
    BY OffsetInvariance, <1>1, PTL

(***************************************************************************)
(* The refinement of UploadPromise.                                        *)
(***************************************************************************)

\* What the invariant says of the object, in the promise's terms.
LEMMA ObjectFacts ==
    ASSUME IInv, ~unguarded
    PROVE  /\ object \in {"absent", "partial", "whole"}
           /\ server = "gone" /\ driver.cancel = "object" => aborted
           /\ abortPc = "discarding" \/ pc = "cleaning" => aborted
           /\ pc = "completing" /\ Completed =>
                 object = "whole" \/ (Revoked /\ server = "gone")
<1>1. object \in {"absent", "partial", "whole"}
    BY DEF IInv, InOrder, TypeOK, ObjectWhole
<1>2. pc = "completing" => offset = total
    BY DEF IInv, InOrder, Behind
<1>3. QED
    BY <1>1, <1>2, DriverFacts
       DEF IInv, InOrder, TypeOK, Driver, AbortIsFinal, SentToTheEnd, Delivered, ObjectWhole,
           Completed, Revoked

\* A write makes the object appear, or the promise sees no change.
LEMMA WriteCommits ==
    ASSUME IInv, IInv', ~unguarded, UNCHANGED unguarded,
           NEW at \in Nat, NEW n \in Nat, Takes(at), Write(at, n),
           driver.write = "append" => server = "open" /\ at = held,
           UNCHANGED <<driver, total, aborted>>
    PROVE  Stored' = Stored \/ (Stored = "absent" /\ Stored' = "whole")
<1>1. object \in {"absent", "partial", "whole"} /\ object' \in {"absent", "partial", "whole"}
    BY DEF IInv, InOrder, TypeOK, ObjectWhole
<1>2. CASE object' = object
    <2>1. Revoked' = Revoked
        BY DEF Revoked
    <2>2. Revoked => (server = "gone" <=> server' = "gone")
        BY DriverFacts DEF IInv, InOrder, AppendsApart, Takes, Write, Revoked
    <2>3. QED
        BY <1>2, <2>1, <2>2 DEF Stored
<1>3. CASE object' # object
    <2>1. server # "gone" /\ server' # "gone"
        BY <1>3, DriverFacts DEF IInv, InOrder, TypeOK, Driver, Takes, Write
    <2>2. object # "whole"
        <3>1. CASE driver.commit = "last"
            BY <1>1, <1>3, <3>1 DEF Write
        <3>2. CASE driver.commit = "inplace"
            <4>1. object = "whole" => held = total /\ order = "kept" /\ held' = held + n
                BY <2>1, <3>2, DriverFacts
                   DEF IInv, InOrder, ObjectWhole, Behind, Alive, Takes, Write, HeldAfter
            <4>2. held' <= total /\ order' = "kept"
                BY <2>1, <3>2, DriverFacts DEF IInv, InOrder, Behind, Alive, Takes, Write
            <4>3. object = "whole" => object' = "whole"
                BY <3>2, <4>1, <4>2 DEF Write, IInv, TypeOK
            <4>4. QED
                BY <1>3, <4>3
        <3>3. QED
            BY <1>3, <3>1, <3>2 DEF Write
    <2>3. QED
        BY <1>1, <1>3, <2>1, <2>2 DEF Stored
<1>4. QED
    BY <1>2, <1>3

\* A step of the provider commits the object, withdraws it, or is not seen.
LEMMA ProviderImplements ==
    ASSUME IInv, IInv', ~unguarded', Provide
    PROVE  [Promise!Next]_(Promise!pvars)
<1> USE DEF options, control, callers, loop, provider, wire
<1> ~unguarded
    BY DEF Provide, BeginLands, SizeChecked, SizeDiffers, CompleteLands, DiscardLands,
           ChunkLands, LateLands, LateSize, LateReply, Passes
<1>1. UNCHANGED <<driver, total, aborted>> /\ UNCHANGED Revoked
    BY DEF Provide, BeginLands, SizeChecked, SizeDiffers, CompleteLands, DiscardLands,
           ChunkLands, LateLands, LateSize, LateReply, Revoked
<1>2. UNCHANGED (IF Settled THEN pc ELSE "pending")
    BY DEF Provide, BeginLands, SizeChecked, SizeDiffers, CompleteLands, DiscardLands,
           ChunkLands, LateLands, LateSize, LateReply, Sending, Settled
<1>3. ASSUME Stored' = Stored \/ (Stored = "absent" /\ Stored' = "whole")
      PROVE  [Promise!Next]_(Promise!pvars)
    BY <1>1, <1>2, <1>3 DEF Promise!Next, Promise!Commit, Promise!pvars
<1>4. CASE \/ BeginLands \/ SizeChecked \/ SizeDiffers
           \/ \E c \in late : LateSize(c) \/ LateReply(c)
    <2>1. UNCHANGED object /\ (server' = "gone" <=> server = "gone")
        BY <1>4 DEF BeginLands, SizeChecked, SizeDiffers, LateSize, LateReply
    <2>2. QED
        BY <1>1, <1>3, <2>1 DEF Stored
<1>5. ASSUME NEW n \in 0 .. ChunkSize, ChunkLands(n)
      PROVE  [Promise!Next]_(Promise!pvars)
    <2>1. UNCHANGED unguarded /\ offset \in Nat /\ n \in Nat
        BY <1>5 DEF ChunkLands, IInv, TypeOK
    <2>2. driver.write = "append" => server = "open" /\ offset = held
        BY <1>5, <2>1 DEF ChunkLands, Sending, IInv, InOrder, AppendsApart
    <2>3. QED
        BY <1>1, <1>3, <1>5, <2>1, <2>2, WriteCommits DEF ChunkLands
<1>6. ASSUME NEW n \in 0 .. ChunkSize, NEW c \in late, LateLands(c, n)
      PROVE  [Promise!Next]_(Promise!pvars)
    <2>1. UNCHANGED unguarded /\ c.at \in Nat /\ n \in Nat
        BY <1>6 DEF LateLands, IInv, TypeOK, Call
    <2>2. driver.write = "append" => server = "open" /\ c.at = held
        BY <1>6, <2>1 DEF LateLands, IInv, InOrder, AppendsApart
    <2>3. CASE Takes(c.at)
        BY <1>1, <1>3, <1>6, <2>1, <2>2, <2>3, WriteCommits DEF LateLands
    <2>4. CASE ~Takes(c.at)
        BY <1>1, <1>3, <1>6, <2>4 DEF LateLands, Stored
    <2>5. QED
        BY <2>3, <2>4
<1>7. CASE CompleteLands
    <2>1. ~Revoked /\ object # "broken" /\ object' = "whole"
        BY <1>7, DriverFacts DEF CompleteLands, IInv, InOrder, ObjectWhole, Revoked
    <2>2. QED
        BY <1>1, <1>3, <2>1 DEF IInv, TypeOK, Stored
<1>8. CASE DiscardLands
    <2>1. server' = "gone" /\ server # "gone"
        BY <1>8 DEF DiscardLands
    <2>2. CASE driver.cancel = "object"
        <3>1. Revoked /\ object' = "absent"
            BY <1>8, <2>2, ObjectFacts DEF DiscardLands, Revoked
        <3>2. Stored' = "withdrawn"
            BY <1>1, <2>1, <3>1 DEF Stored
        <3>3. QED
            BY <1>1, <1>2, <3>1, <3>2 DEF Promise!Next, Promise!Withdraw
    <2>3. CASE driver.cancel # "object"
        BY <1>1, <1>3, <1>8, <2>3 DEF DiscardLands, Revoked, Stored
    <2>4. QED
        BY <2>2, <2>3
<1>9. QED
    BY <1>4, <1>5, <1>6, <1>7, <1>8 DEF Provide

\* Only the provider's steps, those of late calls among them, lose the guard.
LEMMA UsersKeepGuard ==
    ASSUME User \/ Run \/ AbortReturns
    PROVE  UNCHANGED unguarded
BY DEF User, Pause, Resume, Abort, SignalAbort, Persist, ResumeHere, Crash, Upload,
       Run, BeginReturns, ProbeReturns, EstablishFails, CleanupReturns, LoopHead, Gate,
       SliceFails, Attempt, StartAttempt, ReplyArrives, AttemptRetries, BackoffElapses,
       AttemptFails, LoopContinues, CompleteReturns, CompleteFails, Step, AbortReturns, wire

\* A step of the program, or of the caller, settles the promise, starts it
\* again, revokes it, or is not seen.
LEMMA OthersImplement ==
    ASSUME IInv, IInv', ~unguarded, User \/ Run \/ AbortReturns
    PROVE  [Promise!Next]_(Promise!pvars)
<1> USE DEF options, control, callers, loop, provider, wire
<1>1. UNCHANGED <<driver, total, object>>
    BY DEF User, Pause, Resume, Abort, SignalAbort, Persist, ResumeHere, NewControl, Crash,
           Upload, AbortReturns, Run, BeginReturns, ProbeReturns, EstablishFails,
           CleanupReturns, LoopHead, Gate, SliceFails, Attempt, StartAttempt, ReplyArrives,
           AttemptRetries, BackoffElapses, AttemptFails, LoopContinues, CompleteReturns,
           CompleteFails, Step
<1>2. driver.cancel = "object" => UNCHANGED server
    BY DriverFacts
       DEF IInv, User, Pause, Resume, Abort, SignalAbort, Persist, ResumeHere, NewControl,
           Crash, Upload, AbortReturns, Run, BeginReturns, ProbeReturns, EstablishFails,
           CleanupReturns, LoopHead, Gate, SliceFails, Attempt, StartAttempt, ReplyArrives,
           AttemptRetries, BackoffElapses, AttemptFails, LoopContinues, CompleteReturns,
           CompleteFails, Step
<1>3. Stored' = Stored
    <2>1. driver.cancel = "object" /\ server = "gone" => aborted /\ aborted'
        BY <1>1, <1>2, DriverFacts DEF IInv, AbortIsFinal
    <2>2. QED
        BY <1>1, <1>2, <2>1 DEF Stored, Revoked
<1>4. ASSUME aborted' = aborted, Settled => pc' = pc,
             pc' # "resolved" \/ pc = "resolved"
      PROVE  [Promise!Next]_(Promise!pvars)
    BY <1>1, <1>3, <1>4 DEF Settled, Revoked, Promise!Next, Promise!Reject, Promise!pvars
<1>5. CASE Abort
    BY <1>1, <1>3, <1>5
       DEF Abort, Settled, Revoked, Promise!Next, Promise!Revoke, Promise!pvars
<1>6. CASE ResumeHere \/ Crash
    <2>1. ~aborted /\ ~aborted' /\ pc # "resolved" /\ pc' = "idle"
        BY <1>6 DEF ResumeHere, Crash, NewControl, IInv, AbortIsFinal
    <2>2. QED
        BY <1>1, <1>3, <2>1
           DEF Settled, Revoked, Promise!Next, Promise!StartAgain, Promise!pvars
<1>7. CASE CompleteReturns
    <2>1. pc = "completing" /\ pc' = "resolved" /\ aborted' = aborted
        BY <1>7 DEF CompleteReturns, Step
    <2>2. Stored \in {"whole", "withdrawn"}
        BY <1>7, ObjectFacts DEF CompleteReturns, Stored
    <2>3. QED
        BY <1>1, <1>3, <2>1, <2>2 DEF Settled, Revoked, Promise!Next, Promise!Resolve
<1>8. CASE Pause \/ Resume \/ SignalAbort \/ Persist \/ Upload \/ AbortReturns
    BY <1>4, <1>8
       DEF Pause, Resume, SignalAbort, Persist, Upload, AbortReturns, Settled
<1>9. CASE \/ BeginReturns \/ ProbeReturns \/ EstablishFails \/ CleanupReturns
           \/ LoopHead \/ Gate \/ SliceFails \/ Attempt \/ LoopContinues \/ CompleteFails
    BY <1>4, <1>9
       DEF BeginReturns, ProbeReturns, Establish, EstablishFails, CleanupReturns, RejectRun,
           LoopHead, Gate, SliceFails, Attempt, StartAttempt, ReplyArrives, AttemptRetries,
           BackoffElapses, AttemptFails, LoopContinues, CompleteFails, Step, Settled
<1>10. QED
    BY <1>5, <1>6, <1>7, <1>8, <1>9 DEF User, Run

\* ImplementsPromise: under every driver, a resumable upload in offset mode does
\* what UploadPromise says, for as long as every append kept its guard.
THEOREM OffsetRefinement == Spec => ImplementsPromise
<1>1. Init => Promise!Init
    BY DEF Init, Promise!Init, Settled, Stored, Revoked
<1>2. IInv /\ IInv' /\ [Next]_vars => [Promise!Next \/ unguarded']_(Promise!pvars)
    <2>1. UNCHANGED vars => UNCHANGED (Promise!pvars)
        BY DEF vars, options, control, loop, provider, Promise!pvars, Settled, Stored, Revoked
    <2>2. ASSUME IInv, IInv', ~unguarded', Next
          PROVE  [Promise!Next]_(Promise!pvars)
        <3>1. CASE Provide
            BY <2>2, <3>1, ProviderImplements
        <3>2. CASE User \/ Run \/ AbortReturns
            BY <2>2, <3>2, UsersKeepGuard, OthersImplement
        <3>3. QED
            BY <2>2, <3>1, <3>2 DEF Next
    <2>3. QED
        BY <2>1, <2>2
<1>3. QED
    BY <1>1, <1>2, OffsetInvariance, PTL DEF Spec, ImplementsPromise

(***************************************************************************)
(* Long sessions.  uploadSession() of Dropbox and uploadViaSession() of    *)
(* OneDrive split a body that one request cannot hold, in loops of their   *)
(* own that no resumable driver takes part in.  Uploads.tla models them as *)
(* recursive functions of the offset; here they are shown to send every    *)
(* body in order and each byte once, by induction on what is left.         *)
(***************************************************************************)

Long == INSTANCE Uploads

\* A set of numbers has a least: the intervals below its members have a smallest.
LEMMA LeastNumber ==
    ASSUME NEW T \in SUBSET Nat, T # {}
    PROVE  \E n \in T : \A m \in T : n <= m
<1> DEFINE F == {0 .. n : n \in T}
<1>1. F \subseteq FiniteSubsetsOf(Nat)
    <2> SUFFICES ASSUME NEW n \in T PROVE 0 .. n \in FiniteSubsetsOf(Nat)
        OBVIOUS
    <2>1. IsFiniteSet(0 .. n)
        BY FS_Interval
    <2>2. QED
        BY <2>1 DEF FiniteSubsetsOf
<1>2. F # {}
    OBVIOUS
<1>3. PICK A \in F : \A B \in F : <<B, A>> \notin StrictSubsetOrdering(Nat)
    <2> HIDE DEF F
    <2>1. IsWellFoundedOn(StrictSubsetOrdering(Nat), FiniteSubsetsOf(Nat))
        BY FS_StrictSubsetOrderingWellFounded
    <2>2. QED
        BY <1>1, <1>2, <2>1, WFMin
<1>4. PICK n \in T : A = 0 .. n
    BY <1>3
<1>5. \A m \in T : n <= m
    <2> SUFFICES ASSUME NEW m \in T, m < n PROVE FALSE
        OBVIOUS
    <2>1. 0 .. m \in SUBSET Nat /\ 0 .. n \in SUBSET Nat /\ 0 .. m \subseteq 0 .. n
        OBVIOUS
    <2>2. n \in 0 .. n /\ n \notin 0 .. m
        OBVIOUS
    <2>3. <<0 .. m, 0 .. n>> \in StrictSubsetOrdering(Nat)
        BY <2>1, <2>2 DEF StrictSubsetOrdering
    <2>4. QED
        BY <1>3, <1>4, <2>3
<1>6. QED
    BY <1>5

\* Induction, in the form the provers can use.
LEMMA Induct ==
    ASSUME NEW S \in SUBSET Nat, 0 \in S, \A n \in S : n + 1 \in S
    PROVE  S = Nat
<1> SUFFICES ASSUME Nat \ S # {} PROVE FALSE
    OBVIOUS
<1>1. PICK n \in Nat \ S : \A m \in Nat \ S : n <= m
    BY LeastNumber
<1>2. n # 0 /\ n - 1 \in Nat /\ n - 1 \in S
    BY <1>1
<1>3. QED
    BY <1>1, <1>2

\* A set that holds the upper upTo of an interval, and with a number the one below, holds
\* the whole interval.
LEMMA Downward ==
    ASSUME NEW lo \in Nat, NEW hi \in Nat, lo <= hi, NEW S, hi \in S,
           \A k \in lo .. hi : k \in S /\ k > lo => k - 1 \in S
    PROVE  \A k \in lo .. hi : k \in S
<1> DEFINE T == {n \in Nat : n > hi - lo \/ hi - n \in S}
<1>1. 0 \in T
    OBVIOUS
<1>2. ASSUME NEW n \in T PROVE n + 1 \in T
    <2>1. CASE n + 1 > hi - lo
        BY <2>1
    <2>2. CASE n + 1 <= hi - lo
        <3>1. hi - n \in lo .. hi /\ hi - n > lo /\ hi - n \in S
            BY <2>2
        <3>2. hi - (n + 1) = (hi - n) - 1
            OBVIOUS
        <3>3. QED
            BY <3>1, <3>2
    <2>3. QED
        BY <2>1, <2>2
<1>3. T = Nat
    <2>1. T \in SUBSET Nat
        OBVIOUS
    <2> HIDE DEF T
    <2>2. QED
        BY <1>1, <1>2, <2>1, Induct
<1>4. SUFFICES ASSUME NEW k \in lo .. hi PROVE k \in S
    OBVIOUS
<1>5. hi - k \in Nat /\ hi - (hi - k) = k /\ ~(hi - k > hi - lo)
    OBVIOUS
<1>6. QED
    BY <1>3, <1>5

\* A run of a loop from every place: f[o] is what is sent from o on.
Runs(lo, hi, stop, next, sends, ends, f) ==
    /\ f = [o \in lo .. hi |-> f[o]]
    /\ \A o \in lo .. hi : f[o] = IF o \in stop THEN ends[o] ELSE <<sends[o]>> \o f[next[o]]

HasRun(lo, hi, stop, next, sends, ends) == \E f : Runs(lo, hi, stop, next, sends, ends, f)

\* A loop that moves on from each place short of `stop` has a run from every place.
LEMMA LoopsRun ==
    ASSUME NEW lo \in Nat, NEW hi \in Nat, lo <= hi, NEW stop, hi \in stop,
           NEW next, \A o \in lo .. hi : o \notin stop => next[o] \in o + 1 .. hi,
           NEW sends, NEW ends
    PROVE  HasRun(lo, hi, stop, next, sends, ends)
<1> DEFINE From(k) == \E f : f = [o \in k .. hi |->
                          IF o \in stop THEN ends[o] ELSE <<sends[o]>> \o f[next[o]]]
           S == {k \in lo .. hi : From(k)}
<1>1. hi \in S
    <2> DEFINE f == [o \in hi .. hi |-> ends[o]]
    <2>1. f = [o \in hi .. hi |->
                 IF o \in stop THEN ends[o] ELSE <<sends[o]>> \o f[next[o]]]
        OBVIOUS
    <2>2. From(hi)
        <3> HIDE DEF f
        <3>1. QED
            BY <2>1
    <2>3. QED
        BY <2>2
<1>2. ASSUME NEW k \in lo .. hi, k \in S, k > lo PROVE k - 1 \in S
    <2>1. PICK f : f = [o \in k .. hi |->
                 IF o \in stop THEN ends[o] ELSE <<sends[o]>> \o f[next[o]]]
        BY <1>2
    <2> DEFINE first == IF k - 1 \in stop THEN ends[k - 1]
                        ELSE <<sends[k - 1]>> \o f[next[k - 1]]
               g == [o \in k - 1 .. hi |-> IF o = k - 1 THEN first ELSE f[o]]
    <2>2. ASSUME NEW o \in k - 1 .. hi, o \notin stop
          PROVE  g[next[o]] = f[next[o]]
        <3>1. next[o] \in k .. hi
            BY <1>2, <2>2
        <3>2. QED
            BY <3>1
    <2>3. ASSUME NEW o \in k - 1 .. hi
          PROVE  g[o] = IF o \in stop THEN ends[o] ELSE <<sends[o]>> \o g[next[o]]
        <3>1. CASE o = k - 1
            BY <3>1, <2>2
        <3>2. CASE o # k - 1
            <4>1. o \in k .. hi /\ g[o] = f[o]
                BY <3>2
            <4> HIDE DEF g
            <4>2. QED
                BY <2>1, <2>2, <4>1
        <3>3. QED
            BY <3>1, <3>2
    <2>4. g = [o \in k - 1 .. hi |->
                 IF o \in stop THEN ends[o] ELSE <<sends[o]>> \o g[next[o]]]
        <3> HIDE DEF first
        <3>1. QED
            BY <2>3
    <2>5. k - 1 \in lo .. hi
        BY <1>2
    <2>6. QED
        BY <2>4, <2>5
<1>3. lo \in S
    <2> HIDE DEF S
    <2>1. \A k \in lo .. hi : k \in S /\ k > lo => k - 1 \in S
        BY <1>2
    <2>2. \A k \in lo .. hi : k \in S
        BY <1>1, <2>1, Downward
    <2>3. QED
        BY <2>2
<1>4. PICK f : f = [o \in lo .. hi |->
                    IF o \in stop THEN ends[o] ELSE <<sends[o]>> \o f[next[o]]]
    BY <1>3
<1>5. /\ f = [o \in lo .. hi |-> f[o]]
      /\ \A o \in lo .. hi : f[o] = IF o \in stop THEN ends[o] ELSE <<sends[o]>> \o f[next[o]]
    BY <1>4
<1>6. QED
    BY <1>5 DEF HasRun, Runs

\* Requests that send the bytes from `at` to `size` in order and each once, all of them
\* with a full chunk but the last.
Tiles(requests, at, size, chunk) ==
    /\ requests \in Seq([kind : {"range", "start", "append", "finish"}, offset : Nat, len : Nat])
    /\ Len(requests) > 0
    /\ requests[1].offset = at
    /\ \A m \in 2 .. Len(requests) :
          /\ requests[m].offset = requests[m - 1].offset + requests[m - 1].len
          /\ requests[m - 1].len = chunk
    /\ requests[Len(requests)].offset + requests[Len(requests)].len = size

\* One full chunk before such requests.
LEMMA OneMore ==
    ASSUME NEW kind \in {"range", "start", "append", "finish"}, NEW at \in Nat, NEW size \in Nat,
           NEW chunk \in Nat, NEW requests, Tiles(requests, at + chunk, size, chunk)
    PROVE  /\ Tiles(<<Long!Request(kind, at, chunk)>> \o requests, at, size, chunk)
           /\ \A m \in 1 .. Len(<<Long!Request(kind, at, chunk)>> \o requests) :
                 (<<Long!Request(kind, at, chunk)>> \o requests)[m] =
                     IF m = 1 THEN Long!Request(kind, at, chunk) ELSE requests[m - 1]
           /\ Len(<<Long!Request(kind, at, chunk)>> \o requests) = 1 + Len(requests)
           /\ Len(requests) \in Nat
<1> DEFINE R == [kind : {"range", "start", "append", "finish"}, offset : Nat, len : Nat]
           r == Long!Request(kind, at, chunk)
           all == <<r>> \o requests
<1>1. r \in R /\ r.offset = at /\ r.len = chunk
    BY DEF Long!Request
<1>2. <<r>> \in Seq(R) /\ Len(<<r>>) = 1 /\ <<r>>[1] = r
    BY <1>1
<1>3. requests \in Seq(R) /\ Len(requests) \in Nat
    BY LenProperties DEF Tiles
<1>4. /\ all \in Seq(R) /\ Len(all) = 1 + Len(requests)
      /\ \A m \in 1 .. 1 + Len(requests) : all[m] = IF m = 1 THEN r ELSE requests[m - 1]
    <2> HIDE DEF r, R
    <2>1. \A m \in 1 .. 1 + Len(requests) : m <= 1 => m = 1
        OBVIOUS
    <2>2. QED
        BY <1>2, <1>3, <2>1, ConcatProperties
<1> HIDE DEF all, r, R
<1>5. all[1].offset = at /\ Len(all) > 0
    BY <1>1, <1>3, <1>4
<1>6. ASSUME NEW m \in 2 .. Len(all)
      PROVE  all[m].offset = all[m - 1].offset + all[m - 1].len /\ all[m - 1].len = chunk
    <2>1. CASE m = 2
        BY <1>1, <1>3, <1>4, <2>1 DEF Tiles
    <2>2. CASE m > 2
        <3>1. /\ m - 1 \in 2 .. Len(requests)
              /\ all[m] = requests[m - 1] /\ all[m - 1] = requests[(m - 1) - 1]
            BY <1>3, <1>4, <2>2
        <3>2. QED
            BY <3>1 DEF Tiles
    <2>3. QED
        BY <1>3, <1>4, <2>1, <2>2
<1>7. all[Len(all)].offset + all[Len(all)].len = size
    <2>1. Len(all) - 1 = Len(requests) /\ Len(requests) > 0
        BY <1>3, <1>4 DEF Tiles
    <2>2. all[Len(all)] = requests[Len(requests)]
        BY <1>3, <1>4, <2>1
    <2>3. QED
        BY <2>2 DEF Tiles
<1>8. QED
    BY <1>3, <1>4, <1>5, <1>6, <1>7 DEF Tiles, r, all, R

\* A last request, with what is left.
LEMMA LastOne ==
    ASSUME NEW kind \in {"range", "start", "append", "finish"}, NEW at \in Nat, NEW size \in Nat,
           NEW chunk \in Nat, at <= size
    PROVE  Tiles(<<Long!Request(kind, at, size - at)>>, at, size, chunk)
<1> DEFINE R == [kind : {"range", "start", "append", "finish"}, offset : Nat, len : Nat]
           r == Long!Request(kind, at, size - at)
<1>1. r \in R /\ r.offset = at /\ r.len = size - at
    BY DEF Long!Request
<1>2. <<r>> \in Seq(R) /\ Len(<<r>>) = 1 /\ <<r>>[1] = r
    BY <1>1
<1>3. QED
    BY <1>1, <1>2 DEF Tiles

\* What uploadViaSession() of OneDrive sends from each offset on.
LEMMA GraphLoop ==
    ASSUME NEW size \in Nat, NEW range \in Nat \ {0}
    PROVE  \A o \in 0 .. size :
              Long!GraphRanges(size, range)[o] =
                  IF o = size THEN <<>>
                  ELSE LET upTo == IF o + range < size THEN o + range ELSE size
                       IN  <<Long!Request("range", o, upTo - o)>>
                             \o Long!GraphRanges(size, range)[upTo]
<1> DEFINE UpTo(o) == IF o + range < size THEN o + range ELSE size
           stop == {size}
           next == [o \in 0 .. size |-> UpTo(o)]
           sends == [o \in 0 .. size |-> Long!Request("range", o, UpTo(o) - o)]
           ends == [o \in 0 .. size |-> <<>>]
           rest == Long!GraphRanges(size, range)
<1>1. PICK f : Runs(0, size, stop, next, sends, ends, f)
    <2>1. size \in stop /\ \A o \in 0 .. size : o \notin stop => next[o] \in o + 1 .. size
        OBVIOUS
    <2>2. 0 \in Nat /\ 0 <= size
        OBVIOUS
    <2> HIDE DEF next, sends, ends, stop
    <2>3. HasRun(0, size, stop, next, sends, ends)
        BY <2>1, <2>2, LoopsRun
    <2>4. QED
        BY <2>3 DEF HasRun
<1>2. \A o \in 0 .. size : f[o] = IF o >= size THEN <<>>
                                 ELSE <<Long!Request("range", o, UpTo(o) - o)>> \o f[UpTo(o)]
    <2>1. ASSUME NEW o \in 0 .. size
          PROVE  f[o] = IF o \in stop THEN ends[o] ELSE <<sends[o]>> \o f[next[o]]
        <3> HIDE DEF next, sends, ends, stop
        <3>1. QED
            BY <1>1 DEF Runs
    <2>2. ASSUME NEW o \in 0 .. size
          PROVE  /\ o \in stop <=> o >= size
                 /\ ends[o] = <<>> /\ next[o] = UpTo(o)
                 /\ sends[o] = Long!Request("range", o, UpTo(o) - o)
        OBVIOUS
    <2> HIDE DEF UpTo, next, sends, ends, stop
    <2>3. QED
        BY <2>1, <2>2
<1>3. f = [o \in 0 .. size |->
             IF o >= size THEN <<>>
             ELSE LET upTo == IF o + range < size THEN o + range ELSE size
                  IN  <<Long!Request("range", o, upTo - o)>> \o f[upTo]]
    <2>1. f = [o \in 0 .. size |-> f[o]]
        <3> HIDE DEF next, sends, ends, stop
        <3>1. QED
            BY <1>1 DEF Runs
    <2>2. QED
        BY <1>2, <2>1
<1>4. rest = [o \in 0 .. size |->
             IF o >= size THEN <<>>
             ELSE LET upTo == IF o + range < size THEN o + range ELSE size
                  IN  <<Long!Request("range", o, upTo - o)>> \o rest[upTo]]
    BY <1>3 DEF Long!GraphRanges
<1>5. ASSUME NEW o \in 0 .. size
      PROVE  rest[o] = IF o = size THEN <<>>
                       ELSE LET upTo == IF o + range < size THEN o + range ELSE size
                            IN  <<Long!Request("range", o, upTo - o)>> \o rest[upTo]
    <2>1. o >= size <=> o = size
        OBVIOUS
    <2> HIDE DEF rest
    <2>2. QED
        BY <1>4, <2>1
<1>6. QED
    BY <1>5

\* From each offset on it sends the rest of the body; by induction, from the last offset down.
LEMMA GraphTiles ==
    ASSUME NEW size \in Nat, NEW range \in Nat \ {0}
    PROVE  \A o \in 0 .. size : o < size =>
              /\ Tiles(Long!GraphRanges(size, range)[o], o, size, range)
              /\ \A m \in 1 .. Len(Long!GraphRanges(size, range)[o]) :
                    Long!GraphRanges(size, range)[o][m].len \in 1 .. range
<1> DEFINE rest == Long!GraphRanges(size, range)
           Fine(o) == o < size =>
                        /\ Tiles(rest[o], o, size, range)
                        /\ \A m \in 1 .. Len(rest[o]) : rest[o][m].len \in 1 .. range
           S == {k \in 0 .. size : \A o \in k .. size : Fine(o)}
<1> HIDE DEF rest
<1>1. size \in S
    OBVIOUS
<1>2. ASSUME NEW k \in 0 .. size, k \in S, k > 0
      PROVE  k - 1 \in S
    <2> DEFINE at == k - 1
    <2>1. at \in 0 .. size /\ at < size /\ at \in Nat
        BY <1>2
    <2> DEFINE upTo == IF at + range < size THEN at + range ELSE size
    <2>2. rest[at] = <<Long!Request("range", at, upTo - at)>> \o rest[upTo] /\ rest[size] = <<>>
        <3>1. at # size /\ size \in 0 .. size
            BY <2>1
        <3> HIDE DEF at
        <3>2. QED
            BY <2>1, <3>1, GraphLoop DEF rest
    <2>3. CASE at + range < size
        <3>1. at + range \in k .. size /\ Fine(at + range)
            BY <1>2, <2>3
        <3>2. rest[at] = <<Long!Request("range", at, range)>> \o rest[at + range]
            <4>1. (at + range) - at = range
                OBVIOUS
            <4>2. QED
                BY <2>3, <2>2, <4>1
        <3>3. Tiles(rest[at + range], at + range, size, range)
            BY <2>3, <3>1
        <3> DEFINE more == rest[at + range]
                   all == <<Long!Request("range", at, range)>> \o more
        <3>4. /\ Tiles(all, at, size, range)
              /\ Len(all) = 1 + Len(more) /\ Len(more) \in Nat
              /\ \A m \in 1 .. Len(all) :
                    all[m] = IF m = 1 THEN Long!Request("range", at, range) ELSE more[m - 1]
            <4> HIDE DEF more
            <4>1. QED
                BY <2>1, <3>3, OneMore DEF more
        <3>5. ASSUME NEW m \in 1 .. Len(rest[at])
              PROVE  rest[at][m].len \in 1 .. range
            <4>1. rest[at][m] = IF m = 1 THEN Long!Request("range", at, range)
                                ELSE rest[at + range][m - 1]
                BY <3>2, <3>4, <3>5
            <4>2. CASE m = 1
                BY <4>1, <4>2 DEF Long!Request
            <4>3. CASE m # 1
                <5>1. Len(rest[at]) = 1 + Len(rest[at + range]) /\ Len(rest[at + range]) \in Nat
                    BY <3>2, <3>4
                <5>2. m - 1 \in 1 .. Len(rest[at + range])
                    BY <4>3, <5>1
                <5>3. QED
                    BY <2>3, <3>1, <4>1, <4>3, <5>2
            <4>4. QED
                BY <4>2, <4>3
        <3>6. Fine(at)
            BY <3>2, <3>4, <3>5
        <3>7. QED
            BY <1>2, <3>6
    <2>4. CASE at + range >= size
        <3>1. /\ rest[at] = <<Long!Request("range", at, size - at)>> \o rest[size]
              /\ rest[size] = <<>>
            <4>1. upTo = size
                BY <2>4
            <4>2. QED
                BY <2>2, <4>1
        <3>2. rest[at] = <<Long!Request("range", at, size - at)>>
            BY <3>1
        <3>3. Tiles(rest[at], at, size, range)
            BY <2>1, <3>2, LastOne
        <3>4. \A m \in 1 .. Len(rest[at]) : rest[at][m].len \in 1 .. range
            BY <2>1, <2>4, <3>2 DEF Long!Request
        <3>5. Fine(at)
            BY <3>3, <3>4
        <3>6. QED
            BY <1>2, <3>5
    <2>5. QED
        BY <2>3, <2>4
<1>3. \A k \in 0 .. size : k \in S
    <2> HIDE DEF S
    <2>1. \A k \in 0 .. size : k \in S /\ k > 0 => k - 1 \in S
        BY <1>2
    <2>2. 0 \in Nat /\ 0 <= size
        OBVIOUS
    <2>3. QED
        BY <1>1, <2>1, <2>2, Downward
<1>4. \A o \in 0 .. size : Fine(o)
    BY <1>3
<1>5. QED
    BY <1>4 DEF rest

\* Such requests are in order, and every chunk that is not the last is full.
LEMMA TilesMean ==
    ASSUME NEW size \in Nat, NEW chunk \in Nat, NEW requests, Tiles(requests, 0, size, chunk)
    PROVE  Long!InOrder(requests, size) /\ Long!FullChunks(requests, chunk)
<1>1. Len(requests) \in Nat
    BY LenProperties DEF Tiles
<1>2. ASSUME NEW m \in 1 .. Len(requests)
      PROVE  requests[m].len = chunk \/ \A k \in m + 1 .. Len(requests) : requests[k].len = 0
    <2>1. CASE m = Len(requests)
        BY <1>1, <2>1
    <2>2. CASE m # Len(requests)
        <3>1. m + 1 \in 2 .. Len(requests) /\ (m + 1) - 1 = m
            BY <1>1, <2>2
        <3>2. QED
            BY <3>1 DEF Tiles
    <2>3. QED
        BY <2>1, <2>2
<1>3. Long!InOrder(requests, size)
    BY DEF Tiles, Long!InOrder
<1>4. QED
    BY <1>2, <1>3 DEF Long!FullChunks

\* However long the body and the ranges, the session of OneDrive sends it in order, each
\* byte once, in full ranges but for the last, none of which is empty.
THEOREM GraphSendsTheBody ==
    ASSUME NEW size \in Nat \ {0}, NEW range \in Nat \ {0}
    PROVE  LET graph == Long!GraphSession(size, range)
           IN  /\ Long!InOrder(graph, size) /\ Long!FullChunks(graph, range)
               /\ \A m \in 1 .. Len(graph) : graph[m].len > 0
<1> DEFINE graph == Long!GraphRanges(size, range)[0]
<1>1. /\ Tiles(graph, 0, size, range)
      /\ \A m \in 1 .. Len(graph) : graph[m].len \in 1 .. range
    <2>1. 0 \in 0 .. size /\ 0 < size
        OBVIOUS
    <2>2. QED
        BY <2>1, GraphTiles
<1> HIDE DEF graph
<1>2. Long!InOrder(graph, size) /\ Long!FullChunks(graph, range)
    BY <1>1, TilesMean
<1>3. \A m \in 1 .. Len(graph) : graph[m].len > 0
    BY <1>1
<1>4. graph = Long!GraphSession(size, range)
    BY DEF graph, Long!GraphSession
<1>5. QED
    BY <1>2, <1>3, <1>4

\* What uploadSession() of Dropbox sends from each offset on.
LEMMA DropboxLoop ==
    ASSUME NEW size \in Nat, NEW chunk \in Nat \ {0}
    PROVE  \A o \in 0 .. size :
              Long!DropboxRest(size, chunk)[o] =
                  IF size - o > chunk
                    THEN <<Long!Request("append", o, chunk)>>
                           \o Long!DropboxRest(size, chunk)[o + chunk]
                    ELSE <<Long!Request("finish", o, size - o)>>
<1> DEFINE stop == {o \in 0 .. size : ~(size - o > chunk)}
           next == [o \in 0 .. size |-> o + chunk]
           sends == [o \in 0 .. size |-> Long!Request("append", o, chunk)]
           ends == [o \in 0 .. size |-> <<Long!Request("finish", o, size - o)>>]
           rest == Long!DropboxRest(size, chunk)
<1>1. PICK f : Runs(0, size, stop, next, sends, ends, f)
    <2>1. size \in stop /\ \A o \in 0 .. size : o \notin stop => next[o] \in o + 1 .. size
        OBVIOUS
    <2>2. 0 \in Nat /\ 0 <= size
        OBVIOUS
    <2> HIDE DEF next, sends, ends, stop
    <2>3. HasRun(0, size, stop, next, sends, ends)
        BY <2>1, <2>2, LoopsRun
    <2>4. QED
        BY <2>3 DEF HasRun
<1>2. f = [o \in 0 .. size |->
             IF size - o > chunk
               THEN <<Long!Request("append", o, chunk)>> \o f[o + chunk]
               ELSE <<Long!Request("finish", o, size - o)>>]
    <2>1. /\ f = [o \in 0 .. size |-> f[o]]
          /\ \A o \in 0 .. size : f[o] = IF o \in stop THEN ends[o]
                                        ELSE <<sends[o]>> \o f[next[o]]
        <3> HIDE DEF next, sends, ends, stop
        <3>1. QED
            BY <1>1 DEF Runs
    <2>2. ASSUME NEW o \in 0 .. size
          PROVE  /\ o \notin stop <=> size - o > chunk
                 /\ next[o] = o + chunk
                 /\ sends[o] = Long!Request("append", o, chunk)
                 /\ ends[o] = <<Long!Request("finish", o, size - o)>>
        OBVIOUS
    <2> HIDE DEF next, sends, ends, stop
    <2>3. QED
        BY <2>1, <2>2
<1>3. rest = [o \in 0 .. size |->
             IF size - o > chunk
               THEN <<Long!Request("append", o, chunk)>> \o rest[o + chunk]
               ELSE <<Long!Request("finish", o, size - o)>>]
    BY <1>2 DEF Long!DropboxRest
<1>4. QED
    <2> HIDE DEF rest
    <2>1. \A o \in 0 .. size :
              rest[o] = IF size - o > chunk
                          THEN <<Long!Request("append", o, chunk)>> \o rest[o + chunk]
                          ELSE <<Long!Request("finish", o, size - o)>>
        BY <1>3
    <2>2. QED
        BY <2>1 DEF rest

\* From each offset on it sends the rest of the body, the last of it with the finish.
LEMMA DropboxTiles ==
    ASSUME NEW size \in Nat, NEW chunk \in Nat \ {0}
    PROVE  \A o \in 0 .. size :
              LET rest == Long!DropboxRest(size, chunk)[o]
              IN  /\ Tiles(rest, o, size, chunk)
                  /\ \A m \in 1 .. Len(rest) :
                        /\ rest[m].kind = "finish" <=> m = Len(rest)
                        /\ rest[m].len = 0 => m = Len(rest) /\ o = size
<1> DEFINE rest == Long!DropboxRest(size, chunk)
           Fine(o) == /\ Tiles(rest[o], o, size, chunk)
                      /\ \A m \in 1 .. Len(rest[o]) :
                            /\ rest[o][m].kind = "finish" <=> m = Len(rest[o])
                            /\ rest[o][m].len = 0 => m = Len(rest[o]) /\ o = size
           S == {k \in 0 .. size : \A o \in k .. size : Fine(o)}
<1>1. \A o \in 0 .. size :
          rest[o] = IF size - o > chunk
                      THEN <<Long!Request("append", o, chunk)>> \o rest[o + chunk]
                      ELSE <<Long!Request("finish", o, size - o)>>
    BY DropboxLoop
<1> HIDE DEF rest
<1>2. ASSUME NEW at \in 0 .. size, ~(size - at > chunk)
      PROVE  Fine(at)
    <2>1. rest[at] = <<Long!Request("finish", at, size - at)>>
        BY <1>1, <1>2
    <2>2. Tiles(rest[at], at, size, chunk)
        BY <2>1, LastOne
    <2>3. QED
        BY <2>1, <2>2 DEF Long!Request
<1>3. ASSUME NEW at \in 0 .. size, size - at > chunk, Fine(at + chunk)
      PROVE  Fine(at)
    <2> DEFINE more == rest[at + chunk]
               all == <<Long!Request("append", at, chunk)>> \o more
    <2>1. rest[at] = all
        BY <1>1, <1>3
    <2>2. /\ Tiles(all, at, size, chunk)
          /\ Len(all) = 1 + Len(more) /\ Len(more) \in Nat /\ Len(more) > 0
          /\ \A m \in 1 .. Len(all) :
                all[m] = IF m = 1 THEN Long!Request("append", at, chunk) ELSE more[m - 1]
        <3>1. Tiles(more, at + chunk, size, chunk)
            BY <1>3
        <3>2. Len(more) > 0
            BY <3>1 DEF Tiles
        <3> HIDE DEF more
        <3>3. QED
            BY <3>1, <3>2, OneMore
    <2> HIDE DEF all, more
    <2>3. ASSUME NEW m \in 1 .. Len(all)
          PROVE  /\ all[m].kind = "finish" <=> m = Len(all)
                 /\ all[m].len = 0 => m = Len(all) /\ at = size
        <3>1. CASE m = 1
            BY <2>2, <3>1 DEF Long!Request
        <3>2. CASE m # 1
            <4>1. m - 1 \in 1 .. Len(more) /\ all[m] = more[m - 1]
                BY <2>2, <3>2
            <4>2. /\ more[m - 1].kind = "finish" <=> m - 1 = Len(more)
                  /\ more[m - 1].len # 0
                BY <1>3, <4>1 DEF more
            <4>3. QED
                BY <2>2, <4>1, <4>2
        <3>3. QED
            BY <3>1, <3>2
    <2>4. QED
        BY <2>1, <2>2, <2>3
<1>4. size \in S
    BY <1>2
<1>5. ASSUME NEW k \in 0 .. size, k \in S, k > 0
      PROVE  k - 1 \in S
    <2>1. k - 1 \in 0 .. size
        BY <1>5
    <2>2. Fine(k - 1)
        <3>1. CASE size - (k - 1) > chunk
            <4>1. (k - 1) + chunk \in k .. size
                BY <3>1, <2>1
            <4>2. Fine((k - 1) + chunk)
                BY <1>5, <4>1
            <4> HIDE DEF Fine
            <4>3. QED
                BY <1>3, <2>1, <3>1, <4>2
        <3>2. CASE ~(size - (k - 1) > chunk)
            BY <1>2, <2>1, <3>2
        <3>3. QED
            BY <3>1, <3>2
    <2>3. \A o \in k - 1 .. size : o = k - 1 \/ o \in k .. size
        OBVIOUS
    <2> HIDE DEF Fine
    <2>4. QED
        BY <1>5, <2>1, <2>2, <2>3
<1>6. \A k \in 0 .. size : k \in S
    <2> HIDE DEF S
    <2>1. \A k \in 0 .. size : k \in S /\ k > 0 => k - 1 \in S
        BY <1>5
    <2>2. 0 \in Nat /\ 0 <= size
        OBVIOUS
    <2>3. QED
        BY <1>4, <2>1, <2>2, Downward
<1>7. \A o \in 0 .. size : Fine(o)
    BY <1>6
<1>8. QED
    BY <1>7 DEF rest

\* Two sequences of one element, joined.
LEMMA Pair == ASSUME NEW a, NEW b PROVE <<a>> \o <<b>> = <<a, b>>
<1>1. <<a>> \in Seq({a, b}) /\ <<b>> \in Seq({a, b}) /\ <<a, b>> \in Seq({a, b})
    OBVIOUS
<1>2. Len(<<a>> \o <<b>>) = 2 /\ (<<a>> \o <<b>>)[1] = a /\ (<<a>> \o <<b>>)[2] = b
    OBVIOUS
<1>3. \A i \in 1 .. 2 : (<<a>> \o <<b>>)[i] = <<a, b>>[i]
    BY <1>1, <1>2
<1>4. QED
    BY <1>1, <1>2, <1>3, SeqEqual, ConcatProperties

\* However long the body and the chunks, the session of Dropbox sends it in order, each
\* byte once, in full chunks but for the last; the last request alone finishes, and sends
\* nothing only where the first held all.
THEOREM DropboxSendsTheBody ==
    ASSUME NEW size \in Nat \ {0}, NEW chunk \in Nat \ {0}
    PROVE  LET dropbox == Long!DropboxSession(size, chunk)
           IN  /\ Long!InOrder(dropbox, size) /\ Long!FullChunks(dropbox, chunk)
               /\ \A m \in 1 .. Len(dropbox) :
                     /\ dropbox[m].kind = "finish" <=> m = Len(dropbox)
                     /\ dropbox[m].len = 0 => m = Len(dropbox) /\ size <= chunk
<1> DEFINE first == IF chunk < size THEN chunk ELSE size
           rest == Long!DropboxRest(size, chunk)[first]
           all == <<Long!Request("start", 0, first)>> \o rest
<1>1. all = Long!DropboxSession(size, chunk)
    BY DEF Long!DropboxSession
<1>2. first \in 0 .. size /\ first > 0
    OBVIOUS
<1>3. /\ Tiles(rest, first, size, chunk)
      /\ \A m \in 1 .. Len(rest) :
            /\ rest[m].kind = "finish" <=> m = Len(rest)
            /\ rest[m].len = 0 => m = Len(rest) /\ first = size
    BY <1>2, DropboxTiles
<1>4. CASE chunk < size
    <2>1. /\ Tiles(all, 0, size, chunk)
          /\ Len(all) = 1 + Len(rest) /\ Len(rest) \in Nat /\ Len(rest) > 0
          /\ \A m \in 1 .. Len(all) :
                all[m] = IF m = 1 THEN Long!Request("start", 0, chunk) ELSE rest[m - 1]
        <3>1. first = 0 + chunk
            BY <1>4
        <3>2. Tiles(rest, 0 + chunk, size, chunk) /\ Len(rest) > 0
            BY <1>3, <3>1 DEF Tiles
        <3>3. all = <<Long!Request("start", 0, chunk)>> \o rest
            BY <1>4
        <3> HIDE DEF all, rest
        <3>4. QED
            BY <3>2, <3>3, OneMore
    <2>2. first # size
        BY <1>4
    <2> HIDE DEF all, rest, first
    <2>3. ASSUME NEW m \in 1 .. Len(all)
          PROVE  (all[m].kind = "finish" <=> m = Len(all)) /\ all[m].len # 0
        <3>1. CASE m = 1
            BY <2>1, <3>1 DEF Long!Request
        <3>2. CASE m # 1
            <4>1. m - 1 \in 1 .. Len(rest) /\ all[m] = rest[m - 1]
                BY <2>1, <3>2
            <4>2. QED
                BY <1>3, <2>1, <2>2, <4>1
        <3>3. QED
            BY <3>1, <3>2
    <2>4. Long!InOrder(all, size) /\ Long!FullChunks(all, chunk)
        BY <2>1, TilesMean
    <2>5. QED
        BY <1>1, <2>3, <2>4
<1>5. CASE ~(chunk < size)
    <2>1. first = size /\ ~(size - size > chunk) /\ size \in 0 .. size /\ size - size = 0
        BY <1>5
    <2>2. rest = <<Long!Request("finish", size, 0)>>
        BY <2>1, DropboxLoop
    <2>3. all = <<Long!Request("start", 0, size), Long!Request("finish", size, 0)>>
        <3>1. all = <<Long!Request("start", 0, size)>> \o <<Long!Request("finish", size, 0)>>
            BY <2>1, <2>2
        <3> HIDE DEF all
        <3>2. QED
            BY <3>1, Pair
    <2> HIDE DEF all
    <2>4. QED
        BY <1>1, <1>5, <2>3 DEF Long!InOrder, Long!FullChunks, Long!Request
<1>6. QED
    BY <1>4, <1>5
=============================================================================
