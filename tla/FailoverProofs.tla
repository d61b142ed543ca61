--------------------------- MODULE FailoverProofs ---------------------------
(***************************************************************************)
(* Proofs about the failover plugin, for chains of any length, any options *)
(* and any number of operations and changes.                               *)
(***************************************************************************)
EXTENDS Failover, TLAPS

(***************************************************************************)
(* Typing.                                                                 *)
(***************************************************************************)
\* A retry is scheduled only while some are left.
RetriesLeft == pc = "backoff" => attempt < MaxRetries

LEMMA RetriesBounded ==
    ASSUME TypeOK, NEW b \in Chain
    PROVE  RetriesAt(b) \in 0 .. MaxRetries
<1>1. client.retries \in 0 .. MaxRetries
  BY OptionsAssumption DEF TypeOK
<1>2. op.options.retries \in 0 .. MaxRetries \cup {Unset}
  BY OptionsAssumption DEF TypeOK, Operations
<1>3. QED
  BY <1>1, <1>2, BoundsAssumption DEF RetriesAt

LEMMA ThrewTyped ==
    ASSUME TypeOK, pc = "sent", NEW error \in Errors, Threw(error)
    PROVE  /\ pc' \in {"idle", "sent", "backoff"} /\ index' \in Chain
           /\ attempt' \in 0 .. MaxRetries /\ result' \in Results /\ reachable' \in SUBSET Chain
           /\ RetriesLeft'
<1>1. index \in Chain /\ attempt \in 0 .. MaxRetries /\ result \in Results /\ reachable \in SUBSET Chain
      /\ pc \in {"idle", "sent", "backoff"}
  BY DEF TypeOK
<1>2. [status |-> error] \in Results
  BY DEF Results
<1>3. 1 \in Chain /\ 0 \in 0 .. MaxRetries
  BY ChainAssumption, BoundsAssumption DEF Chain
<1>4. index < Backends => index + 1 \in Chain
  BY <1>1, ChainAssumption DEF Chain
<1>5. RetriesAt(index) \in 0 .. MaxRetries
  BY <1>1, RetriesBounded
<1>6. RetriesLeft'
  BY <1>1, <1>5, BoundsAssumption DEF Threw, Ends, RetriesLeft
<1>7. QED
  BY <1>1, <1>2, <1>3, <1>4, <1>6 DEF Threw, Ends

LEMMA ContentTyped ==
    ASSUME TypeOK
    PROVE  Content \in Contents /\ Old \in Contents /\ 0 \in Contents
BY BoundsAssumption DEF TypeOK, Content, Contents, Old

LEMMA LosesTrackTyped ==
    ASSUME TypeOK, LosesTrack
    PROVE  stored' \in [Chain -> Contents] /\ late' \in SUBSET [at : Chain, content : Contents]
BY ContentTyped DEF TypeOK, LosesTrack, Lands

Typed == TypeOK /\ RetriesLeft

LEMMA InitTyped == Init => Typed
<1> SUFFICES ASSUME Init PROVE Typed
  OBVIOUS
<1>1. 1 \in Chain /\ 0 \in 0 .. MaxRetries /\ Old \in Contents /\ 0 \in 0 .. MaxCalls /\ 0 \in 0 .. MaxChanges
  BY ChainAssumption, BoundsAssumption DEF Chain, Contents, Old
<1>2. op \in Operations
  BY DEF Init
<1>3. [status |-> "none"] \in Results
  BY DEF Results
<1>4. QED
  BY <1>1, <1>2, <1>3 DEF Init, Typed, TypeOK, RetriesLeft

LEMMA NextTyped == Typed /\ [Next]_vars => Typed'
<1> SUFFICES ASSUME Typed, [Next]_vars PROVE Typed'
  OBVIOUS
<1> TypeOK /\ RetriesLeft
  BY DEF Typed
<1>1. CASE Call
  <2>1. calls' \in 0 .. MaxCalls
    BY <1>1, BoundsAssumption DEF Call, TypeOK
  <2>2. index' \in Chain /\ attempt' \in 0 .. MaxRetries
    BY <1>1, ChainAssumption, BoundsAssumption DEF Call, Chain
  <2>3. result' \in Results
    BY <1>1 DEF Call, Results
  <2>4. QED
    BY <1>1, <2>1, <2>2, <2>3 DEF Call, Typed, TypeOK, RetriesLeft, world
<1>2. CASE Abort
  <2>1. [status |-> "aborted"] \in Results /\ 1 \in Chain /\ 0 \in 0 .. MaxRetries
    BY ChainAssumption, BoundsAssumption DEF Results, Errors, Chain
  <2>2. stored' \in [Chain -> Contents] /\ late' \in SUBSET [at : Chain, content : Contents]
    BY <1>2, LosesTrackTyped DEF Abort, TypeOK
  <2>3. QED
    BY <1>2, <2>1, <2>2 DEF Abort, Ends, Typed, TypeOK, RetriesLeft
<1>3. CASE Answer
  <2>1. stored' \in [Chain -> Contents] /\ late' = late
    BY <1>3, ContentTyped DEF Answer, Lands, TypeOK
  <2>2. [status |-> "ok", content |-> stored'[index]] \in Results
    BY <2>1 DEF Results, TypeOK
  <2>3. 1 \in Chain /\ 0 \in 0 .. MaxRetries
    BY ChainAssumption, BoundsAssumption DEF Chain
  <2>4. known' \in Contents \cup {Unknown}
    BY <1>3, ContentTyped DEF Answer, TypeOK
  <2>5. QED
    BY <1>3, <2>1, <2>2, <2>3, <2>4 DEF Answer, Ends, Typed, TypeOK, RetriesLeft
<1>4. CASE Miss \/ Refuse
  <2>1. pc = "sent" /\ \E error \in Errors : Threw(error)
    BY <1>4 DEF Miss, Refuse, Errors
  <2>2. QED
    BY <1>4, <2>1, ThrewTyped DEF Miss, Refuse, Typed, TypeOK, RetriesLeft, world
<1>5. CASE Fail \/ Timeout
  <2>1. pc = "sent" /\ \E error \in Errors : Threw(error)
    BY <1>5 DEF Fail, Timeout, Errors
  <2>2. QED
    BY <1>5, <2>1, ThrewTyped, LosesTrackTyped DEF Fail, Timeout, Typed, TypeOK, RetriesLeft
<1>6. CASE Retry
  <2>1. attempt' \in 0 .. MaxRetries
    BY <1>6, BoundsAssumption DEF Retry, RetriesLeft, TypeOK
  <2>2. QED
    BY <1>6, <2>1 DEF Retry, Typed, TypeOK, RetriesLeft, world
<1>7. ASSUME NEW b \in Chain, Change(b) PROVE Typed'
  BY <1>7, BoundsAssumption DEF Change, Typed, TypeOK, RetriesLeft
<1>8. CASE LateLands
  BY <1>8 DEF LateLands, Typed, TypeOK, RetriesLeft
<1>9. CASE UNCHANGED vars
  BY <1>9 DEF vars, world, Typed, TypeOK, RetriesLeft
<1>10. QED
  BY <1>1, <1>2, <1>3, <1>4, <1>5, <1>6, <1>7, <1>8, <1>9 DEF Next, Proceed

\* The state and the client's retries stay within their bounds.
THEOREM FailoverTyped == Spec => []TypeOK
<1>1. Spec => []Typed
  BY InitTyped, NextTyped, PTL DEF Spec
<1>2. QED
  BY <1>1, PTL DEF Typed

(***************************************************************************)
(* Which backend answers.                                                  *)
(***************************************************************************)

\* Those that have answered throughout still do, and none of them was passed over.
NonePassed ==
    /\ \A b \in reachable : Answers(b)
    /\ \A b \in reachable : b >= index

Chained == Typed /\ NonePassed

LEMMA NextChained == Chained /\ [Next]_vars => Chained'
<1> SUFFICES ASSUME Chained, [Next]_vars PROVE NonePassed'
  BY NextTyped DEF Chained
<1> TypeOK /\ NonePassed
  BY DEF Chained, Typed
<1>1. CASE Call
  BY <1>1 DEF Call, NonePassed, Answers, Chain, world
<1>2. CASE Abort \/ Answer
  BY <1>2 DEF Abort, Answer, Ends, NonePassed
<1>3. CASE Miss \/ Refuse
  BY <1>3 DEF Miss, Refuse, Threw, ShouldFailover, Ends, NonePassed, Answers, world
<1>4. CASE Fail \/ Timeout
  <2>1. index \notin reachable /\ UNCHANGED state
    BY <1>4 DEF Fail, Timeout, NonePassed, Answers
  <2>2. \A b \in reachable : b >= index + 1
    BY <2>1 DEF NonePassed, TypeOK, Chain
  <2>3. /\ reachable' = {} \/ reachable' = reachable
        /\ index' = index + 1 \/ index' = index \/ reachable' = {}
    BY <1>4 DEF Fail, Timeout, Threw, Ends
  <2>4. QED
    BY <2>1, <2>2, <2>3 DEF NonePassed, Answers
<1>5. CASE Retry \/ LateLands \/ UNCHANGED vars
  BY <1>5 DEF Retry, LateLands, vars, world, NonePassed, Answers
<1>6. ASSUME NEW b \in Chain, Change(b) PROVE NonePassed'
  BY <1>6 DEF Change, NonePassed, Answers, TypeOK
<1>7. QED
  BY <1>1, <1>2, <1>3, <1>4, <1>5, <1>6 DEF Next, Proceed

LEMMA AlwaysChained == Spec => []Chained
<1>1. Init => Chained
  BY InitTyped DEF Init, Chained, NonePassed
<1>2. QED
  BY <1>1, NextChained, PTL DEF Spec

\* No backend that answers throughout an operation is passed over, nor an outage
\* reported while there is one.
THEOREM NoBackendPassedOver == Spec => FirstReachableAnswers
<1> DEFINE Fair == Ending =>
        /\ Served => \A b \in reachable : b >= index
        /\ ~Served /\ ~op.stream => reachable = {}
<1>1. ASSUME Chained, Next, Ending PROVE Fair
  <2>1. TypeOK /\ NonePassed
    BY <1>1 DEF Chained, Typed
  <2>2. ASSUME ~Served, ~op.stream PROVE reachable = {}
    <3>1. Fail \/ Timeout
      BY <1>1, <2>2
         DEF Next, Proceed, Ending, Served, Call, Abort, Answer, Miss, Refuse, Retry, LateLands, Change,
             Threw, Ends, ShouldFailover
    <3>2. index = Backends /\ index \notin reachable
      BY <1>1, <2>1, <2>2, <3>1, ChainAssumption
         DEF Fail, Timeout, Threw, Ending, Served, ShouldFailover, NonePassed, Answers, TypeOK, Chain
    <3>3. QED
      BY <2>1, <3>2, ChainAssumption DEF NonePassed, TypeOK, Chain
  <2>3. QED
    BY <2>1, <2>2 DEF NonePassed
<1>2. Chained /\ [Next]_vars => [Fair]_vars
  BY <1>1 DEF Ending
<1>3. QED
  BY <1>2, AlwaysChained, PTL DEF FirstReachableAnswers, Spec

(***************************************************************************)
(* What a read finds.                                                      *)
(***************************************************************************)

\* While the last acknowledged content is known, the first backend that answers holds
\* it, and nothing has changed during the read under way.
FirstHolds ==
    known # Unknown =>
        \E f \in Chain : /\ state[f] = "up" /\ stored[f] = known
                         /\ \A b \in Chain : b < f => ~Answers(b)

ReadsSteady ==
    pc # "idle" /\ known # Unknown => ~Writes /\ reachable = {b \in Chain : Answers(b)}

Reading == Chained /\ FirstHolds /\ ReadsSteady /\ ReadYourWrites

\* Steps that leave the contents and the backends alone, and end nothing well.
LEMMA ReadingFrame ==
    ASSUME Reading, Chained', UNCHANGED <<stored, state, op, known>>,
           pc' # "idle" => pc # "idle" /\ UNCHANGED reachable,
           result' = result \/ result'.status \notin {"ok", "NotFound"}
    PROVE  Reading'
BY DEF Reading, FirstHolds, ReadsSteady, ReadYourWrites, Answers, Writes

\* A read that comes to a backend that answers has come to the first of them.
LEMMA ReadReachesFirst ==
    ASSUME Reading, pc # "idle", known # Unknown, Answers(index)
    PROVE  state[index] = "up" /\ stored[index] = known
<1>1. PICK f \in Chain : /\ state[f] = "up" /\ stored[f] = known
                         /\ \A b \in Chain : b < f => ~Answers(b)
  BY DEF Reading, FirstHolds
<1>2. f \in reachable
  BY <1>1 DEF Reading, ReadsSteady, Answers
<1>3. f >= index /\ index \in Chain
  BY <1>2 DEF Reading, Chained, NonePassed, Typed, TypeOK
<1>4. f = index
  BY <1>1, <1>3 DEF Chain
<1>5. QED
  BY <1>1, <1>4

LEMMA NextReading == Reading /\ [Next]_vars => Reading'
<1> SUFFICES ASSUME Reading, [Next]_vars PROVE Reading'
  OBVIOUS
<1>1. TypeOK /\ Chained /\ Chained'
  BY NextChained DEF Reading, Chained, Typed
<1>2. CASE Call
  <2>1. /\ UNCHANGED <<stored, state>> /\ result'.status = "none"
        /\ known' # Unknown => known' = known /\ op'.kind = "download"
        /\ reachable' = {b \in Chain : Answers(b)}
    BY <1>2 DEF Call, world
  <2>2. FirstHolds' /\ ReadsSteady' /\ ReadYourWrites'
    BY <2>1 DEF Reading, FirstHolds, ReadsSteady, ReadYourWrites, Answers, Writes
  <2>3. QED
    BY <1>1, <2>2 DEF Reading
<1>3. CASE Answer /\ Writes
  <2>1. /\ pc = "sent" /\ pc' = "idle" /\ state[index] = "up" /\ op' = op /\ op.kind # "download"
        /\ stored' = [stored EXCEPT ![index] = Content] /\ UNCHANGED state
        /\ known' = IF Steady THEN Content ELSE known
    BY <1>3 DEF Answer, Lands, Ends, Writes
  <2>2. known = Unknown
    BY <1>3, <2>1 DEF Reading, ReadsSteady
  <2>3. FirstHolds'
    <3>1. SUFFICES ASSUME Steady PROVE FirstHolds'
      BY <2>1, <2>2 DEF FirstHolds
    <3>2. index \in Chain /\ \A b \in Chain : b < index => ~Answers(b)
      BY <1>1, <3>1 DEF Chained, NonePassed, Steady, TypeOK, Chain
    <3>3. state'[index] = "up" /\ stored'[index] = known'
      BY <1>1, <2>1, <3>1, <3>2 DEF TypeOK
    <3>4. QED
      BY <2>1, <3>2, <3>3 DEF FirstHolds, Answers
  <2>4. QED
    BY <1>1, <2>1, <2>3 DEF Reading, ReadsSteady, ReadYourWrites
<1>4. CASE Answer /\ ~Writes
  <2>1. /\ pc = "sent" /\ pc' = "idle" /\ state[index] = "up" /\ UNCHANGED <<stored, state, op, known>>
        /\ result' = [status |-> "ok", content |-> stored[index]]
    BY <1>4 DEF Answer, Ends
  <2>2. known # Unknown => stored[index] = known
    BY <2>1, ReadReachesFirst DEF Answers
  <2>3. FirstHolds' /\ ReadsSteady' /\ ReadYourWrites'
    BY <2>1, <2>2 DEF Reading, FirstHolds, ReadsSteady, ReadYourWrites, Answers
  <2>4. QED
    BY <1>1, <2>3 DEF Reading
<1>5. CASE Miss
  <2>1. /\ pc = "sent" /\ pc' = "idle" /\ state[index] = "up" /\ UNCHANGED <<stored, state, op, known>>
        /\ result' = [status |-> "NotFound"] /\ stored[index] = 0
    BY <1>5 DEF Miss, Threw, ShouldFailover, Ends, world
  <2>2. known # Unknown => known = 0
    BY <2>1, ReadReachesFirst DEF Answers
  <2>3. FirstHolds' /\ ReadsSteady' /\ ReadYourWrites'
    BY <2>1, <2>2 DEF Reading, FirstHolds, ReadsSteady, ReadYourWrites, Answers
  <2>4. QED
    BY <1>1, <2>3 DEF Reading
<1>6. CASE Refuse
  BY <1>1, <1>6, ReadingFrame DEF Refuse, Threw, ShouldFailover, Ends, world
<1>7. CASE Abort \/ Fail \/ Timeout
  <2>1. /\ UNCHANGED <<state, op, known>> /\ pc # "idle" /\ (pc' # "idle" => UNCHANGED reachable)
        /\ LosesTrack \/ UNCHANGED stored
        /\ result' = result \/ result'.status \notin {"ok", "NotFound"}
    BY <1>7 DEF Abort, Fail, Timeout, Threw, Ends
  <2>2. CASE ~Writes
    BY <1>1, <2>1, <2>2, ReadingFrame DEF LosesTrack
  <2>3. CASE Writes
    BY <1>1, <2>1, <2>3 DEF Reading, FirstHolds, ReadsSteady, ReadYourWrites
  <2>4. QED
    BY <2>2, <2>3
<1>8. CASE Retry \/ UNCHANGED vars
  BY <1>1, <1>8, ReadingFrame DEF Retry, vars, world
<1>9. CASE LateLands
  <2>1. PICK r \in late : /\ stored' = [stored EXCEPT ![r.at] = r.content]
                          /\ known' = IF state[r.at] = "up" THEN Unknown ELSE known
                          /\ UNCHANGED <<state, op, pc, result, reachable>>
    BY <1>9 DEF LateLands
  <2>2. CASE state[r.at] = "up"
    BY <1>1, <2>1, <2>2 DEF Reading, FirstHolds, ReadsSteady, ReadYourWrites
  <2>3. CASE state[r.at] # "up"
    <3>1. \A b \in Chain : state[b] = "up" => stored'[b] = stored[b]
      BY <1>1, <2>1, <2>3 DEF TypeOK
    <3>2. QED
      BY <1>1, <2>1, <2>3, <3>1 DEF Reading, FirstHolds, ReadsSteady, ReadYourWrites, Answers, Writes
  <2>4. QED
    BY <2>2, <2>3
<1>10. ASSUME NEW b \in Chain, Change(b) PROVE Reading'
  BY <1>1, <1>10 DEF Change, Reading, FirstHolds, ReadsSteady, ReadYourWrites
<1>11. QED
  BY <1>2, <1>3, <1>4, <1>5, <1>6, <1>7, <1>8, <1>9, <1>10 DEF Next, Proceed

\* As long as no backend changes, reads find the last acknowledged write.
THEOREM ReadsFindWrites == Spec => []ReadYourWrites
<1>1. Init => Reading
  BY InitTyped DEF Init, Reading, Chained, NonePassed, FirstHolds, ReadsSteady, ReadYourWrites
<1>2. Spec => []Reading
  BY <1>1, NextReading, PTL DEF Spec
<1>3. QED
  BY <1>2, PTL DEF Reading
=============================================================================
