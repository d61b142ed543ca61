---------------------------- MODULE MCCachePlugin ----------------------------
(* CachePlugin with model values for keys and threads, both symmetric; FileIds brings the *)
(* adapters' own caches, whose assumptions TLC evaluates here.                            *)
EXTENDS CachePlugin, FileIds, TLC

CONSTANTS a, b, t1, t2

TwoKeys == {a, b}
TwoThreads == {t1, t2}
Symmetry == Permutations(Keys) \cup Permutations(Threads)

\* The callers keep reads and writes of a key apart, or everything goes wrong at once.
SomeSettings ==
    {[slowStore |-> FALSE, overlap |-> FALSE, lostReplies |-> FALSE],
     [slowStore |-> TRUE, overlap |-> TRUE, lostReplies |-> TRUE]}

Unused(k) ==
    /\ object[k] = 0 /\ cached[k] = NoRecord
    /\ \A t \in Threads : pc[t] # "idle" => k \notin Touches(op[t])

\* Kept apart, both keys are used, twice written, and the clock ticks once; otherwise
\* one key is used, written once and deleted, and entries live and expire.
Scope ==
    IF setting.overlap
      THEN versions <= 1 /\ \E k \in Keys : \A x \in Keys \ {k} : Unused(x)
      ELSE now <= 1
=============================================================================
