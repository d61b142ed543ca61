----------------------------- MODULE MCTiering -----------------------------
(***************************************************************************)
(* Tiering in two settings, which together are small enough to check, and  *)
(* beside it the pages that adapters without pages of their own answer     *)
(* (WalkPaginate) and those of the adapters at large (AdapterLists).       *)
(***************************************************************************)
EXTENDS Tiering, WalkPaginate, AdapterLists

Unused(k) ==
    k \notin {from, to, rkey} /\ route[k] = "hot" /\ \A t \in Tier : stored[t][k] = Nothing

\* Calls and a read of the first key, in tiers of two keys that nobody lists.
CallsAndRead ==
    /\ listing = "idle" /\ rkey = 1 /\ Unused(3) /\ route[1] = "hot" /\ route[2] = "cold"
    /\ reads < MaxReads \/ rpc # "idle"
    /\ fallback = "off" => calls <= 1

\* The listing of three keys beside the last call, until the listing is done.
ListingAndCall ==
    /\ fallback = "on" /\ \A k \in Keys : route[k] = "hot"
    /\ reads = MaxReads /\ rpc = "idle" /\ calls >= MaxCalls - 1
    /\ calls = MaxCalls =>
          /\ refusals = 0
          /\ op \in {"upload", "delete", "tier"} /\ (op = "upload" => dst = "hot")
          /\ pc = "idle" => to \notin torn
    /\ listing = "idle" => calls = MaxCalls - 1
    /\ listing = "done" => pc = "idle"

Scope == CallsAndRead \/ ListingAndCall
=============================================================================
