---------------------------- MODULE UploadPromise ----------------------------
(***************************************************************************)
(* What upload() with an UploadControl promises its caller, whatever runs  *)
(* underneath: the object appears at most once and only whole, a promise   *)
(* that resolves means the object was stored, and a settled promise stays  *)
(* settled until the caller starts again from a token.  What is stored     *)
(* stays, unless the caller aborts and the provider cancels an upload by   *)
(* removing its object: then nothing is stored there any more.             *)
(***************************************************************************)

VARIABLES
    outcome,   \* "pending", "resolved", "rejected"
    stored,    \* "absent", "whole" or, once removed for the caller, "withdrawn"
    revoked    \* the caller aborted an upload whose object can be removed

pvars == <<outcome, stored, revoked>>

Init == outcome = "pending" /\ stored = "absent" /\ revoked = FALSE

Commit == stored = "absent" /\ stored' = "whole" /\ UNCHANGED <<outcome, revoked>>

Revoke == ~revoked /\ revoked' = TRUE /\ UNCHANGED <<outcome, stored>>

Withdraw == revoked /\ stored' = "withdrawn" /\ UNCHANGED <<outcome, revoked>>

Resolve ==
    /\ outcome = "pending" /\ stored \in {"whole", "withdrawn"}
    /\ outcome' = "resolved"
    /\ UNCHANGED <<stored, revoked>>

Reject == outcome = "pending" /\ outcome' = "rejected" /\ UNCHANGED <<stored, revoked>>

StartAgain ==
    /\ outcome = "rejected" /\ ~revoked
    /\ outcome' = "pending"
    /\ UNCHANGED <<stored, revoked>>

Next == Commit \/ Revoke \/ Withdraw \/ Resolve \/ Reject \/ StartAgain

Spec == Init /\ [][Next]_pvars
=============================================================================
