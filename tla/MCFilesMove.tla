---------------------------- MODULE MCFilesMove ----------------------------
(***************************************************************************)
(* The scope TLC explores.  FsSidecars brings the steps of the fs adapter, *)
(* CommandLine and AgentTools what stands in front of Files; TLC evaluates *)
(* their assumptions here.                                                 *)
(***************************************************************************)
EXTENDS FilesMove, FsSidecars, CommandLine, AgentTools, FiniteSetsExt

Retries == MapThenSumSet(LAMBDA c : attempt[c], Calls)

\* Two retries, of one call or of two, before a third call; one with it.
Scope == Retries <= IF made < 3 THEN 2 ELSE 1

=============================================================================
