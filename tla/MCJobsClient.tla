---------------------------- MODULE MCJobsClient ----------------------------
(***************************************************************************)
(* Instances of JobsClient for TLC.                                         *)
(***************************************************************************)
EXTENDS JobsClient, TLC

CONSTANTS j1, j2, g1

\* A guest is provisioned and then backed up.
SameGuest == j1 :> g1 @@ j2 :> g1
=============================================================================
