----------------------------- MODULE MCJobEvents -----------------------------
(***************************************************************************)
(* Instances of JobEvents for TLC: the scripts of the kinds of job, and the *)
(* symmetry of the streams for the runs without liveness.                   *)
(***************************************************************************)
EXTENDS JobEvents, TLC

VMScript == ScriptOf.vm_volumes
BackupScript == ScriptOf.backup

StreamSymmetry == Permutations(Streams)
=============================================================================
