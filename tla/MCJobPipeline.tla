---------------------------- MODULE MCJobPipeline ----------------------------
(***************************************************************************)
(* Instances of JobPipeline for TLC.                                        *)
(***************************************************************************)
EXTENDS JobPipeline, TLC

CONSTANTS j1, j2, j3

\* A container and a restored copy that both ask for an automatic VMID, and an
\* in-place restore of the guest with the largest VMID.
NewAndInPlace == j1 :> "container" @@ j2 :> "restore" @@ j3 :> "restore_inplace"
NewAndInPlaceWanted == j1 :> AutoVmid @@ j2 :> AutoVmid @@ j3 :> FirstVmid

\* A backup and two in-place restores of one guest.
BackupAndInPlace ==
  j1 :> "backup" @@ j2 :> "restore_inplace" @@ j3 :> "restore_inplace"
BackupAndInPlaceWanted == j1 :> FirstVmid @@ j2 :> FirstVmid @@ j3 :> FirstVmid
=============================================================================
