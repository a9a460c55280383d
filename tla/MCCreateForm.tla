---------------------------- MODULE MCCreateForm ----------------------------
(***************************************************************************)
(* Instances of CreateForm for TLC: two nodes, each with a template; both   *)
(* have storage s1, with room for different disks, the second has s2 also.  *)
(***************************************************************************)
EXTENDS CreateForm, TLC

CONSTANTS t1, t2, n1, n2, s1, s2, p1

NodeOfTemplate == t1 :> n1 @@ t2 :> n2
Lists == n1 :> <<s1>> @@ n2 :> <<s2, s1>>
Room == n1 :> (s1 :> 1 @@ s2 :> 0) @@ n2 :> (s1 :> 2 @@ s2 :> 1)
ScriptWithVolumes == ScriptOf.vm_volumes
=============================================================================
