----------------------------- MODULE MCJobQueue -----------------------------
(***************************************************************************)
(* Instances of the job queue: a type limited to one running job, one      *)
(* limited to two, and a special one that is never queued.                 *)
(***************************************************************************)
EXTENDS JobQueue, TLC

MCTypes == {1, 2, 3}
MCLimit == (1 :> 1) @@ (2 :> 2) @@ (3 :> 0)
=============================================================================
