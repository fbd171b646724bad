------------------------------- MODULE Mutex -------------------------------
(***************************************************************************)
(* What the users of a lock file rely on: a free lock is taken by one      *)
(* process, and only the end of its ownership makes it free again.         *)
(***************************************************************************)
CONSTANTS Procs, Nobody

VARIABLE owner

Init == owner = Nobody
Take(p) == owner = Nobody /\ owner' = p
Drop(p) == owner = p /\ owner' = Nobody

Spec == Init /\ [][\E p \in Procs : Take(p) \/ Drop(p)]_owner
=============================================================================
