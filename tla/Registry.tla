------------------------------ MODULE Registry ------------------------------
(***************************************************************************)
(* What a kit's manifest promises, whoever writes it: it is the list of    *)
(* the requests applied to the kit, one after the other.  Applying one     *)
(* replaces or adds the packages it selects and keeps every other module,  *)
(* whatever other processes did since the request was made.                *)
(***************************************************************************)
EXTENDS Reconcile

CONSTANTS
  Kits, NoManifest,
  Wanted   \* the sequences of selections that a request can make for a kit

VARIABLE manifest

Init == manifest = [k \in Kits |-> NoManifest]

Current(k) == IF manifest[k] = NoManifest THEN NoPackages ELSE manifest[k]

Apply(k, sels) ==
  manifest' = [manifest EXCEPT ![k] = Recorded(Current(k), sels)]

Spec == Init /\ [][\E k \in Kits, sels \in Wanted : Apply(k, sels)]_manifest
=============================================================================
