-------------------------- MODULE MCMetadataCache --------------------------
(* Small instances of MetadataCache for TLC.                               *)
EXTENDS MetadataCache

CONSTANTS p1, p2, p3
=============================================================================
