--------------------------- MODULE MCArchiveStore ---------------------------
(* Small instances of ArchiveStore for TLC.                                *)
EXTENDS ArchiveStore

CONSTANTS p1, p2, p3, d1, d2
=============================================================================
