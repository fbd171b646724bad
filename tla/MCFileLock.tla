----------------------------- MODULE MCFileLock -----------------------------
(* Small instances of FileLock for TLC.                                    *)
EXTENDS FileLock

CONSTANTS p1, p2, p3
=============================================================================
