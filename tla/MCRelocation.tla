---------------------------- MODULE MCRelocation ----------------------------
(***************************************************************************)
(* Relocation of kits with two listed files and one of each other kind,    *)
(* which hold anything to begin with.                                      *)
(***************************************************************************)
EXTENDS Relocation

CONSTANTS stock, plain, odd, own

MCFiles == {"conf", "config", "library", "wrapper"}

MCOrder == <<"conf", "config", "library", "wrapper">>

\* stock names the build machine and own this kit; plain names neither, and odd
\* cannot be rewritten.  The configuration file is always given its own text.
MCTransform ==
  LET listed == [c \in Held |-> CASE c = stock -> own [] c = odd -> Refused [] OTHER -> c]
  IN  [conf    |-> [c \in Held |-> IF c = odd THEN Refused ELSE own],
       config  |-> listed,
       library |-> listed,
       wrapper |-> [c \in Held |-> IF c \in {stock, own} THEN own ELSE Refused]]
=============================================================================
