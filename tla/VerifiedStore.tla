--------------------------- MODULE VerifiedStore ---------------------------
(***************************************************************************)
(* What the archive cache promises about its entries: an entry that the    *)
(* store publishes has the content its name says, and the store discards   *)
(* an entry only when it does not.  Nothing else but damage from outside   *)
(* changes an entry.                                                       *)
(***************************************************************************)
CONSTANTS Digests, Missing, Other

VARIABLE cached   \* content of the entry of each digest, by its own digest

Init == cached = [d \in Digests |-> Missing]

Publish(d) == cached[d] # d /\ cached' = [cached EXCEPT ![d] = d]
Discard(d) == cached[d] = Other /\ cached' = [cached EXCEPT ![d] = Missing]
Damage(d)  == \E c \in {Missing, Other} : cached' = [cached EXCEPT ![d] = c]

Next == \E d \in Digests : Publish(d) \/ Discard(d) \/ Damage(d)

Spec == Init /\ [][Next]_cached
=============================================================================
