---- MODULE MCTargetLock ----
(* Instance of TargetLock for model checking: four calls of two clients. *)
EXTENDS TargetLock

CONSTANTS r1, r2, r3, r4, alice, bob

MCOwnerOf == [r \in Requests |-> IF r \in {r1, r3} THEN alice ELSE bob]
====
