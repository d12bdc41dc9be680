---- MODULE MCSessions ----
(* Instance of Sessions: two sessions that compete for the serial target and *)
(* one that needs no lock, of two clients.                                    *)
EXTENDS Sessions

CONSTANTS s1, s2, p1, alice, bob

MCOwnerOf == [s \in Sessions |-> IF s \in {s1, p1} THEN alice ELSE bob]
====
