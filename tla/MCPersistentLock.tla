---- MODULE MCPersistentLock ----
(* Instance of PersistentLock: two processes, one of them with two sessions. *)
EXTENDS PersistentLock

CONSTANTS s1, s2, t1, P, Q

MCHomeOf == [s \in Claims |-> IF s \in {s1, s2} THEN P ELSE Q]
MCHandoffs == {<<s1, s2>>}
====
