-------------------------- MODULE MCRemoteConnection --------------------------
\* A host the gateway remembers and is an administrator of, and one it may be paired with.
EXTENDS RemoteConnection

CONSTANTS h1, h2, p1, p2, c1, c2, b1

MCHostOf == [p \in Pairings |-> IF p = p1 THEN h1 ELSE h2]
MCAsked  == [p \in Pairings |-> IF p = p1 THEN "admin" ELSE "control"]
===============================================================================
