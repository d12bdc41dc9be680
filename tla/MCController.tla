---- MODULE MCController ----
(* Instance of Controller: two recordings, two concurrent calls that stop one. *)
EXTENDS Controller

CONSTANTS v1, v2, c1, c2
====
