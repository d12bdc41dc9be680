---------------------------- MODULE ExclusiveLock ----------------------------
(***************************************************************************)
(* What a lock over one serial target promises its callers, with no word   *)
(* on queues, files or timers.  A request asks once, is answered once, and *)
(* the target belongs to at most one request at a time: it is granted when *)
(* nobody owns it, or passed by its owner straight to a request that is    *)
(* still asking.  TargetLock is shown to implement this, and               *)
(* PersistentLock as long as no directory is taken away wrongly.           *)
(***************************************************************************)
CONSTANTS
  Requests,   \* the calls of acquire()
  None        \* no request: not a member of Requests

VARIABLES
  owner,      \* the request that owns the target, or None
  asking,     \* the requests that have asked and are not answered yet
  answered    \* the requests that were granted the target or refused it

vars == <<owner, asking, answered>>

Init ==
  /\ owner = None
  /\ asking = {}
  /\ answered = {}

Ask(r) ==
  /\ r \in Requests \ (asking \union answered)
  /\ asking' = asking \union {r}
  /\ UNCHANGED <<owner, answered>>

\* A request may be refused without ever being queued.
Refuse(R) ==
  /\ R # {}
  /\ R \subseteq Requests \ answered
  /\ answered' = answered \union R
  /\ asking' = asking \ R
  /\ UNCHANGED owner

Grant(r) ==
  /\ owner = None
  /\ r \in asking
  /\ owner' = r
  /\ asking' = asking \ {r}
  /\ answered' = answered \union {r}

Pass(r) ==
  /\ owner # None
  /\ r \in asking
  /\ owner' = r
  /\ asking' = asking \ {r}
  /\ answered' = answered \union {r}

Release ==
  /\ owner # None
  /\ owner' = None
  /\ UNCHANGED <<asking, answered>>

Next ==
  \/ \E r \in Requests : Ask(r) \/ Grant(r) \/ Pass(r)
  \/ \E R \in SUBSET Requests : Refuse(R)
  \/ Release

Spec == Init /\ [][Next]_vars
==============================================================================
