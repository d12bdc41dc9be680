-------------------------------- MODULE Sessions --------------------------------
(***************************************************************************)
(* SessionManager (src/src/automation/session-manager.ts) with the routes  *)
(* and timers that drive it (src/src/transports/api-server.ts): the life   *)
(* of each session from POST /v1/sessions to the end of its cleanup.       *)
(*                                                                         *)
(* The sessions of Serial compete for one serial target, through the lock  *)
(* specified in ExclusiveLock; the others use targets that need no lock.   *)
(* The controller of a session is seen through the outcome of start() and  *)
(* close(): a close() that resolves has given the device back, one that    *)
(* rejects may not have.  A session whose recording could not be finalized *)
(* is doomed: VideoRecorder.stop() answers with the same rejection from    *)
(* then on, and so does every close().  A session id is used once.         *)
(***************************************************************************)
EXTENDS Naturals, Sequences, FiniteSets, SequencesExt

CONSTANTS
  Sessions,     \* the session ids
  Owners,       \* the clients
  OwnerOf,      \* the ownerId of each session
  Serial,       \* the sessions on the serial target
  None,
  MaxClosures,  \* how many closures are remembered (100 in the code)
  MaxFailures   \* bound on failing cleanups

ASSUME SessionsAssumption ==
  /\ OwnerOf \in [Sessions -> Owners]
  /\ Serial \subseteq Sessions
  /\ None \notin Sessions
  /\ MaxClosures \in Nat \ {0}
  /\ MaxFailures \in Nat

VARIABLES
  stage,     \* how far each session is
  device,    \* may the session's controller be using the device?
  doomed,    \* the sessions whose controller keeps a recorder that rejected stop()
  aborted,   \* the POSTs still suspended whose AbortSignal has fired
  closures,  \* the keys of the map `closures`, oldest first
  result,    \* the outcome of close(): what the promise in `closures` says
  expired,   \* the ids in the set `expired`
  left,      \* the owners that have disconnected and send no more requests
  stopped,   \* stop() of the API server was called
  failures,  \* failing cleanups so far
  owner, asking, answered   \* the lock of the serial target

lock == <<owner, asking, answered>>
vars == <<stage, device, doomed, aborted, closures, result, expired, left, stopped,
          failures, owner, asking, answered>>

Lock == INSTANCE ExclusiveLock WITH Requests <- Serial

Stage ==
  { "idle",         \* no POST yet
    "preparing",    \* POST: assets, target and options are looked up
    "locking",      \* suspended in locks.acquire()
    "starting",     \* suspended in controller.start()
    "live",         \* in the map `sessions`
    "closing",      \* suspended in controller.close()
    "releasing",    \* suspended in release()
    "quarantined",  \* cleanup failed, the retry timer runs
    "ended" }

Outcome == {"none", "pending", "resolved", "rejected"}

TypeOK ==
  /\ stage \in [Sessions -> Stage]
  /\ device \in [Sessions -> BOOLEAN]
  /\ doomed \subseteq Sessions
  /\ aborted \subseteq Sessions
  /\ closures \in Seq(Sessions)
  /\ Len(closures) <= MaxClosures
  /\ result \in [Sessions -> Outcome]
  /\ expired \subseteq Sessions
  /\ left \subseteq Owners
  /\ stopped \in BOOLEAN
  /\ failures \in Nat
  /\ owner \in Serial \union {None}
  /\ asking \subseteq Serial
  /\ answered \subseteq Serial

Init ==
  /\ stage = [s \in Sessions |-> "idle"]
  /\ device = [s \in Sessions |-> FALSE]
  /\ doomed = {}
  /\ aborted = {}
  /\ closures = <<>>
  /\ result = [s \in Sessions |-> "none"]
  /\ expired = {}
  /\ left = {}
  /\ stopped = FALSE
  /\ failures = 0
  /\ Lock!Init

Live == {s \in Sessions : stage[s] = "live"}

MayFail == failures < MaxFailures /\ failures' = failures + 1

-------------------------------------------------------------------------------
(* POST /v1/sessions and start().                                          *)

Post(s) ==
  /\ stage[s] = "idle"
  /\ OwnerOf[s] \notin left
  /\ stage' = [stage EXCEPT ![s] = "preparing"]
  /\ UNCHANGED <<device, doomed, aborted, closures, result, expired, left, stopped,
                 failures, lock>>

\* Unknown target, missing asset: nothing is held yet.
PrepareFails(s) ==
  /\ stage[s] = "preparing"
  /\ stage' = [stage EXCEPT ![s] = "ended"]
  /\ aborted' = aborted \ {s}
  /\ UNCHANGED <<device, doomed, closures, result, expired, left, stopped, failures,
                 lock>>

AcquireLock(s) ==
  /\ stage[s] = "preparing"
  /\ s \in Serial
  /\ stage' = [stage EXCEPT ![s] = "locking"]
  /\ Lock!Ask(s)
  /\ UNCHANGED <<device, doomed, aborted, closures, result, expired, left, stopped,
                 failures>>

\* Mutant: an aborted request throws before the try block.
BeginOutsideTry(s) ==
  /\ stage' = [stage EXCEPT ![s] = IF s \in aborted THEN "ended" ELSE "starting"]
  /\ device' = [device EXCEPT ![s] = s \notin aborted]
  /\ aborted' = aborted \ {s}

\* The request was aborted while it waited: its fresh controller is closed and
\* the lock released, by the same handler as for a failing start.
Begin(s) ==
  /\ stage' = [stage EXCEPT ![s] = IF s \in aborted THEN "closing" ELSE "starting"]
  /\ device' = [device EXCEPT ![s] = s \notin aborted]
  /\ aborted' = aborted \ {s}

StartParallel(s) ==
  /\ stage[s] = "preparing"
  /\ s \notin Serial
  /\ Begin(s)
  /\ UNCHANGED <<doomed, closures, result, expired, left, stopped, failures, lock>>

LockGranted(s) ==
  /\ stage[s] = "locking"
  /\ Lock!Grant(s)
  /\ Begin(s)
  /\ UNCHANGED <<doomed, closures, result, expired, left, stopped, failures>>

\* acquire() throws: on a timeout, a failed open, or cancelOwner().
Refuse(R) ==
  /\ Lock!Refuse(R)
  /\ stage' = [s \in Sessions |-> IF s \in R THEN "ended" ELSE stage[s]]
  /\ aborted' = aborted \ R

LockRefused(R) ==
  /\ R \subseteq asking
  /\ Refuse(R)
  /\ UNCHANGED <<device, doomed, closures, result, expired, left, stopped, failures>>

\* The client goes away while the POST is answered: its AbortSignal is there from the
\* call of start() on.
Abort(s) ==
  /\ stage[s] \in {"preparing", "locking", "starting"}
  /\ aborted' = aborted \union {s}
  /\ UNCHANGED <<stage, device, doomed, closures, result, expired, left, stopped,
                 failures, lock>>

\* The session enters `sessions` and its lease starts, unless the request was
\* aborted meanwhile.
Started(s) ==
  /\ stage[s] = "starting"
  /\ stage' = [stage EXCEPT ![s] = IF s \in aborted THEN "closing" ELSE "live"]
  /\ aborted' = aborted \ {s}
  /\ UNCHANGED <<device, doomed, closures, result, expired, left, stopped,
                 failures, lock>>

\* controller.start() rejects, after an attempt of its own to clean up.
StartFails(s) ==
  /\ stage[s] = "starting"
  /\ \E used \in BOOLEAN : device' = [device EXCEPT ![s] = used]
  /\ stage' = [stage EXCEPT ![s] = "closing"]
  /\ aborted' = aborted \ {s}
  /\ UNCHANGED <<doomed, closures, result, expired, left, stopped, failures, lock>>

-------------------------------------------------------------------------------
(* close() and what calls it.                                              *)

\* Mutant: one closure too many is kept.
RecentAndOne(q) ==
  IF Len(q) > MaxClosures + 1 THEN SubSeq(q, Len(q) - MaxClosures, Len(q)) ELSE q

\* rememberClosure(): the oldest closures beyond MaxClosures are forgotten.
Recent(q) ==
  IF Len(q) > MaxClosures THEN SubSeq(q, Len(q) - MaxClosures + 1, Len(q)) ELSE q

\* The sessions of S, in some order, enter `closures`; late are those of them
\* whose lease ran out.
Remember(S, late) ==
  \E order \in SetToSeqs(S) :
    LET all == closures \o order
        kept == Recent(all)
    IN  /\ closures' = kept
        /\ expired' = (expired \union late) \ (ToSet(all) \ ToSet(kept))
        /\ result' = [s \in Sessions |-> IF s \in S THEN "pending" ELSE result[s]]

\* The lease is cleared as the session leaves `sessions`.
BeginClose(s, late) ==
  /\ s \in Live
  /\ stage' = [stage EXCEPT ![s] = "closing"]
  /\ Remember({s}, late)
  /\ UNCHANGED <<device, doomed, aborted, left, stopped, failures, lock>>

\* DELETE /v1/sessions/:id, a command that finds the browser session
\* terminated, or a POST that fails after start() returned.
Close(s) == BeginClose(s, {})

\* Mutant: the session is marked, and left to a later request.
LeaseOnlyMarks(s) ==
  /\ s \in Live
  /\ expired' = expired \union {s}
  /\ UNCHANGED <<stage, device, doomed, aborted, closures, result, left, stopped, failures,
                 lock>>

LeaseExpires(s) == BeginClose(s, {s})

\* closeOwned(): cancelOwner() refuses the owner's waiters, all but those out of its
\* reach: the one that is opening the lock, the one being handed it, and any whose
\* array has been taken out of the map.  Called when the client disconnects, is
\* revoked, or lets its own lease run out.
CloseOwned(o) ==
  LET waiting == {s \in asking : OwnerOf[s] = o}
      mine == {s \in Live : OwnerOf[s] = o}
  IN  \E R \in SUBSET waiting :
        /\ left' = left \union {o}
        /\ answered' = answered \union R
        /\ asking' = asking \ R
        /\ stage' = [s \in Sessions |-> IF s \in mine THEN "closing"
                                        ELSE IF s \in R THEN "ended" ELSE stage[s]]
        /\ aborted' = aborted \ R
        /\ Remember(mine, {})
        /\ UNCHANGED <<device, doomed, stopped, failures, owner>>

\* stop(): closeAll() sees the sessions in `sessions` only, and the server takes
\* requests until their cleanup is done.
CloseAll ==
  /\ ~stopped
  /\ stopped' = TRUE
  /\ stage' = [s \in Sessions |-> IF s \in Live THEN "closing" ELSE stage[s]]
  /\ Remember(Live, {})
  /\ UNCHANGED <<device, doomed, aborted, left, failures, lock>>

-------------------------------------------------------------------------------
(* await controller.close(); await release(); and, failing that, the retry *)
(* timer: the same for close(), for a failing start() and for the retry.   *)

\* Mutant: release() is called although close() rejected.
ClosedEither(s) ==
  /\ stage[s] = "closing"
  /\ device' \in {device, [device EXCEPT ![s] = FALSE]}
  /\ stage' = [stage EXCEPT ![s] = "releasing"]
  /\ UNCHANGED <<doomed, aborted, closures, result, expired, left, stopped, failures, lock>>

Closed(s) ==
  /\ stage[s] = "closing"
  /\ s \notin doomed
  /\ device' = [device EXCEPT ![s] = FALSE]
  /\ stage' = [stage EXCEPT ![s] = "releasing"]
  /\ UNCHANGED <<doomed, aborted, closures, result, expired, left, stopped, failures, lock>>

\* The promise in `closures` settles once; a retry does not change it.
Settle(s, outcome) ==
  result' = [result EXCEPT ![s] = IF @ = "pending" THEN outcome ELSE @]

\* Mutant: the caller is not told.
QuarantineSilently(s) ==
  /\ stage' = [stage EXCEPT ![s] = "quarantined"]
  /\ Settle(s, "resolved")
  /\ UNCHANGED <<device, doomed, aborted, closures, expired, left, stopped>>

Quarantine(s) ==
  /\ stage' = [stage EXCEPT ![s] = "quarantined"]
  /\ Settle(s, "rejected")
  /\ UNCHANGED <<device, doomed, aborted, closures, expired, left, stopped>>

\* The one finalization of the session's recording fails, at a client's stop or in
\* close(): the rejected promise is kept, and so is the recorder.
FinalizeFails(s) ==
  /\ stage[s] \in {"live", "closing"}
  /\ s \notin doomed
  /\ MayFail
  /\ doomed' = doomed \union {s}
  /\ UNCHANGED <<stage, device, aborted, closures, result, expired, left, stopped, lock>>

\* close() rejects: something of the cleanup failed this time, or the recording did for good.
CloseFails(s) ==
  /\ stage[s] = "closing"
  /\ IF s \in doomed THEN UNCHANGED failures ELSE MayFail
  /\ Quarantine(s)
  /\ UNCHANGED lock

\* release() resolved: on the serial target the lock is free by now, or belongs
\* to the request that waited longest.
Freed(s) ==
  /\ stage' = [stage EXCEPT ![s] = "ended"]
  /\ IF s \in Serial THEN Lock!Release ELSE UNCHANGED lock
  /\ UNCHANGED <<device, aborted>>

HandedTo(s, w) ==
  /\ s \in Serial
  /\ Lock!Pass(w)
  /\ stage' = [stage EXCEPT ![s] = "ended",
                            ![w] = IF w \in aborted THEN "closing" ELSE "starting"]
  /\ device' = [device EXCEPT ![w] = w \notin aborted]
  /\ aborted' = aborted \ {w}

Released(s) ==
  /\ stage[s] = "releasing"
  /\ Freed(s) \/ \E w \in Serial : HandedTo(s, w)
  /\ Settle(s, "resolved")
  /\ UNCHANGED <<doomed, closures, expired, left, stopped, failures>>

\* The lock directory could not be removed, or not be handed to the first waiter.
ReleaseFails(s) ==
  /\ stage[s] = "releasing"
  /\ s \in Serial
  /\ MayFail
  /\ Settle(s, "rejected")
  /\ \E R \in SUBSET asking :
       /\ Cardinality(R) <= 1
       /\ stage' = [x \in Sessions |-> IF x = s THEN "quarantined"
                                       ELSE IF x \in R THEN "ended" ELSE stage[x]]
       /\ asking' = asking \ R
       /\ answered' = answered \union R
       /\ aborted' = aborted \ R
  /\ UNCHANGED <<device, doomed, closures, expired, left, stopped, owner>>

Retry(s) ==
  /\ stage[s] = "quarantined"
  /\ stage' = [stage EXCEPT ![s] = "closing"]
  /\ UNCHANGED <<device, doomed, aborted, closures, result, expired, left, stopped,
                 failures, lock>>

Starting(s) ==
  \/ Post(s) \/ PrepareFails(s) \/ AcquireLock(s)
  \/ StartParallel(s) \/ LockGranted(s)
  \/ Abort(s) \/ Started(s) \/ StartFails(s)

Ending(s) ==
  \/ Close(s) \/ LeaseExpires(s)
  \/ Closed(s) \/ CloseFails(s) \/ FinalizeFails(s)
  \/ Released(s) \/ ReleaseFails(s) \/ Retry(s)

Next ==
  \/ \E s \in Sessions : Starting(s) \/ Ending(s)
  \/ \E R \in SUBSET asking : LockRefused(R)
  \/ \E o \in Owners : CloseOwned(o)
  \/ CloseAll

Spec == Init /\ [][Next]_vars

(***************************************************************************)
(* Fairness.  Whatever the server awaits settles: preparing and starting a *)
(* session, the lock (TargetLock: EveryRequestIsAnswered), close(),        *)
(* release() and the retry timer; failures run out after MaxFailures, all  *)
(* but those of a doomed session, which repeat.  The lease of a session    *)
(* whose client is gone runs out.  A client need not send, abort or close  *)
(* anything.  Each of these waits for a stage of its own, so one condition *)
(* per session covers them.                                                *)
(***************************************************************************)
Answered(s) == LockGranted(s) \/ \E R \in SUBSET asking : s \in R /\ LockRefused(R)

Settles(s) ==
  \/ PrepareFails(s) \/ AcquireLock(s) \/ StartParallel(s)
  \/ Answered(s)
  \/ Started(s) \/ StartFails(s)
  \/ OwnerOf[s] \in left /\ LeaseExpires(s)
  \/ Closed(s) \/ (s \in doomed /\ CloseFails(s))
  \/ Released(s) \/ Retry(s)

Fairness == \A s \in Sessions : WF_vars(Settles(s))

FairSpec == Spec /\ Fairness

-------------------------------------------------------------------------------
(* Properties.                                                             *)

\* A controller uses the serial target only while its session owns the lock:
\* from before controller.start() until close() has resolved, however many
\* cleanups fail in between and whatever answer the client got already
\* (docs/releases/0.5.0-migration.md:30).
DeviceUnderLock == \A s \in Serial : device[s] => owner = s

\* The lock always belongs to a session that is still on its way to release it:
\* no abort, failing start or failing cleanup leaks it.
LockWillBeReleased ==
  owner # None =>
    stage[owner] \in {"starting", "live", "closing", "releasing", "quarantined"}

\* What close() tells the client is what happened: a resolved close() has given
\* up device and lock, a session that is rejected or pending still has cleanup
\* ahead or behind it.
ResultIsHonest ==
  \A s \in Sessions :
    /\ result[s] = "resolved" => stage[s] = "ended" /\ ~device[s] /\ owner # s
    /\ stage[s] = "quarantined" => result[s] \in {"none", "rejected"}

\* An id is known as expired only as long as its closure is remembered, so that
\* neither collection grows with the number of sessions.
ExpiredAreRemembered == expired \subseteq ToSet(closures)

\* A session that is listed has not been closed, and nobody has given up on its
\* POST: get() never answers for a session that another call is closing.
ListedIsUsable ==
  \A s \in Live : s \notin aborted /\ result[s] = "none" /\ s \notin ToSet(closures)

\* What the clients are told is what is the case: the outcome of a close, the list of the
\* sessions, and which ids have expired.
AnswersAreTrue == ResultIsHonest /\ ListedIsUsable /\ ExpiredAreRemembered

\* README.md:244: "Disconnect closes this client's sessions and queued device
\* requests".
DisconnectIsFinal == \A s \in Live : OwnerOf[s] \notin left

\* The session has ended, or its cleanup is retried for ever because its recording could not
\* be finalized.
OverOrDoomed(s) == stage[s] = "ended" \/ (s \in doomed /\ stage[s] = "quarantined")

\* A client that disconnects, for good, is cleaned up after, even the sessions
\* that were starting at the time.
LeaversAreCleanedUp ==
  \A s \in Sessions :
    OwnerOf[s] \in left ~> stage[s] = "idle" \/ OverOrDoomed(s)

\* A serial target is given up in the end, whatever part of a cleanup failed, unless that
\* part is the finalization of a recording.
CleanupFinishes ==
  \A s \in Sessions : stage[s] \in {"closing", "quarantined"} ~> OverOrDoomed(s)

\* Nobody's session stays for ever, whatever fails: neither that of a client that has gone,
\* nor one whose cleanup has begun.  The exception is named, and is the code's: the rejection
\* of VideoRecorder.stop() is memoized and close() goes on calling it, so that no retry ever
\* proves the cleanup complete and the serial target stays locked until the server ends,
\* against docs/releases/0.5.0.md:83 ("Cleanup failures quarantine a serial target until a
\* retry proves cleanup complete").
SessionsEnd == LeaversAreCleanedUp /\ CleanupFinishes
=============================================================================
