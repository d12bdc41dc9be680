------------------------------ MODULE TargetLock ------------------------------
(***************************************************************************)
(* TargetLockManager of one process, for one serial target                 *)
(* (src/src/automation/target-lock-manager.ts, lines 196-305).             *)
(*                                                                         *)
(* The process is single threaded: what happens between two awaits is one  *)
(* action.  Each call of acquire() is a request with a session id of its   *)
(* own, and pc says where that call, and later the release closure it      *)
(* returned, is suspended.  The manager's operations never look at another *)
(* target, except cancelOwner(), which repeats the same step for each.     *)
(*                                                                         *)
(* The lock directory on disk is seen here through the results of          *)
(* PersistentTargetLock's calls; its own steps are in PersistentLock.      *)
(* What that module shows of other processes is kept: one of them may take *)
(* the directory away from a holder (a torn read or a late removal).       *)
(***************************************************************************)
EXTENDS Naturals

CONSTANTS
  Requests,   \* the calls of acquire()
  Owners,     \* the clients
  OwnerOf,    \* the ownerId of each request
  Impatient,  \* the requests made with timeoutMs = 0
  None,       \* no request
  Free,       \* the lock directory does not exist
  Foreign,    \* a live process other than this one owns the lock directory
  Stale,      \* a dead process left the lock directory behind
  Unnamed,    \* the lock directory exists, its owner.json cannot be read
  MaxFaults   \* bound on failing file operations, dying processes and lost directories

ASSUME LockAssumption ==
  /\ OwnerOf \in [Requests -> Owners]
  /\ Impatient \subseteq Requests
  /\ None \notin Requests
  /\ MaxFaults \in Nat
  /\ Requests \intersect {Free, Foreign, Stale, Unnamed} = {}
  /\ Free # Foreign /\ Free # Stale /\ Foreign # Stale
  /\ Unnamed \notin {Free, Foreign, Stale}

VARIABLES
  ready,    \* the promise of the constructor's cleanup of the lock root
  present,  \* queues.has(targetId)
  queue,    \* the waiters in the array queues.get(targetId)
  arrival,  \* when acquire() was called: the array is ordered by arrival
  clock,    \* the last arrival given out
  pc,       \* where the call of each request is suspended
  heir,     \* the waiter a suspended release closure shifted off the array
  disk,     \* the owner of the lock directory
  faults,   \* failures so far
  late,     \* history: called acquire() during a final release that has not failed
  robbed    \* history: the requests whose name was lost from the lock directory

\* The history variables are read by the properties only.
history == <<late, robbed>>

vars == <<ready, present, queue, arrival, clock, pc, heir, disk, faults, late, robbed>>

Status ==
  { "idle",      \* acquire() not called yet
    "opening",   \* about to mkdir the lock directory
    "refused",   \* mkdir met an existing directory
    "waiting",   \* a LockWaiter whose promise is pending
    "heir",      \* shifted off the array, its promise still pending
    "held",      \* acquire() returned the release closure
    "handing",   \* release closure suspended in persistent.handoff()
    "closing",   \* release closure suspended in persistent.release()
    "released",  \* release closure has set released = true
    "rejected" } \* acquire() threw

\* The request that may use the device, until its release closure succeeds.
Holding == {"held", "handing", "closing"}
Pending == {"opening", "refused", "waiting", "heir"}

TypeOK ==
  /\ ready \in {"pending", "done", "failed"}
  /\ present \in BOOLEAN
  /\ queue \in SUBSET Requests
  /\ arrival \in [Requests -> Nat]
  /\ clock \in Nat
  /\ pc \in [Requests -> Status]
  /\ heir \in [Requests -> Requests \union {None}]
  /\ disk \in Requests \union {Free, Foreign, Stale, Unnamed}
  /\ faults \in Nat
  /\ late \in SUBSET Requests
  /\ robbed \in SUBSET Requests

Init ==
  /\ ready = "pending"
  /\ present = FALSE
  /\ queue = {}
  /\ arrival = [r \in Requests |-> 0]
  /\ clock = 0
  /\ pc = [r \in Requests |-> "idle"]
  /\ heir = [r \in Requests |-> None]
  /\ disk \in {Free, Foreign, Stale, Unnamed}
  /\ faults = 0
  /\ late = {}
  /\ robbed = {}

MayFail ==
  /\ faults < MaxFaults
  /\ faults' = faults + 1

-------------------------------------------------------------------------------
(* The constructor and acquire().                                          *)

\* What removeIfStale() may find: a directory of a dead process, or one without a readable
\* owner.json that is older than five seconds.
Removable == disk \in {Stale, Unnamed}

\* cleanup() has gone over the lock directories; `ready` rejects when a removal failed, here
\* or in the directory of another target.
Ready ==
  /\ ready = "pending"
  /\ \/ /\ ready' = "done"
        /\ disk' \in IF disk = Stale THEN {Free}
                    ELSE IF disk = Unnamed THEN {Free, disk} ELSE {disk}
        /\ UNCHANGED faults
     \/ /\ MayFail
        /\ ready' = "failed"
        /\ disk' \in IF Removable THEN {Free, disk} ELSE {disk}
  /\ UNCHANGED <<present, queue, arrival, clock, pc, heir, history>>

\* Every call of acquire() awaits `ready` first, and rejects with it.
AcquireUnready(r) ==
  /\ ready = "failed"
  /\ pc[r] = "idle"
  /\ pc' = [pc EXCEPT ![r] = "rejected"]
  /\ UNCHANGED <<ready, present, queue, arrival, clock, heir, disk, faults, history>>

Arrive(r) ==
  /\ clock' = clock + 1
  /\ arrival' = [arrival EXCEPT ![r] = clock + 1]

\* No entry in `queues`: make one and go for the lock directory.
AcquireFirst(r) ==
  /\ ready = "done"
  /\ pc[r] = "idle"
  /\ ~present
  /\ present' = TRUE
  /\ queue' = {}
  /\ pc' = [pc EXCEPT ![r] = "opening"]
  /\ Arrive(r)
  /\ UNCHANGED <<ready, heir, disk, faults, history>>

AcquireBusy(r) ==
  /\ ready = "done"
  /\ pc[r] = "idle"
  /\ present
  /\ r \in Impatient
  /\ pc' = [pc EXCEPT ![r] = "rejected"]
  /\ UNCHANGED <<ready, present, queue, arrival, clock, heir, disk, faults, history>>

\* The array that the waiter is pushed onto is dropped if a final release is under way.
AcquireWait(r) ==
  /\ ready = "done"
  /\ pc[r] = "idle"
  /\ present
  /\ r \notin Impatient
  /\ pc' = [pc EXCEPT ![r] = "waiting"]
  /\ queue' = queue \union {r}
  /\ Arrive(r)
  /\ late' = IF \E h \in Requests : pc[h] = "closing" THEN late \union {r} ELSE late
  /\ UNCHANGED <<ready, present, heir, disk, faults, robbed>>

\* persistent.acquire() returned: acquire() returns the release closure.
MkdirDone(r) ==
  /\ pc[r] = "opening"
  /\ disk = Free
  /\ disk' = r
  /\ pc' = [pc EXCEPT ![r] = "held"]
  /\ UNCHANGED <<ready, present, queue, arrival, clock, heir, faults, history>>

MkdirExists(r) ==
  /\ pc[r] = "opening"
  /\ disk # Free
  /\ pc' = [pc EXCEPT ![r] = "refused"]
  /\ UNCHANGED <<ready, present, queue, arrival, clock, heir, disk, faults, history>>

RemoveStale(r) ==
  /\ pc[r] = "refused"
  /\ Removable
  /\ disk' = Free
  /\ pc' = [pc EXCEPT ![r] = "opening"]
  /\ UNCHANGED <<ready, present, queue, arrival, clock, heir, faults, history>>

\* The timeout has not elapsed: sleep the poll interval and try again.
Poll(r) ==
  /\ pc[r] = "refused"
  /\ disk # Stale
  /\ r \notin Impatient
  /\ pc' = [pc EXCEPT ![r] = "opening"]
  /\ UNCHANGED <<ready, present, queue, arrival, clock, heir, disk, faults, history>>

\* Mutant: the waiters are resolved.
RejectAllResolves(r) ==
  /\ present' = FALSE
  /\ queue' = {}
  /\ pc' = [x \in Requests |-> IF x = r THEN "rejected"
                               ELSE IF x \in queue THEN "held" ELSE pc[x]]
  /\ UNCHANGED <<ready, arrival, clock, heir, disk, history>>

\* persistent.acquire() threw: the entry goes and every waiter gets the error.
RejectAll(r) ==
  /\ present' = FALSE
  /\ queue' = {}
  /\ pc' = [x \in Requests |->
              IF x = r \/ x \in queue THEN "rejected" ELSE pc[x]]
  /\ UNCHANGED <<ready, arrival, clock, heir, disk, history>>

GiveUp(r) ==
  /\ pc[r] = "refused"
  /\ disk # Stale
  /\ RejectAll(r)
  /\ UNCHANGED faults

\* mkdir or writeFile failed for a reason of its own; rm takes back the directory.
OpenFails(r) ==
  /\ pc[r] = "opening"
  /\ disk = Free
  /\ MayFail
  /\ RejectAll(r)

\* The rm of removeIfStale() fails: it is not in the loop's try block.
RemovalFails(r) ==
  /\ pc[r] = "refused"
  /\ Removable
  /\ MayFail
  /\ RejectAll(r)

\* Mutant: the timer rejects only a waiter that it finds in the array.
TimeoutIfQueued(r) ==
  /\ pc[r] = "waiting"
  /\ r \in queue
  /\ pc' = [pc EXCEPT ![r] = "rejected"]
  /\ queue' = queue \ {r}
  /\ UNCHANGED <<ready, present, arrival, clock, heir, disk, faults, history>>

\* The timer of a waiter; it finds the waiter in the array or nowhere.
Timeout(r) ==
  /\ pc[r] = "waiting"
  /\ pc' = [pc EXCEPT ![r] = "rejected"]
  /\ queue' = queue \ {r}
  /\ UNCHANGED <<ready, present, arrival, clock, heir, disk, faults, history>>

CancelOwner(o) ==
  LET mine == {r \in queue : OwnerOf[r] = o}
  IN  /\ mine # {}
      /\ queue' = queue \ mine
      /\ pc' = [x \in Requests |-> IF x \in mine THEN "rejected" ELSE pc[x]]
      /\ UNCHANGED <<ready, present, arrival, clock, heir, disk, faults, history>>

-------------------------------------------------------------------------------
(* The closure made by releaseOnce().                                      *)

\* Mutant: queue.pop().
FirstIsLast(w) == w \in queue /\ \A v \in queue : arrival[w] >= arrival[v]

\* queue.shift() takes the waiter that arrived first.
First(w) == w \in queue /\ \A v \in queue : arrival[w] <= arrival[v]

BeginHandoff(r, w) ==
  /\ pc[r] = "held"
  /\ First(w)
  /\ queue' = queue \ {w}
  /\ heir' = [heir EXCEPT ![r] = w]
  /\ pc' = [pc EXCEPT ![r] = "handing", ![w] = "heir"]
  /\ UNCHANGED <<ready, present, arrival, clock, disk, faults, history>>

\* The metadata names the heir before the heir's promise is resolved.  A directory that
\* another process has taken meanwhile is overwritten.
HandoffDone(r) ==
  /\ pc[r] = "handing"
  /\ disk # Free
  /\ disk' = heir[r]
  /\ pc' = [pc EXCEPT ![r] = "released", ![heir[r]] = "held"]
  /\ heir' = [heir EXCEPT ![r] = None]
  /\ UNCHANGED <<ready, present, queue, arrival, clock, faults, history>>

\* writeFile truncates owner.json before it writes: a failure may leave it empty.  Without
\* the directory it fails at once.
WriteFails(r) ==
  \/ /\ disk = Free
     /\ UNCHANGED <<disk, faults, robbed>>
  \/ /\ disk # Free
     /\ MayFail
     /\ disk' \in {disk, Unnamed}
     /\ robbed' = IF disk' = disk THEN robbed ELSE robbed \union {r}

\* Mutant: the heir is resolved although the handoff failed.
HandoffFailsResolved(r) ==
  /\ pc[r] = "handing"
  /\ WriteFails(r)
  /\ pc' = [pc EXCEPT ![r] = "held", ![heir[r]] = "held"]
  /\ heir' = [heir EXCEPT ![r] = None]
  /\ UNCHANGED <<ready, present, queue, arrival, clock, late>>

\* The heir gets the error; `released` stays false, so release() may be retried.
HandoffFails(r) ==
  /\ pc[r] = "handing"
  /\ WriteFails(r)
  /\ pc' = [pc EXCEPT ![r] = "held", ![heir[r]] = "rejected"]
  /\ heir' = [heir EXCEPT ![r] = None]
  /\ UNCHANGED <<ready, present, queue, arrival, clock, late>>

BeginClose(r) ==
  /\ pc[r] = "held"
  /\ queue = {}
  /\ pc' = [pc EXCEPT ![r] = "closing"]
  /\ UNCHANGED <<ready, present, queue, arrival, clock, heir, disk, faults, history>>

\* queues.delete() drops the array and whoever was pushed onto it meanwhile.
Unlock(r) ==
  /\ present' = FALSE
  /\ queue' = {}
  /\ pc' = [pc EXCEPT ![r] = "released"]
  /\ UNCHANGED <<ready, arrival, clock, heir, history>>

CloseDone(r) ==
  /\ pc[r] = "closing"
  /\ disk' = IF disk = r THEN Free ELSE disk
  /\ Unlock(r)
  /\ UNCHANGED faults

\* owner.json could not be read: persistent.release() returns without the rm.
CloseUnread(r) ==
  /\ pc[r] = "closing"
  /\ MayFail
  /\ Unlock(r)
  /\ UNCHANGED disk

\* The array stays, and with it whoever was pushed onto it meanwhile.
CloseFails(r) ==
  /\ pc[r] = "closing"
  /\ MayFail
  /\ pc' = [pc EXCEPT ![r] = "held"]
  /\ late' = late \ queue
  /\ UNCHANGED <<ready, present, queue, arrival, clock, heir, disk, robbed>>

-------------------------------------------------------------------------------
(* Other processes using the same lock root.                               *)

OtherProcess ==
  /\ \/ disk = Free /\ disk' = Foreign /\ UNCHANGED faults
     \/ disk = Foreign /\ disk' = Free /\ UNCHANGED faults
     \/ disk = Foreign /\ disk' = Stale /\ MayFail
     \/ Removable /\ disk' = Free /\ UNCHANGED faults
  /\ UNCHANGED <<ready, present, queue, arrival, clock, pc, heir, history>>

\* Another process removes a directory whose owner lives: it read owner.json while a handoff
\* wrote it, or decided on the removal before the directory changed hands.
TakeAway ==
  /\ disk \in Requests
  /\ MayFail
  /\ robbed' = robbed \union {disk}
  /\ disk' = Free
  /\ UNCHANGED <<ready, present, queue, arrival, clock, pc, heir, late>>

Step(r) ==
  \/ AcquireUnready(r) \/ AcquireFirst(r) \/ AcquireBusy(r) \/ AcquireWait(r)
  \/ MkdirDone(r) \/ MkdirExists(r) \/ OpenFails(r)
  \/ RemoveStale(r) \/ RemovalFails(r) \/ Poll(r) \/ GiveUp(r)
  \/ Timeout(r)
  \/ \E w \in Requests : BeginHandoff(r, w)
  \/ HandoffDone(r) \/ HandoffFails(r)
  \/ BeginClose(r) \/ CloseDone(r) \/ CloseUnread(r) \/ CloseFails(r)

Next ==
  \/ Ready
  \/ \E r \in Requests : Step(r)
  \/ \E o \in Owners : CancelOwner(o)
  \/ OtherProcess
  \/ TakeAway

Spec == Init /\ [][Next]_vars

(***************************************************************************)
(* Fairness: file operations complete, timers fire, and a request whose    *)
(* timeout has elapsed gives up the next time it finds the directory.      *)
(* Nobody has to call acquire() or release(), and no failure has to happen.*)
(***************************************************************************)
Fairness ==
  \A r \in Requests :
    /\ WF_vars(MkdirDone(r) \/ MkdirExists(r))
    /\ WF_vars(RemoveStale(r) \/ RemovalFails(r) \/ Poll(r) \/ GiveUp(r))
    /\ SF_vars(GiveUp(r))
    /\ WF_vars(Timeout(r))
    /\ WF_vars(HandoffDone(r) \/ HandoffFails(r))
    /\ WF_vars(CloseDone(r))

FairSpec == Spec /\ Fairness

-------------------------------------------------------------------------------
(* Properties.                                                             *)

Holders == {r \in Requests : pc[r] \in Holding}

\* One request uses the device at a time, a failing release included.
AtMostOneHolder == \A r, s \in Holders : r = s

\* A request that may use the device owns the lock directory, unless another process took
\* the directory from it or its own handoff lost the name half-way: no failing open, release
\* or handoff of this process, no retry of them and no later handoff takes it from a holder.
HolderOwnsDirectory == \A r \in Holders : disk = r \/ r \in robbed

\* isLocked() means exactly "somebody is opening or using the target": neither a
\* failed open nor a failed release leaves the target busy without a holder.
LockedMeansUsed ==
  present <=> \E r \in Requests : pc[r] \in {"opening", "refused"} \union Holding

\* The release closure's heir is a request that nobody else can answer: it left
\* the array and its timer is cleared, until the closure resolves or rejects it.
HeirsAreReserved ==
  /\ \A r \in Requests : pc[r] = "handing" =>
       heir[r] # None /\ pc[heir[r]] = "heir"
  /\ \A w \in Requests : pc[w] = "heir" =>
       /\ w \notin queue
       /\ \E r \in Requests : pc[r] = "handing" /\ heir[r] = w

\* Requests wait FIFO (README.md:233-234) as far as the code goes: nobody gets the target, by
\* opening or by a handoff, past a caller who came earlier and still waits, unless that caller
\* called acquire() while a final release was under way, which went on to drop its array.  A
\* release that failed excuses nothing: its array stays.
FirstComeFirstServed ==
  [][\A r \in Requests : pc[r] \notin Holding /\ pc'[r] \in Holding =>
       \A v \in Requests : pc'[v] = "waiting" /\ arrival[v] < arrival[r] => v \in late]_vars

\* A request that is waiting waits for a target somebody uses
\* (README.md:233-234: "requests wait FIFO").
WaitersAreServed == \A r \in Requests : pc[r] = "waiting" => r \in queue

\* Every call of acquire() is answered.
EveryRequestIsAnswered ==
  \A r \in Requests : pc[r] \in Pending ~> pc[r] \notin Pending

\* The abstract lock seen in this state: its owner is the holder, and it is
\* asked by the calls that are still suspended in acquire().
Owner    == IF Holders = {} THEN None ELSE CHOOSE r \in Holders : TRUE
Asking   == {r \in Requests : pc[r] \in Pending}
Answered == {r \in Requests : pc[r] \notin Pending \union {"idle"}}

Lock == INSTANCE ExclusiveLock WITH
  owner <- Owner, asking <- Asking, answered <- Answered

\* The manager implements the lock its callers rely on.
ImplementsLock == Lock!Spec
===============================================================================
