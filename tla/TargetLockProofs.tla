--------------------------- MODULE TargetLockProofs ---------------------------
(***************************************************************************)
(* TargetLock for every set of requests, clients and fault bound: types,   *)
(* mutual exclusion, ownership of the lock directory, the order of service *)
(* and who is left waiting for nothing, and the refinement of              *)
(* ExclusiveLock.                                                          *)
(***************************************************************************)
EXTENDS TargetLock, TLAPS

\* A request that has the queue entry of the target to itself: it is opening
\* the directory or using the device.
User(r) == pc[r] \in {"opening", "refused"} \union Holding

OneUser == \A r, s \in Requests : User(r) /\ User(s) => r = s

\* The array holds only callers whose promise is still pending.
QueueHoldsWaiters == \A w \in queue : pc[w] = "waiting"

\* Without an entry in `queues` there is no array either.
NoEntryNoArray == ~present => queue = {}

\* Whoever opens, uses or is about to be handed the target came before everyone in the array.
AheadOfQueue ==
  /\ \A r \in Requests : arrival[r] <= clock
  /\ \A r \in Requests : User(r) \/ pc[r] = "heir" =>
       \A v \in queue : arrival[r] <= arrival[v]

\* What a final release may drop is what was pushed since it began.
OnlyLateStranded ==
  /\ \A v \in Requests : pc[v] = "waiting" /\ v \notin queue => v \in late
  /\ \A r \in Requests : pc[r] = "closing" => queue \subseteq late

\* The parts carry each other: a handoff leaves one user because the heir was
\* reserved, and the heir is found reserved because there is one user.
IndInv ==
  /\ TypeOK
  /\ OneUser
  /\ HolderOwnsDirectory
  /\ LockedMeansUsed
  /\ QueueHoldsWaiters
  /\ NoEntryNoArray
  /\ HeirsAreReserved
  /\ AheadOfQueue
  /\ OnlyLateStranded

LEMMA InitIndInv == Init => IndInv
<1> SUFFICES ASSUME Init
             PROVE  IndInv
  OBVIOUS
<1>1. TypeOK
  BY LockAssumption DEF LockAssumption, Init, TypeOK, Status
<1>2. \A r \in Requests : pc[r] = "idle"
  BY DEF Init
<1>3. OneUser /\ HolderOwnsDirectory /\ LockedMeansUsed
  BY <1>2 DEF Init, OneUser, User, HolderOwnsDirectory, LockedMeansUsed, Holders, Holding
<1>4. QueueHoldsWaiters /\ HeirsAreReserved /\ AheadOfQueue /\ OnlyLateStranded
  BY <1>2 DEF Init, QueueHoldsWaiters, HeirsAreReserved, AheadOfQueue, OnlyLateStranded
<1>5. NoEntryNoArray
  BY DEF Init, NoEntryNoArray
<1> QED BY <1>1, <1>3, <1>4, <1>5 DEF IndInv

LEMMA StepIndInv == IndInv /\ [Next]_vars => IndInv'
<1> SUFFICES ASSUME IndInv, [Next]_vars
             PROVE  IndInv'
  OBVIOUS
<1> USE LockAssumption DEF LockAssumption, IndInv, TypeOK, OneUser, User,
    HolderOwnsDirectory, LockedMeansUsed, QueueHoldsWaiters, HeirsAreReserved,
    NoEntryNoArray, AheadOfQueue, OnlyLateStranded, Holders, Holding, Status
<1>1. CASE Ready
  <2>1. /\ ready' \in {"pending", "done", "failed"} /\ faults' \in Nat
        /\ UNCHANGED <<present, queue, arrival, clock, pc, heir, late, robbed>>
    BY <1>1 DEF Ready, MayFail, history
  <2>2. disk' \in {disk, Free} /\ (disk' = disk \/ Removable)
    BY <1>1 DEF Ready, Removable
  <2>3. disk' = disk \/ disk \notin Requests
    BY <2>2 DEF Removable
  <2>t. TypeOK'
    BY <2>1, <2>2
  <2>4. OneUser' /\ HolderOwnsDirectory' /\ LockedMeansUsed'
    BY <2>1, <2>3
  <2>5. QueueHoldsWaiters' /\ HeirsAreReserved' /\ NoEntryNoArray'
    BY <2>1
  <2>6. AheadOfQueue' /\ OnlyLateStranded'
    BY <2>1
  <2> HIDE DEF TypeOK, OneUser, HolderOwnsDirectory, LockedMeansUsed,
           QueueHoldsWaiters, HeirsAreReserved, NoEntryNoArray, AheadOfQueue, OnlyLateStranded
  <2> QED BY <2>t, <2>4, <2>5, <2>6 DEF IndInv
<1>2. ASSUME NEW r \in Requests, Step(r)
      PROVE  IndInv'
  <2> USE DEF history
  <2>0. CASE AcquireUnready(r)
    BY <2>0 DEF AcquireUnready
  <2>1. CASE AcquireFirst(r)
    <3>1. /\ pc[r] = "idle" /\ pc' = [pc EXCEPT ![r] = "opening"]
          /\ ~present /\ present' = TRUE /\ queue' = {}
          /\ clock' = clock + 1 /\ arrival' = [arrival EXCEPT ![r] = clock + 1]
          /\ UNCHANGED <<ready, heir, disk, faults, late, robbed>>
      BY <2>1 DEF AcquireFirst, Arrive
    <3>2. \A x \in Requests : ~User(x)
      BY <3>1
    <3>t. TypeOK'
      BY <3>1
    <3>4. OneUser' /\ HolderOwnsDirectory' /\ LockedMeansUsed'
      BY <3>1, <3>2
    <3>q. queue = {}
      BY <3>1
    <3>5. QueueHoldsWaiters' /\ HeirsAreReserved' /\ NoEntryNoArray'
      BY <3>1, <3>2
    <3>6. AheadOfQueue' /\ OnlyLateStranded'
      BY <3>1, <3>2, <3>q
    <3> HIDE DEF TypeOK, OneUser, HolderOwnsDirectory, LockedMeansUsed,
             QueueHoldsWaiters, HeirsAreReserved, NoEntryNoArray, AheadOfQueue, OnlyLateStranded
    <3> QED BY <3>t, <3>4, <3>5, <3>6 DEF IndInv
  <2>2. CASE AcquireBusy(r)
    BY <2>2 DEF AcquireBusy
  <2>3. CASE AcquireWait(r)
    BY <2>3 DEF AcquireWait, Arrive
  <2>4. CASE MkdirDone(r)
    BY <2>4 DEF MkdirDone
  <2>5. CASE MkdirExists(r)
    BY <2>5 DEF MkdirExists
  <2>6. CASE RemoveStale(r)
    BY <2>6 DEF RemoveStale, Removable
  <2>7. CASE Poll(r)
    BY <2>7 DEF Poll
  <2>8. ASSUME GiveUp(r) \/ OpenFails(r) \/ RemovalFails(r)
        PROVE  IndInv'
    <3>1. User(r) /\ RejectAll(r) /\ faults' \in Nat
      BY <2>8 DEF GiveUp, OpenFails, RemovalFails, MayFail
    <3>2. /\ present' = FALSE /\ queue' = {}
          /\ pc' = [x \in Requests |->
                      IF x = r \/ x \in queue THEN "rejected" ELSE pc[x]]
          /\ UNCHANGED <<ready, arrival, clock, heir, disk, late, robbed>>
      BY <3>1 DEF RejectAll
    <3>a. \A x \in Requests : User(x) \/ pc[x] = "heir" => x = r
      <4>1. pc[r] \in {"opening", "refused"}
        BY <2>8 DEF GiveUp, OpenFails, RemovalFails
      <4> QED BY <3>1, <4>1
    <3>b. \A x \in Requests : pc'[x] \in {"rejected", pc[x]} /\ pc'[r] = "rejected"
      BY <3>2
    <3>3. \A x \in Requests : ~User(x)' /\ pc'[x] # "heir"
      BY <3>a, <3>b
    <3>c. pc' \in [Requests -> Status]
      BY <3>2
    <3>t. TypeOK'
      BY <3>1, <3>2, <3>c
    <3>4. OneUser' /\ HolderOwnsDirectory' /\ LockedMeansUsed'
      BY <3>2, <3>3
    <3>5. QueueHoldsWaiters' /\ HeirsAreReserved' /\ NoEntryNoArray'
      BY <3>2, <3>3
    <3>6. AheadOfQueue' /\ OnlyLateStranded'
      BY <3>2, <3>3
    <3> HIDE DEF TypeOK, OneUser, HolderOwnsDirectory, LockedMeansUsed,
             QueueHoldsWaiters, HeirsAreReserved, NoEntryNoArray, AheadOfQueue, OnlyLateStranded
    <3> QED BY <3>t, <3>4, <3>5, <3>6 DEF IndInv
  <2>10. CASE Timeout(r)
    BY <2>10 DEF Timeout
  <2>11. ASSUME NEW w \in Requests, BeginHandoff(r, w)
         PROVE  IndInv'
    BY <2>11 DEF BeginHandoff, First
  <2>12. CASE HandoffDone(r)
    BY <2>12 DEF HandoffDone
  <2>13. CASE HandoffFails(r)
    BY <2>13 DEF HandoffFails, WriteFails, MayFail
  <2>14. CASE BeginClose(r)
    BY <2>14 DEF BeginClose
  <2>15. ASSUME CloseDone(r) \/ CloseUnread(r)
         PROVE  IndInv'
    <3>1. /\ pc[r] = "closing" /\ Unlock(r) /\ faults' \in Nat
          /\ disk' \in Requests \union {Free, Foreign, Stale, Unnamed}
      BY <2>15 DEF CloseDone, CloseUnread, MayFail
    <3>2. /\ present' = FALSE /\ queue' = {}
          /\ pc' = [pc EXCEPT ![r] = "released"]
          /\ UNCHANGED <<ready, arrival, clock, heir, late, robbed>>
      BY <3>1 DEF Unlock
    <3>a. \A x \in Requests : User(x) \/ pc[x] = "heir" => x = r
      BY <3>1
    <3>b. \A x \in Requests : pc'[x] \in {"released", pc[x]} /\ pc'[r] = "released"
      BY <3>2
    <3>3. \A x \in Requests : ~User(x)' /\ pc'[x] # "heir"
      BY <3>a, <3>b
    <3>t. TypeOK'
      BY <3>1, <3>2
    <3>4. OneUser' /\ HolderOwnsDirectory' /\ LockedMeansUsed'
      BY <3>2, <3>3
    <3>5. QueueHoldsWaiters' /\ HeirsAreReserved' /\ NoEntryNoArray'
      BY <3>1, <3>2, <3>3
    <3>6. AheadOfQueue' /\ OnlyLateStranded'
      BY <3>1, <3>2, <3>3
    <3> HIDE DEF TypeOK, OneUser, HolderOwnsDirectory, LockedMeansUsed,
             QueueHoldsWaiters, HeirsAreReserved, NoEntryNoArray, AheadOfQueue, OnlyLateStranded
    <3> QED BY <3>t, <3>4, <3>5, <3>6 DEF IndInv
  <2>17. CASE CloseFails(r)
    BY <2>17 DEF CloseFails, MayFail
  <2> QED BY <1>2, <2>0, <2>1, <2>2, <2>3, <2>4, <2>5, <2>6, <2>7, <2>8,
             <2>10, <2>11, <2>12, <2>13, <2>14, <2>15, <2>17 DEF Step
<1>3. ASSUME NEW o \in Owners, CancelOwner(o)
      PROVE  IndInv'
  BY <1>3 DEF CancelOwner, history
<1>4. CASE OtherProcess
  BY <1>4 DEF OtherProcess, MayFail, Removable, history
<1>5. CASE TakeAway
  BY <1>5 DEF TakeAway, MayFail
<1>6. CASE UNCHANGED vars
  BY <1>6 DEF vars
<1> QED BY <1>1, <1>2, <1>3, <1>4, <1>5, <1>6 DEF Next

LEMMA Inductive == Spec => []IndInv
BY InitIndInv, StepIndInv, PTL DEF Spec

\* The manager's state keeps its types.
THEOREM TypeCorrect == Spec => []TypeOK
<1>1. IndInv => TypeOK
  BY DEF IndInv
<1> QED BY <1>1, Inductive, PTL

\* However the calls of acquire(), the timers, the disconnects and the failing
\* releases interleave, one request at a time may use the device.
THEOREM MutualExclusion == Spec => []AtMostOneHolder
<1>1. IndInv => AtMostOneHolder
  BY DEF IndInv, OneUser, User, AtMostOneHolder, Holders
<1> QED BY <1>1, Inductive, PTL

\* Whoever may use the device is named as the owner of the lock directory, for as long as no
\* other process takes the directory from it and no handoff of its own fails half-way: nothing
\* else that this process does or that fails in it loses the directory of a holder.
THEOREM DirectoryOwned == Spec => []HolderOwnsDirectory
<1>1. IndInv => HolderOwnsDirectory
  BY DEF IndInv
<1> QED BY <1>1, Inductive, PTL

\* isLocked() answers yes exactly while a request opens or uses the target.
THEOREM LockedExactlyWhenUsed == Spec => []LockedMeansUsed
<1>1. IndInv => LockedMeansUsed
  BY DEF IndInv
<1> QED BY <1>1, Inductive, PTL

\* A waiter taken off the array stays reserved for the closure that took it.
THEOREM HeirsReserved == Spec => []HeirsAreReserved
<1>1. IndInv => HeirsAreReserved
  BY DEF IndInv
<1> QED BY <1>1, Inductive, PTL

\* Whoever gets the target, by opening or by a handoff, leaves nobody behind who came earlier
\* and still waits, save callers that came during a final release which dropped its array.
THEOREM ServedInOrder == Spec => FirstComeFirstServed
<1> DEFINE InOrder ==
      \A r \in Requests : pc[r] \notin Holding /\ pc'[r] \in Holding =>
        \A v \in Requests : pc'[v] = "waiting" /\ arrival[v] < arrival[r] => v \in late
<1>1. IndInv /\ Next => InOrder
  <2> SUFFICES ASSUME IndInv, Next,
                      NEW r \in Requests, pc[r] \notin Holding, pc'[r] \in Holding,
                      NEW v \in Requests, pc'[v] = "waiting", arrival[v] < arrival[r]
               PROVE  v \in late
    OBVIOUS
  <2> USE LockAssumption DEF LockAssumption
  <2>t. /\ pc \in [Requests -> Status] /\ queue \subseteq Requests
        /\ heir \in [Requests -> Requests \union {None}]
    BY DEF IndInv, TypeOK
  <2>1. PICK s \in Requests : MkdirDone(s) \/ HandoffDone(s)
    BY <2>t DEF Next, Step, Ready, Holding, AcquireUnready, AcquireFirst, AcquireBusy,
       AcquireWait, MkdirExists, RemoveStale, RemovalFails, Poll, GiveUp, OpenFails,
       RejectAll, Timeout, CancelOwner, BeginHandoff, HandoffFails, BeginClose, CloseDone,
       CloseUnread, CloseFails, Unlock, OtherProcess, TakeAway
  <2>2. pc[v] = "waiting"
    BY <2>1, <2>t DEF MkdirDone, HandoffDone
  <2>3. pc[r] = "opening" \/ pc[r] = "heir"
    BY <2>1, <2>t DEF MkdirDone, HandoffDone, Holding, IndInv, HeirsAreReserved
  <2>4. \A w \in queue : arrival[r] <= arrival[w]
    BY <2>3 DEF IndInv, AheadOfQueue, User
  <2>5. v \notin queue
    BY <2>4 DEF IndInv, TypeOK
  <2> QED BY <2>2, <2>5 DEF IndInv, OnlyLateStranded
<1>2. IndInv /\ [Next]_vars => [InOrder]_vars
  BY <1>1
<1> QED BY <1>2, Inductive, PTL DEF Spec, FirstComeFirstServed

\* The waiters that no array holds: nobody will hand them the target.
Stranded == {r \in Requests : pc[r] = "waiting" /\ r \notin queue}

\* A waiter is stranded by a release that deletes the array it was pushed onto meanwhile, and
\* by nothing else; and it is not found again, its timer rejects it.
StrandedByClose ==
  [][/\ ~(Stranded' \subseteq Stranded) =>
          \E h \in Requests : /\ pc[h] = "closing" /\ pc'[h] = "released"
                              /\ Stranded' = Stranded \union queue
     /\ \A r \in Stranded \ Stranded' : pc'[r] = "rejected"]_vars

\* The unserved waiters of WaitersAreServed, delimited: all of them called acquire() between
\* the start of the final release and its end, and only their own timers answer them.  A failed
\* open, a failed release or handoff, a disconnect or a timeout strands nobody.
THEOREM OnlyClosingStrands == Spec => StrandedByClose
<1> DEFINE Grows == ~(Stranded' \subseteq Stranded)
           ByClose == \E h \in Requests : /\ pc[h] = "closing" /\ pc'[h] = "released"
                                          /\ Stranded' = Stranded \union queue
           Rejected == \A r \in Stranded \ Stranded' : pc'[r] = "rejected"
<1>1. ASSUME IndInv, Next
      PROVE  (Grows => ByClose) /\ Rejected
  <2> USE LockAssumption DEF LockAssumption, Stranded
  <2>t. /\ pc \in [Requests -> Status] /\ queue \subseteq Requests
        /\ \A w \in queue : pc[w] = "waiting"
    BY <1>1 DEF IndInv, TypeOK, QueueHoldsWaiters
  <2>1. ASSUME NEW r \in Requests,
               AcquireUnready(r) \/ AcquireFirst(r) \/ AcquireBusy(r) \/ AcquireWait(r)
        PROVE  Stranded' = Stranded
    BY <2>1, <2>t, <1>1 DEF IndInv, NoEntryNoArray, AcquireUnready, AcquireFirst, AcquireBusy,
       AcquireWait
  <2>2. ASSUME NEW r \in Requests,
               \/ MkdirDone(r) \/ MkdirExists(r) \/ RemoveStale(r) \/ Poll(r)
               \/ BeginClose(r) \/ CloseFails(r)
        PROVE  Stranded' = Stranded
    BY <2>2, <2>t DEF MkdirDone, MkdirExists, RemoveStale, Poll, BeginClose, CloseFails
  <2>3. ASSUME NEW r \in Requests, GiveUp(r) \/ OpenFails(r) \/ RemovalFails(r)
        PROVE  Stranded' = Stranded
    BY <2>3, <2>t DEF GiveUp, OpenFails, RemovalFails, RejectAll
  <2>4. ASSUME NEW r \in Requests, Timeout(r)
        PROVE  ~Grows /\ Rejected
    BY <2>4, <2>t DEF Timeout
  <2>5. ASSUME NEW r \in Requests, NEW w \in Requests, BeginHandoff(r, w)
        PROVE  Stranded' = Stranded
    BY <2>5, <2>t DEF BeginHandoff, First
  <2>6. ASSUME NEW r \in Requests, HandoffDone(r) \/ HandoffFails(r)
        PROVE  Stranded' = Stranded
    <3>1. pc[r] = "handing" /\ heir[r] \in Requests /\ pc[heir[r]] = "heir"
      BY <2>6, <1>1 DEF HandoffDone, HandoffFails, IndInv, TypeOK, HeirsAreReserved
    <3>2. \A x \in Requests : pc'[x] = "waiting" <=> pc[x] = "waiting"
      BY <2>6, <2>t, <3>1 DEF HandoffDone, HandoffFails
    <3> QED BY <2>6, <3>2 DEF HandoffDone, HandoffFails
  <2>7. ASSUME NEW r \in Requests, CloseDone(r) \/ CloseUnread(r)
        PROVE  ByClose /\ Rejected
    <3>1. /\ pc[r] = "closing" /\ pc' = [pc EXCEPT ![r] = "released"] /\ queue' = {}
      BY <2>7 DEF CloseDone, CloseUnread, Unlock
    <3>2. Stranded' = Stranded \union queue
      BY <3>1, <2>t
    <3> QED BY <3>1, <3>2, <2>t
  <2>8. ASSUME NEW o \in Owners, CancelOwner(o)
        PROVE  Stranded' = Stranded
    BY <2>8, <2>t DEF CancelOwner
  <2>9. CASE Ready \/ OtherProcess \/ TakeAway
    BY <2>9 DEF Ready, OtherProcess, TakeAway
  <2> HIDE DEF Stranded
  <2> QED BY <1>1, <2>1, <2>2, <2>3, <2>4, <2>5, <2>6, <2>7, <2>8, <2>9 DEF Next, Step
<1>2. IndInv /\ [Next]_vars =>
        [/\ ~(Stranded' \subseteq Stranded) =>
              \E h \in Requests : /\ pc[h] = "closing" /\ pc'[h] = "released"
                                  /\ Stranded' = Stranded \union queue
         /\ \A r \in Stranded \ Stranded' : pc'[r] = "rejected"]_vars
  BY <1>1
<1> QED BY <1>2, Inductive, PTL DEF Spec, StrandedByClose

\* The owner of the abstract lock is the one request that holds the target.
OwnerIsHolder ==
  /\ \A r \in Requests : Owner = r <=> pc[r] \in Holding
  /\ Owner = None <=> \A r \in Requests : pc[r] \notin Holding

LEMMA OwnerHolds == OneUser => OwnerIsHolder
<1> SUFFICES ASSUME OneUser
             PROVE  OwnerIsHolder
  OBVIOUS
<1>1. CASE Holders = {}
  BY <1>1, LockAssumption DEF LockAssumption, Owner, Holders, OwnerIsHolder
<1>2. CASE Holders # {}
  <2>1. Owner \in Holders
    BY <1>2 DEF Owner
  <2>2. \A r, s \in Holders : r = s
    BY DEF OneUser, User, Holders
  <2> QED BY <2>1, <2>2, LockAssumption DEF LockAssumption, Holders, OwnerIsHolder
<1> QED BY <1>1, <1>2

\* Every step of the manager is a step of the abstract lock, or none.
LEMMA StepRefines == IndInv /\ IndInv' /\ [Next]_vars => [Lock!Next]_(Lock!vars)
<1> SUFFICES ASSUME IndInv, IndInv', [Next]_vars
             PROVE  Lock!Next \/ UNCHANGED Lock!vars
  OBVIOUS
<1>o. /\ \A r \in Requests : Owner = r <=> pc[r] \in Holding
      /\ Owner = None <=> \A r \in Requests : pc[r] \notin Holding
  BY OwnerHolds DEF IndInv, OwnerIsHolder
<1>n. /\ \A r \in Requests : Owner' = r <=> pc'[r] \in Holding
      /\ Owner' = None <=> \A r \in Requests : pc'[r] \notin Holding
  <2>1. OneUser' => OwnerIsHolder'
    BY OwnerHolds, PTL
  <2> QED BY <2>1 DEF IndInv, OwnerIsHolder
<1>r. Owner \in Requests \union {None} /\ Owner' \in Requests \union {None}
  BY <1>o, <1>n
<1>t. pc \in [Requests -> Status] /\ queue \subseteq Requests
  BY DEF IndInv, TypeOK
<1>s. ASSUME pc' = pc
      PROVE  UNCHANGED Lock!vars
  <2>1. Owner' = Owner
    BY <1>s DEF Owner, Holders
  <2> QED BY <1>s, <2>1 DEF Lock!vars, Asking, Answered
<1>p. ASSUME \A x \in Requests : /\ pc'[x] \in Holding <=> pc[x] \in Holding
                                 /\ pc'[x] \in Pending <=> pc[x] \in Pending
                                 /\ pc'[x] = "idle" <=> pc[x] = "idle"
      PROVE  UNCHANGED Lock!vars
  <2>1. Owner' = Owner
    BY <1>p, <1>o, <1>n, <1>r
  <2> QED BY <1>p, <2>1 DEF Lock!vars, Asking, Answered
<1>a. ASSUME NEW r \in Requests, pc[r] = "idle", pc'[r] \in Pending,
             \A x \in Requests \ {r} : pc'[x] = pc[x]
      PROVE  Lock!Next
  <2>1. Owner' = Owner
    BY <1>a, <1>o, <1>n, <1>r DEF Pending, Holding
  <2>2. Lock!Ask(r)
    BY <1>a, <2>1 DEF Lock!Ask, Asking, Answered, Pending
  <2> QED BY <2>2 DEF Lock!Next
<1>f. ASSUME NEW R \in SUBSET Requests, R # {},
             \A x \in R : pc[x] \in Pending \union {"idle"} /\ pc'[x] = "rejected",
             \A x \in Requests \ R : /\ pc'[x] \in Holding <=> pc[x] \in Holding
                                     /\ pc'[x] \in Pending <=> pc[x] \in Pending
                                     /\ pc'[x] = "idle" <=> pc[x] = "idle"
      PROVE  Lock!Next
  <2>1. \A x \in Requests : pc'[x] \in Holding <=> pc[x] \in Holding
    BY <1>f DEF Pending, Holding
  <2>2. Owner' = Owner
    BY <2>1, <1>o, <1>n, <1>r
  <2>3. R \subseteq Requests \ Answered
    BY <1>f DEF Answered
  <2>4. Asking' = Asking \ R
    BY <1>f DEF Asking, Pending
  <2>5. Answered' = Answered \union R
    BY <1>f DEF Answered, Pending
  <2>6. Lock!Refuse(R)
    BY <1>f, <2>2, <2>3, <2>4, <2>5 DEF Lock!Refuse
  <2> QED BY <2>6 DEF Lock!Next
<1>1. ASSUME NEW r \in Requests, Step(r)
      PROVE  Lock!Next \/ UNCHANGED Lock!vars
  <2>1. CASE AcquireFirst(r) \/ AcquireWait(r)
    BY <2>1, <1>a, <1>t DEF AcquireFirst, AcquireWait, Pending
  <2>2. CASE AcquireUnready(r) \/ AcquireBusy(r) \/ Timeout(r)
    <3> DEFINE R == {r}
    <3>1. \A x \in R : pc[x] \in Pending \union {"idle"} /\ pc'[x] = "rejected"
      BY <2>2, <1>t DEF AcquireUnready, AcquireBusy, Timeout, Pending
    <3>2. \A x \in Requests \ R : pc'[x] = pc[x]
      BY <2>2, <1>t DEF AcquireUnready, AcquireBusy, Timeout
    <3>3. R \in SUBSET Requests /\ R # {}
      OBVIOUS
    <3> HIDE DEF R
    <3> QED BY <3>1, <3>2, <3>3, <1>f
  <2>3. CASE MkdirDone(r)
    <3>1. /\ pc[r] = "opening" /\ pc'[r] = "held"
          /\ \A x \in Requests \ {r} : pc'[x] = pc[x]
      BY <2>3, <1>t DEF MkdirDone
    <3>2. \A x \in Requests : pc[x] \notin Holding
      BY <3>1 DEF IndInv, OneUser, User, Holding
    <3>3. Owner = None /\ Owner' = r
      BY <3>1, <3>2, <1>o, <1>n DEF Holding
    <3>4. Lock!Grant(r)
      BY <3>1, <3>3 DEF Lock!Grant, Asking, Answered, Pending
    <3> QED BY <3>4 DEF Lock!Next
  <2>4. CASE MkdirExists(r) \/ RemoveStale(r) \/ Poll(r) \/ BeginClose(r) \/ CloseFails(r)
    BY <2>4, <1>p, <1>t DEF MkdirExists, RemoveStale, Poll, BeginClose, CloseFails,
       Holding, Pending
  <2>5. CASE GiveUp(r) \/ OpenFails(r) \/ RemovalFails(r)
    <3> DEFINE R == queue \union {r}
    <3>1. \A x \in R : pc[x] \in Pending
      BY <2>5 DEF GiveUp, OpenFails, RemovalFails, IndInv, QueueHoldsWaiters, Pending
    <3>2. /\ \A x \in R : pc'[x] = "rejected"
          /\ \A x \in Requests \ R : pc'[x] = pc[x]
      BY <2>5, <1>t DEF GiveUp, OpenFails, RemovalFails, RejectAll
    <3>3. R \in SUBSET Requests /\ R # {}
      BY <1>t
    <3> HIDE DEF R
    <3> QED BY <3>1, <3>2, <3>3, <1>f
  <2>6. ASSUME NEW w \in Requests, BeginHandoff(r, w)
        PROVE  UNCHANGED Lock!vars
    <3>1. pc[w] = "waiting"
      BY <2>6 DEF BeginHandoff, First, IndInv, QueueHoldsWaiters
    <3> QED BY <2>6, <3>1, <1>p, <1>t DEF BeginHandoff, Holding, Pending
  <2>7. CASE HandoffDone(r)
    <3> DEFINE w == heir[r]
    <3>1. w \in Requests /\ pc[w] = "heir" /\ pc[r] = "handing"
      BY <2>7 DEF HandoffDone, IndInv, TypeOK, HeirsAreReserved
    <3>2. /\ pc'[w] = "held" /\ pc'[r] = "released"
          /\ \A x \in Requests \ {r, w} : pc'[x] = pc[x]
      BY <2>7, <3>1, <1>t DEF HandoffDone
    <3> HIDE DEF w
    <3>3. Owner = r /\ Owner' = w
      BY <3>1, <3>2, <1>o, <1>n DEF Holding
    <3>4. Lock!Pass(w)
      BY <3>1, <3>2, <3>3, LockAssumption DEF LockAssumption, Lock!Pass, Asking, Answered,
         Pending
    <3> QED BY <3>1, <3>4 DEF Lock!Next
  <2>8. CASE HandoffFails(r)
    <3> DEFINE w == heir[r]
    <3>1. w \in Requests /\ pc[w] = "heir" /\ pc[r] = "handing"
      BY <2>8 DEF HandoffFails, IndInv, TypeOK, HeirsAreReserved
    <3>2. /\ pc'[w] = "rejected" /\ pc'[r] = "held"
          /\ \A x \in Requests \ {r, w} : pc'[x] = pc[x]
      BY <2>8, <3>1, <1>t DEF HandoffFails
    <3> HIDE DEF w
    <3> DEFINE R == {w}
    <3>3. \A x \in R : pc[x] \in Pending \union {"idle"} /\ pc'[x] = "rejected"
      BY <3>1, <3>2 DEF Pending
    <3>4. \A x \in Requests \ R : /\ pc'[x] \in Holding <=> pc[x] \in Holding
                                  /\ pc'[x] \in Pending <=> pc[x] \in Pending
                                  /\ pc'[x] = "idle" <=> pc[x] = "idle"
      <4> SUFFICES ASSUME NEW x \in Requests \ R
                   PROVE  /\ pc'[x] \in Holding <=> pc[x] \in Holding
                          /\ pc'[x] \in Pending <=> pc[x] \in Pending
                          /\ pc'[x] = "idle" <=> pc[x] = "idle"
        OBVIOUS
      <4>1. CASE x = r
        BY <4>1, <3>1, <3>2 DEF Holding, Pending
      <4>2. CASE x # r
        BY <4>2, <3>2
      <4> QED BY <4>1, <4>2
    <3>5. R \in SUBSET Requests /\ R # {}
      BY <3>1
    <3> HIDE DEF R
    <3> QED BY <3>3, <3>4, <3>5, <1>f
  <2>9. CASE CloseDone(r) \/ CloseUnread(r)
    <3>1. /\ pc[r] = "closing" /\ pc'[r] = "released"
          /\ \A x \in Requests \ {r} : pc'[x] = pc[x]
      BY <2>9, <1>t DEF CloseDone, CloseUnread, Unlock
    <3>2. \A x \in Requests : pc'[x] \notin Holding
      BY <3>1 DEF IndInv, OneUser, User, Holding
    <3>3. Owner = r /\ Owner' = None
      BY <3>1, <3>2, <1>o, <1>n DEF Holding
    <3>4. Lock!Release
      BY <3>1, <3>3, LockAssumption DEF LockAssumption, Lock!Release, Asking, Answered,
         Pending
    <3> QED BY <3>4 DEF Lock!Next
  <2> QED BY <1>1, <2>1, <2>2, <2>3, <2>4, <2>5, <2>6, <2>7, <2>8, <2>9 DEF Step
<1>2. ASSUME NEW o \in Owners, CancelOwner(o)
      PROVE  Lock!Next
  <2> DEFINE R == {x \in queue : OwnerOf[x] = o}
  <2>1. \A x \in R : pc[x] \in Pending
    BY DEF IndInv, QueueHoldsWaiters, Pending
  <2>2. /\ \A x \in R : pc'[x] = "rejected"
        /\ \A x \in Requests \ R : pc'[x] = pc[x]
    BY <1>2, <1>t DEF CancelOwner
  <2>3. R \in SUBSET Requests /\ R # {}
    BY <1>2, <1>t DEF CancelOwner
  <2> HIDE DEF R
  <2> QED BY <2>1, <2>2, <2>3, <1>f
<1>3. CASE Ready \/ OtherProcess \/ TakeAway \/ UNCHANGED vars
  BY <1>3, <1>s DEF Ready, OtherProcess, TakeAway, vars
<1> QED BY <1>1, <1>2, <1>3 DEF Next

\* The manager with its queue, timers, failing file operations and other processes
\* is a lock: whatever its callers see, ExclusiveLock allows.
THEOREM Implements == Spec => ImplementsLock
<1>1. Init => Lock!Init
  BY LockAssumption DEF LockAssumption, Init, Lock!Init, Owner, Holders, Holding, Asking,
     Answered, Pending
<1>2. IndInv /\ IndInv' /\ [Next]_vars => [Lock!Next]_(Lock!vars)
  BY StepRefines
<1> QED BY <1>1, <1>2, Inductive, PTL DEF Spec, ImplementsLock, Lock!Spec
===============================================================================
