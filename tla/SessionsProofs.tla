---------------------------- MODULE SessionsProofs ----------------------------
(***************************************************************************)
(* Sessions for any number of sessions and clients: the serial target is   *)
(* used under its lock only, the lock is never leaked, is dealt with as    *)
(* ExclusiveLock says, and what clients are told is the case.  Then of the *)
(* components that stand around the sessions, each through an instance:    *)
(* the MCP server that opens and closes them (McpServer), the catalog      *)
(* whose ids name their locks (TargetCatalog), and what becomes of their   *)
(* recordings (RecordingTransfer).                                         *)
(***************************************************************************)
EXTENDS Sessions, SequenceTheorems, FiniteSetTheorems, TLAPS

\* The stages in which a session of the serial target holds its lock.
Keeping == {"starting", "live", "closing", "releasing", "quarantined"}

\* The part of the type invariant the argument needs.
StageTyped ==
  /\ stage \in [Sessions -> Stage]
  /\ device \in [Sessions -> BOOLEAN]
  /\ owner \in Serial \union {None}

\* The lock and the stages tell the same story: its owner is the one session
\* that keeps it, and those it is asked by are suspended in acquire().
LockMatchesStage ==
  /\ \A s \in Serial : stage[s] \in Keeping <=> owner = s
  /\ asking = {s \in Serial : stage[s] = "locking"}

\* The device is given up before release() is called.
DeviceMatchesStage ==
  \A s \in Sessions : device[s] => stage[s] \in Keeping \ {"releasing"}

IndInv == StageTyped /\ LockMatchesStage /\ DeviceMatchesStage

LEMMA InitIndInv == Init => IndInv
BY SessionsAssumption DEF SessionsAssumption, Init, Lock!Init, IndInv, StageTyped,
   Stage, LockMatchesStage, DeviceMatchesStage, Keeping

LEMMA StartingKeeps ==
  ASSUME IndInv, NEW s \in Sessions, Starting(s)
  PROVE  IndInv'
<1> USE SessionsAssumption DEF SessionsAssumption, IndInv, StageTyped, Stage,
    LockMatchesStage, DeviceMatchesStage, Keeping, lock
<1>1. CASE Post(s)
  BY <1>1 DEF Post
<1>2. CASE PrepareFails(s)
  BY <1>2 DEF PrepareFails
<1>3. CASE AcquireLock(s)
  BY <1>3 DEF AcquireLock, Lock!Ask
<1>4. CASE StartParallel(s)
  BY <1>4 DEF StartParallel, Begin
<1>5. CASE LockGranted(s)
  BY <1>5 DEF LockGranted, Begin, Lock!Grant
<1>6. CASE Abort(s)
  BY <1>6 DEF Abort
<1>7. CASE Started(s)
  BY <1>7 DEF Started
<1>8. CASE StartFails(s)
  BY <1>8 DEF StartFails
<1> QED BY <1>1, <1>2, <1>3, <1>4, <1>5, <1>6, <1>7, <1>8 DEF Starting

LEMMA EndingKeeps ==
  ASSUME IndInv, NEW s \in Sessions, Ending(s)
  PROVE  IndInv'
<1> USE SessionsAssumption DEF SessionsAssumption, IndInv, StageTyped, Stage,
    LockMatchesStage, DeviceMatchesStage, Keeping, lock
<1>1. ASSUME NEW late, BeginClose(s, late)
      PROVE  IndInv'
  BY <1>1 DEF BeginClose, Live
<1>2. CASE Closed(s)
  BY <1>2 DEF Closed
<1>3. CASE CloseFails(s)
  BY <1>3 DEF CloseFails, Quarantine
<1>4. ASSUME Released(s), Freed(s)
      PROVE  IndInv'
  BY <1>4 DEF Released, Freed, Lock!Release
<1>5. ASSUME NEW w \in Serial, Released(s), HandedTo(s, w)
      PROVE  IndInv'
  <2>1. owner = s /\ w # s /\ owner' = w
    BY <1>5 DEF Released, HandedTo, Lock!Pass
  <2> QED BY <1>5, <2>1 DEF Released, HandedTo, Lock!Pass
<1>6. CASE ReleaseFails(s)
  BY <1>6 DEF ReleaseFails
<1>7. CASE Retry(s)
  BY <1>7 DEF Retry
<1>8. CASE FinalizeFails(s)
  BY <1>8 DEF FinalizeFails
<1> QED
  BY <1>1, <1>2, <1>3, <1>4, <1>5, <1>6, <1>7, <1>8
     DEF Ending, Close, LeaseExpires, Released

LEMMA StepIndInv == IndInv /\ [Next]_vars => IndInv'
<1> SUFFICES ASSUME IndInv, [Next]_vars
             PROVE  IndInv'
  OBVIOUS
<1>1. ASSUME NEW R \in SUBSET asking, LockRefused(R)
      PROVE  IndInv'
  BY <1>1, SessionsAssumption
     DEF SessionsAssumption, LockRefused, Refuse, Lock!Refuse, IndInv, StageTyped,
         Stage, LockMatchesStage, DeviceMatchesStage, Keeping
<1>2. ASSUME NEW o \in Owners, CloseOwned(o)
      PROVE  IndInv'
  BY <1>2, SessionsAssumption
     DEF SessionsAssumption, CloseOwned, Live, IndInv, StageTyped, Stage,
         LockMatchesStage, DeviceMatchesStage, Keeping
<1>3. CASE CloseAll
  BY <1>3, SessionsAssumption
     DEF SessionsAssumption, CloseAll, Live, IndInv, StageTyped, Stage,
         LockMatchesStage, DeviceMatchesStage, Keeping, lock
<1>4. CASE UNCHANGED vars
  BY <1>4 DEF vars, IndInv, StageTyped, LockMatchesStage, DeviceMatchesStage
<1> QED BY <1>1, <1>2, <1>3, <1>4, StartingKeeps, EndingKeeps DEF Next

LEMMA Inductive == Spec => []IndInv
BY InitIndInv, StepIndInv, PTL DEF Spec

\* No controller touches the serial target outside the lock: not one that is
\* cleaned up after an abort, nor one in quarantine.
THEOREM DeviceOnlyUnderLock == Spec => []DeviceUnderLock
<1>1. IndInv => DeviceUnderLock
  BY SessionsAssumption DEF SessionsAssumption, IndInv, LockMatchesStage,
     DeviceMatchesStage, DeviceUnderLock, Keeping
<1> QED BY <1>1, Inductive, PTL

\* Whoever owns the lock is in a stage from which it is released.
THEOREM LockNotLeaked == Spec => []LockWillBeReleased
<1>1. IndInv => LockWillBeReleased
  BY DEF IndInv, StageTyped, LockMatchesStage, LockWillBeReleased, Keeping
<1> QED BY <1>1, Inductive, PTL

-------------------------------------------------------------------------------
(* The lock's own specification.                                           *)

\* A request that waits has not been answered, and is one for the serial target.
AskedOnce == asking \subseteq Serial \ answered

LEMMA AskedOnceStep == AskedOnce /\ [Next]_vars => AskedOnce'
<1> USE SessionsAssumption DEF SessionsAssumption, AskedOnce
<1>1. ASSUME NEW s \in Sessions, AskedOnce, Starting(s)
      PROVE  AskedOnce'
  BY <1>1 DEF Starting, Post, PrepareFails, AcquireLock, StartParallel, LockGranted, Abort,
     Started, StartFails, lock, Lock!Ask, Lock!Grant
<1>2. ASSUME NEW s \in Sessions, AskedOnce, Ending(s)
      PROVE  AskedOnce'
  BY <1>2 DEF Ending, Close, LeaseExpires, BeginClose, Closed, CloseFails, Quarantine,
     FinalizeFails, Released, Freed, HandedTo, ReleaseFails, Retry, lock, Lock!Release, Lock!Pass
<1>3. ASSUME NEW R \in SUBSET asking, AskedOnce, LockRefused(R)
      PROVE  AskedOnce'
  BY <1>3 DEF LockRefused, Refuse, Lock!Refuse
<1>4. ASSUME NEW o \in Owners, AskedOnce, CloseOwned(o)
      PROVE  AskedOnce'
  BY <1>4 DEF CloseOwned
<1>5. ASSUME AskedOnce, CloseAll
      PROVE  AskedOnce'
  BY <1>5 DEF CloseAll, lock
<1>6. ASSUME AskedOnce, UNCHANGED vars
      PROVE  AskedOnce'
  BY <1>6 DEF vars
<1> QED BY <1>1, <1>2, <1>3, <1>4, <1>5, <1>6 DEF Next

\* What a step of a POST asks of the lock: one call of it, or nothing.
LEMMA StartingUsesLock ==
  ASSUME AskedOnce, NEW s \in Sessions, Starting(s)
  PROVE  [Lock!Next]_(Lock!vars)
<1>1. CASE \/ Post(s) \/ PrepareFails(s) \/ StartParallel(s) \/ Abort(s)
           \/ Started(s) \/ StartFails(s)
  BY <1>1 DEF Post, PrepareFails, StartParallel, Abort, Started, StartFails, lock, Lock!vars
<1>2. CASE AcquireLock(s)
  <2>1. s \in Serial /\ Lock!Ask(s)
    BY <1>2 DEF AcquireLock
  <2> QED BY <2>1 DEF Lock!Next
<1>3. CASE LockGranted(s)
  <2>1. Lock!Grant(s)
    BY <1>3 DEF LockGranted
  <2>2. s \in Serial
    BY <2>1 DEF AskedOnce, Lock!Grant
  <2> QED BY <2>1, <2>2 DEF Lock!Next
<1> QED BY <1>1, <1>2, <1>3 DEF Starting

\* Requests that are taken from those that wait have been refused, if there are any.
LEMMA TakenAreRefused ==
  ASSUME AskedOnce, NEW R \in SUBSET asking,
         asking' = asking \ R, answered' = answered \union R, UNCHANGED owner
  PROVE  [Lock!Next]_(Lock!vars)
<1>1. CASE R = {}
  BY <1>1 DEF Lock!vars
<1>2. CASE R # {}
  <2>1. R \in SUBSET Serial /\ R \subseteq Serial \ answered
    BY DEF AskedOnce
  <2>2. Lock!Refuse(R)
    BY <1>2, <2>1 DEF Lock!Refuse
  <2> QED BY <2>1, <2>2 DEF Lock!Next
<1> QED BY <1>1, <1>2

\* What a step that ends a session asks of the lock.
LEMMA EndingUsesLock ==
  ASSUME IndInv, AskedOnce, NEW s \in Sessions, Ending(s)
  PROVE  [Lock!Next]_(Lock!vars)
<1>1. CASE \/ Close(s) \/ LeaseExpires(s) \/ Closed(s) \/ CloseFails(s)
           \/ FinalizeFails(s) \/ Retry(s)
  BY <1>1 DEF Close, LeaseExpires, BeginClose, Closed, CloseFails, FinalizeFails, Retry, lock,
     Lock!vars
<1>2. CASE Released(s) /\ Freed(s)
  BY <1>2 DEF Freed, lock, Lock!vars, Lock!Next
<1>3. ASSUME NEW w \in Serial, HandedTo(s, w)
      PROVE  [Lock!Next]_(Lock!vars)
  BY <1>3 DEF HandedTo, Lock!Next
<1>4. CASE ReleaseFails(s)
  <2>1. PICK R \in SUBSET asking : asking' = asking \ R /\ answered' = answered \union R
    BY <1>4 DEF ReleaseFails
  <2>2. UNCHANGED owner
    BY <1>4 DEF ReleaseFails
  <2> QED BY <2>1, <2>2, TakenAreRefused
<1> QED BY <1>1, <1>2, <1>3, <1>4 DEF Ending, Released

\* The sessions deal with the lock of the serial target as ExclusiveLock says: each asks once
\* and is answered once, the target is given up or passed on only while somebody owns it, and
\* passed only to a request that still waits.  TargetLock implements the same specification
\* from the other side.
THEOREM SessionsUseLock == Spec => Lock!Spec
<1>1. Init => Lock!Init /\ AskedOnce
  BY DEF Init, Lock!Init, AskedOnce
<1>2. IndInv /\ AskedOnce /\ [Next]_vars => [Lock!Next]_(Lock!vars)
  <2> SUFFICES ASSUME IndInv, AskedOnce, [Next]_vars
               PROVE  [Lock!Next]_(Lock!vars)
    OBVIOUS
  <2>1. ASSUME NEW R \in SUBSET asking, LockRefused(R)
        PROVE  [Lock!Next]_(Lock!vars)
    BY <2>1, TakenAreRefused DEF LockRefused, Refuse, Lock!Refuse
  <2>2. ASSUME NEW o \in Owners, CloseOwned(o)
        PROVE  [Lock!Next]_(Lock!vars)
    <3>1. PICK R \in SUBSET {s \in asking : OwnerOf[s] = o} :
            asking' = asking \ R /\ answered' = answered \union R /\ UNCHANGED owner
      BY <2>2 DEF CloseOwned
    <3>2. R \in SUBSET asking
      OBVIOUS
    <3> QED BY <3>1, <3>2, TakenAreRefused
  <2>3. CASE CloseAll
    BY <2>3 DEF CloseAll, lock, Lock!vars
  <2>4. CASE UNCHANGED vars
    BY <2>4 DEF vars, Lock!vars
  <2> QED BY <2>1, <2>2, <2>3, <2>4, StartingUsesLock, EndingUsesLock DEF Next
<1> QED BY <1>1, <1>2, AskedOnceStep, Inductive, PTL DEF Spec, Lock!Spec

\* The lock leaves a session in one way only: its own release() resolves, after its close() did.
OnlyReleaseGivesUp ==
  [][\A s \in Serial : owner = s /\ owner' # s =>
       stage[s] = "releasing" /\ stage'[s] = "ended" /\ ~device[s] /\ ~device'[s]]_vars

\* No abort, refusal, expiry, disconnect or failed cleanup takes the lock from the session that
\* owns it: it goes when release() of that very session resolves, and the device is given back by
\* then.
THEOREM LockGoesAtRelease == Spec => OnlyReleaseGivesUp
<1> DEFINE Gone(s) ==
      stage[s] = "releasing" /\ stage'[s] = "ended" /\ ~device[s] /\ ~device'[s]
<1>1. ASSUME IndInv, IndInv', [Next]_vars, NEW s \in Serial, owner = s, owner' # s
      PROVE  Gone(s)
  <2> USE <1>1, SessionsAssumption DEF SessionsAssumption, IndInv, StageTyped, Stage,
      DeviceMatchesStage, LockMatchesStage, Keeping
  <2>1. CASE \E x \in Sessions : Starting(x)
    BY <2>1 DEF Starting, Post, PrepareFails, AcquireLock, StartParallel, LockGranted, Abort,
       Started, StartFails, Begin, lock, Lock!Ask, Lock!Grant
  <2>2. ASSUME NEW x \in Sessions, Ending(x)
        PROVE  Gone(s)
    <3>1. Released(x)
      BY <2>2 DEF Ending, Close, LeaseExpires, BeginClose, Closed, CloseFails, Quarantine,
         FinalizeFails, ReleaseFails, Retry, lock
    <3>2. stage[x] = "releasing" /\ x = s
      BY <3>1 DEF Released, Freed, HandedTo, lock, Lock!Pass
    <3>3. stage[s] = "releasing" /\ ~device[s] /\ s \in Sessions
      BY <3>2
    <3>4. CASE Freed(x)
      BY <3>2, <3>3, <3>4 DEF Freed
    <3>5. ASSUME NEW w \in Serial, HandedTo(x, w)
          PROVE  Gone(s)
      <4>1. w # s
        BY <3>5 DEF HandedTo, Lock!Pass
      <4> QED BY <3>2, <3>3, <3>5, <4>1 DEF HandedTo
    <3> QED BY <3>1, <3>4, <3>5 DEF Released
  <2>3. ~(\E R \in SUBSET asking : LockRefused(R)) /\ ~(\E o \in Owners : CloseOwned(o))
    BY DEF LockRefused, Refuse, Lock!Refuse, CloseOwned
  <2>4. ~CloseAll /\ ~UNCHANGED vars
    BY DEF CloseAll, lock, vars
  <2> QED BY <2>1, <2>2, <2>3, <2>4 DEF Next
<1>2. IndInv /\ IndInv' /\ [Next]_vars =>
        [\A s \in Serial : owner = s /\ owner' # s =>
           stage[s] = "releasing" /\ stage'[s] = "ended" /\ ~device[s] /\ ~device'[s]]_vars
  BY <1>1
<1> QED BY <1>2, Inductive, PTL DEF Spec, OnlyReleaseGivesUp

-------------------------------------------------------------------------------
(* What the clients are told.                                              *)

\* The stages of a session nobody has begun to close.
Unclosed == {"idle", "preparing", "locking", "starting", "live"}

AnswersTyped ==
  /\ result \in [Sessions -> Outcome]
  /\ closures \in Seq(Sessions) /\ Len(closures) <= MaxClosures
  /\ aborted \subseteq Sessions /\ expired \subseteq Sessions /\ left \subseteq Owners
  /\ stopped \in BOOLEAN /\ failures \in Nat /\ doomed \subseteq Sessions
  /\ answered \subseteq Serial

\* What was answered fits the stage: a session is closed only once it has ended, and is not
\* listed among the closures before; an abort waits for the next await of its POST.
AnswersMatchStage ==
  /\ \A s \in Sessions : result[s] = "resolved" => stage[s] = "ended"
  /\ \A s \in Sessions : stage[s] = "quarantined" => result[s] \in {"none", "rejected"}
  /\ \A s \in Sessions : stage[s] \in Unclosed => result[s] = "none" /\ s \notin ToSet(closures)
  /\ \A s \in aborted : stage[s] \in {"preparing", "locking", "starting"}
  /\ expired \subseteq ToSet(closures)

\* Any number of sessions may come, finitely many have.
FinitelyMany == IsFiniteSet({s \in Sessions : stage[s] # "idle"})

Answers == AnswersTyped /\ AnswersMatchStage /\ FinitelyMany

\* Of the closures the latest are kept, MaxClosures at most.
LEMMA RecentKeeps ==
  ASSUME NEW q \in Seq(Sessions)
  PROVE  /\ Recent(q) \in Seq(Sessions)
         /\ Len(Recent(q)) <= MaxClosures
         /\ ToSet(Recent(q)) \subseteq ToSet(q)
<1>0. Len(q) \in Nat /\ DOMAIN q = 1..Len(q) /\ MaxClosures \in Nat \ {0}
  BY SessionsAssumption DEF SessionsAssumption
<1>1. CASE Len(q) <= MaxClosures
  BY <1>0, <1>1 DEF Recent
<1>2. CASE Len(q) > MaxClosures
  <2> DEFINE first == Len(q) - MaxClosures + 1
             kept == SubSeq(q, first, Len(q))
  <2>1. first \in Int /\ first >= 1 /\ \A i \in first..Len(q) : q[i] \in Sessions
    BY <1>0, <1>2
  <2>2. /\ kept \in Seq(Sessions) /\ Len(kept) = MaxClosures
        /\ \A i \in 1..MaxClosures : kept[i] = q[first + i - 1]
    <3>1. Len(q) \in Int /\ first <= Len(q) /\ Len(q) - first + 1 = MaxClosures
      BY <1>0, <1>2
    <3> HIDE DEF first
    <3> QED BY <2>1, <3>1, SubSeqProperties
  <2>3. ToSet(kept) \subseteq ToSet(q)
    <3>1. ASSUME NEW i \in DOMAIN kept
          PROVE  kept[i] \in ToSet(q)
      <4>1. i \in 1..MaxClosures /\ first + i - 1 \in DOMAIN q
        BY <1>0, <1>2, <2>2, <3>1
      <4> QED BY <2>2, <4>1 DEF ToSet
    <3> QED BY <3>1 DEF ToSet
  <2> QED BY <1>0, <1>2, <2>2, <2>3 DEF Recent
<1> QED BY <1>0, <1>1, <1>2

\* What entering the closures does: all that is expired is still among them.
LEMMA RememberKeeps ==
  ASSUME AnswersTyped, expired \subseteq ToSet(closures),
         NEW S \in SUBSET Sessions, IsFiniteSet(S),
         NEW late \in SUBSET S, late # {} => \E s \in Sessions : S = {s},
         Remember(S, late)
  PROVE  /\ closures' \in Seq(Sessions) /\ Len(closures') <= MaxClosures
         /\ ToSet(closures') \subseteq ToSet(closures) \union S
         /\ expired' \subseteq ToSet(closures') /\ expired' \subseteq Sessions
         /\ result' = [s \in Sessions |-> IF s \in S THEN "pending" ELSE result[s]]
<1>1. PICK order \in SetToSeqs(S) :
        /\ closures' = Recent(closures \o order)
        /\ expired' = (expired \union late)
                        \ (ToSet(closures \o order) \ ToSet(Recent(closures \o order)))
        /\ result' = [s \in Sessions |-> IF s \in S THEN "pending" ELSE result[s]]
  BY DEF Remember
<1> DEFINE all == closures \o order
<1>2. Cardinality(S) \in Nat
  BY FS_CardinalityType
<1>3. /\ order \in Seq(Sessions) /\ DOMAIN order = 1..Cardinality(S)
      /\ \A i \in DOMAIN order : order[i] \in S
  BY <1>2 DEF SetToSeqs
<1>4. all \in Seq(Sessions)
  BY <1>3, ConcatProperties DEF AnswersTyped
<1>5. ToSet(all) = ToSet(closures) \union ToSet(order)
  <2>1. /\ Len(closures) \in Nat /\ Len(order) \in Nat /\ closures \in Seq(Sessions)
        /\ DOMAIN closures = 1..Len(closures) /\ DOMAIN order = 1..Len(order)
        /\ DOMAIN all = 1..Len(closures) + Len(order)
    BY <1>3, <1>4, ConcatProperties DEF AnswersTyped
  <2>2. \A i \in 1..Len(closures) + Len(order) :
          all[i] = IF i <= Len(closures) THEN closures[i] ELSE order[i - Len(closures)]
    BY <1>3, <2>1, ConcatProperties
  <2> HIDE DEF all
  <2>3. ASSUME NEW x \in ToSet(all)
        PROVE  x \in ToSet(closures) \union ToSet(order)
    <3>1. PICK i \in DOMAIN all : x = all[i]
      BY <2>3 DEF ToSet
    <3>2. i \in 1..Len(closures) \/ i - Len(closures) \in 1..Len(order)
      BY <2>1
    <3> QED BY <2>1, <2>2, <3>1, <3>2 DEF ToSet
  <2>4. ASSUME NEW x \in ToSet(closures)
        PROVE  x \in ToSet(all)
    <3>1. PICK i \in DOMAIN closures : x = closures[i]
      BY <2>4 DEF ToSet
    <3> QED BY <2>1, <2>2, <3>1 DEF ToSet
  <2>5. ASSUME NEW x \in ToSet(order)
        PROVE  x \in ToSet(all)
    <3>1. PICK i \in DOMAIN order : x = order[i]
      BY <2>5 DEF ToSet
    <3>2. Len(closures) + i \in DOMAIN all /\ all[Len(closures) + i] = x
      BY <2>1, <2>2, <3>1
    <3> QED BY <3>2 DEF ToSet
  <2> QED BY <2>3, <2>4, <2>5
<1>6. ToSet(order) \subseteq S
  BY <1>3 DEF ToSet
<1>7. late \subseteq ToSet(order)
  <2>1. SUFFICES ASSUME NEW s \in late
                 PROVE  s \in ToSet(order)
    OBVIOUS
  <2>2. S = {s}
    BY <2>1
  <2>3. Cardinality(S) = 1
    BY <2>2, FS_Singleton
  <2>4. 1 \in DOMAIN order
    BY <1>3, <2>3
  <2>5. order[1] = s
    BY <1>3, <2>2, <2>4
  <2> QED BY <2>4, <2>5 DEF ToSet
<1> HIDE DEF all
<1>8. /\ closures' \in Seq(Sessions) /\ Len(closures') <= MaxClosures
      /\ ToSet(closures') \subseteq ToSet(all)
  BY <1>1, <1>4, RecentKeeps DEF all
<1>9. expired' \subseteq ToSet(closures')
  BY <1>1, <1>5, <1>7 DEF all
<1> QED BY <1>1, <1>5, <1>6, <1>8, <1>9 DEF AnswersTyped

\* Closing the sessions of a finite part of those that are listed.
LEMMA ClosingKeepsAnswers ==
  ASSUME StageTyped, Answers,
         NEW S \in SUBSET Live, NEW late \in SUBSET S,
             late # {} => \E s \in Sessions : S = {s},
         NEW R \in SUBSET Sessions, \A s \in R : stage[s] = "locking",
         Remember(S, late),
         stage' = [s \in Sessions |-> IF s \in S THEN "closing"
                                      ELSE IF s \in R THEN "ended" ELSE stage[s]],
         aborted' = aborted \ R
  PROVE  AnswersMatchStage' /\ FinitelyMany'
<1> USE DEF StageTyped, Stage, Live
<1>1. {s \in Sessions : stage'[s] # "idle"} \subseteq {s \in Sessions : stage[s] # "idle"}
  OBVIOUS
<1>2. IsFiniteSet(S)
  <2>1. S \subseteq {s \in Sessions : stage[s] # "idle"}
    OBVIOUS
  <2> QED BY <2>1, FS_Subset DEF Answers, FinitelyMany
<1>3. /\ ToSet(closures') \subseteq ToSet(closures) \union S
      /\ expired' \subseteq ToSet(closures')
      /\ result' = [s \in Sessions |-> IF s \in S THEN "pending" ELSE result[s]]
  BY <1>2, RememberKeeps DEF Answers, AnswersMatchStage
<1>4. FinitelyMany'
  BY <1>1, FS_Subset DEF Answers, FinitelyMany
<1> QED BY <1>3, <1>4 DEF Answers, AnswersTyped, AnswersMatchStage, Unclosed, Outcome

\* The steps of a POST.
LEMMA StartingKeepsAnswers ==
  ASSUME IndInv, Answers, NEW s \in Sessions, Starting(s)
  PROVE  Answers'
<1>1. FinitelyMany'
  <2> DEFINE before == {x \in Sessions : stage[x] # "idle"}
             after  == {x \in Sessions : stage'[x] # "idle"}
  <2>1. after \subseteq before \union {s}
    BY DEF IndInv, StageTyped, Starting, Post, PrepareFails, AcquireLock, StartParallel,
        LockGranted,
       Abort, Started, StartFails, Begin
  <2>2. IsFiniteSet(before \union {s})
    BY FS_AddElement DEF Answers, FinitelyMany
  <2> QED BY <2>1, <2>2, FS_Subset DEF FinitelyMany
<1> USE SessionsAssumption DEF SessionsAssumption, IndInv, StageTyped, Stage, Answers,
    AnswersTyped,
    AnswersMatchStage, Unclosed, Outcome, lock
<1>2. CASE Post(s)
  BY <1>1, <1>2 DEF Post
<1>3. CASE PrepareFails(s)
  BY <1>1, <1>3 DEF PrepareFails
<1>4. CASE AcquireLock(s)
  BY <1>1, <1>4 DEF AcquireLock, Lock!Ask
<1>5. CASE StartParallel(s)
  BY <1>1, <1>5 DEF StartParallel, Begin
<1>6. CASE LockGranted(s)
  <2>1. s \in Serial
    BY <1>6 DEF LockMatchesStage, LockGranted, Lock!Grant
  <2> QED BY <1>1, <1>6, <2>1 DEF LockGranted, Begin, Lock!Grant
<1>7. CASE Abort(s)
  BY <1>1, <1>7 DEF Abort
<1>8. CASE Started(s)
  BY <1>1, <1>8 DEF Started
<1>9. CASE StartFails(s)
  BY <1>1, <1>9 DEF StartFails
<1> QED BY <1>2, <1>3, <1>4, <1>5, <1>6, <1>7, <1>8, <1>9 DEF Starting

\* The steps that end a session.
LEMMA EndingKeepsAnswers ==
  ASSUME IndInv, Answers, NEW s \in Sessions, Ending(s)
  PROVE  Answers'
<1> USE SessionsAssumption DEF SessionsAssumption, IndInv, StageTyped, Stage
<1>1. ASSUME NEW late \in SUBSET {s}, BeginClose(s, late)
      PROVE  Answers'
  <2>1. s \in Live /\ Remember({s}, late) /\ IsFiniteSet({s})
    BY <1>1, FS_Singleton DEF BeginClose
  <2>2. stage' = [x \in Sessions |-> IF x \in {s} THEN "closing"
                                     ELSE IF x \in {} THEN "ended" ELSE stage[x]]
    BY <1>1 DEF BeginClose
  <2>3. aborted' = aborted \ {}
    BY <1>1 DEF BeginClose
  <2>4. AnswersMatchStage' /\ FinitelyMany'
    <3> DEFINE S == {s}
               R == {}
    <3>1. S \in SUBSET Live /\ late \in SUBSET S /\ \E x \in Sessions : S = {x}
      BY <2>1
    <3>2. R \in SUBSET Sessions /\ \A x \in R : stage[x] = "locking"
      OBVIOUS
    <3>3. /\ Remember(S, late) /\ aborted' = aborted \ R
          /\ stage' = [x \in Sessions |-> IF x \in S THEN "closing"
                                          ELSE IF x \in R THEN "ended" ELSE stage[x]]
      BY <2>1, <2>2, <2>3
    <3> HIDE DEF S, R
    <3> QED BY <3>1, <3>2, <3>3, ClosingKeepsAnswers
  <2>5. AnswersTyped'
    <3>1. expired \subseteq ToSet(closures) /\ (late # {} => {s} = {s})
      BY DEF Answers, AnswersMatchStage
    <3>2. /\ closures' \in Seq(Sessions) /\ Len(closures') <= MaxClosures
          /\ expired' \subseteq Sessions
          /\ result' = [x \in Sessions |-> IF x \in {s} THEN "pending" ELSE result[x]]
      BY <2>1, <3>1, RememberKeeps DEF Answers
    <3> QED BY <1>1, <3>2 DEF Answers, AnswersTyped, BeginClose, lock, Outcome
  <2> QED BY <2>4, <2>5 DEF Answers
<1>2. ASSUME \/ Closed(s) \/ CloseFails(s) \/ FinalizeFails(s)
             \/ Released(s) \/ ReleaseFails(s) \/ Retry(s)
      PROVE  Answers'
  <2>1. FinitelyMany'
    <3> DEFINE before == {x \in Sessions : stage[x] # "idle"}
               after  == {x \in Sessions : stage'[x] # "idle"}
    <3>1. after \subseteq before
      BY <1>2 DEF LockMatchesStage, Closed, CloseFails, Quarantine, FinalizeFails, Released,
         Freed, HandedTo, Lock!Pass, ReleaseFails, Retry
    <3> QED BY <3>1, FS_Subset DEF Answers, FinitelyMany
  <2> USE DEF Answers, AnswersTyped, AnswersMatchStage, Unclosed, Outcome, lock,
      LockMatchesStage
  <2>2. CASE Closed(s)
    BY <2>1, <2>2 DEF Closed
  <2>3. CASE CloseFails(s)
    BY <2>1, <2>3 DEF CloseFails, Quarantine, Settle, MayFail
  <2>4. ASSUME Released(s), Freed(s)
        PROVE  Answers'
    BY <2>1, <2>4 DEF Released, Freed, Settle, Lock!Release
  <2>5. ASSUME NEW w \in Serial, Released(s), HandedTo(s, w)
        PROVE  Answers'
    BY <2>1, <2>5 DEF Released, HandedTo, Settle, Lock!Pass
  <2>6. CASE ReleaseFails(s)
    BY <2>1, <2>6 DEF ReleaseFails, Settle, MayFail
  <2>7. CASE Retry(s)
    BY <2>1, <2>7 DEF Retry
  <2>8. CASE FinalizeFails(s)
    BY <2>1, <2>8 DEF FinalizeFails, MayFail
  <2> QED BY <1>2, <2>2, <2>3, <2>4, <2>5, <2>6, <2>7, <2>8 DEF Released
<1> QED BY <1>1, <1>2 DEF Ending, Close, LeaseExpires

LEMMA StepAnswers == IndInv /\ Answers /\ [Next]_vars => Answers'
<1> SUFFICES ASSUME IndInv, Answers, [Next]_vars
             PROVE  Answers'
  OBVIOUS
<1> USE SessionsAssumption DEF SessionsAssumption, IndInv, StageTyped, Stage,
    LockMatchesStage
<1>1. ASSUME NEW R \in SUBSET asking, LockRefused(R)
      PROVE  Answers'
  <2>1. {x \in Sessions : stage'[x] # "idle"} \subseteq {x \in Sessions : stage[x] # "idle"}
    BY <1>1 DEF LockRefused, Refuse
  <2>2. FinitelyMany'
    BY <2>1, FS_Subset DEF Answers, FinitelyMany
  <2> QED BY <1>1, <2>2 DEF LockRefused, Refuse, Lock!Refuse, Answers, AnswersTyped,
             AnswersMatchStage, Unclosed
<1>2. ASSUME NEW o \in Owners, CloseOwned(o)
      PROVE  Answers'
  <2> DEFINE mine == {s \in Live : OwnerOf[s] = o}
  <2>1. PICK R \in SUBSET asking :
          /\ left' = left \union {o}
          /\ answered' = answered \union R
          /\ stage' = [s \in Sessions |-> IF s \in mine THEN "closing"
                                          ELSE IF s \in R THEN "ended" ELSE stage[s]]
          /\ aborted' = aborted \ R
          /\ Remember(mine, {})
          /\ UNCHANGED <<device, doomed, stopped, failures, owner>>
    BY <1>2 DEF CloseOwned
  <2>2. mine \subseteq Live /\ \A s \in R : stage[s] = "locking"
    OBVIOUS
  <2> HIDE DEF mine
  <2>3. AnswersMatchStage' /\ FinitelyMany'
    BY <2>1, <2>2, ClosingKeepsAnswers
  <2>4. IsFiniteSet(mine)
    <3>1. mine \subseteq {s \in Sessions : stage[s] # "idle"}
      BY <2>2 DEF Live
    <3> QED BY <3>1, FS_Subset DEF Answers, FinitelyMany
  <2>5. AnswersTyped'
    BY <2>1, <2>2, <2>4, RememberKeeps
       DEF Answers, AnswersTyped, AnswersMatchStage, Outcome, Live
  <2> QED BY <2>3, <2>5 DEF Answers
<1>3. CASE CloseAll
  <2>1. /\ Remember(Live, {}) /\ aborted' = aborted \ {}
        /\ stage' = [s \in Sessions |-> IF s \in Live THEN "closing"
                                        ELSE IF s \in {} THEN "ended" ELSE stage[s]]
    BY <1>3 DEF CloseAll
  <2>2. AnswersMatchStage' /\ FinitelyMany'
    BY <2>1, ClosingKeepsAnswers
  <2>3. IsFiniteSet(Live)
    <3>1. Live \subseteq {s \in Sessions : stage[s] # "idle"}
      BY DEF Live
    <3> QED BY <3>1, FS_Subset DEF Answers, FinitelyMany
  <2>4. AnswersTyped'
    BY <1>3, <2>1, <2>3, RememberKeeps
       DEF Answers, AnswersTyped, AnswersMatchStage, CloseAll, Outcome, Live, lock
  <2> QED BY <2>2, <2>4 DEF Answers
<1>4. CASE UNCHANGED vars
  BY <1>4 DEF vars, Answers, AnswersTyped, AnswersMatchStage, FinitelyMany
<1> QED BY <1>1, <1>2, <1>3, <1>4, StartingKeepsAnswers, EndingKeepsAnswers DEF Next, IndInv

LEMMA InitAnswers == Init => Answers
<1> SUFFICES ASSUME Init
             PROVE  Answers
  OBVIOUS
<1>1. FinitelyMany
  <2>1. {s \in Sessions : stage[s] # "idle"} = {}
    BY DEF Init
  <2> QED BY <2>1, FS_EmptySet DEF FinitelyMany
<1>2. AnswersTyped
  <2>1. closures \in Seq(Sessions) /\ Len(closures) = 0 /\ 0 <= MaxClosures
    BY SessionsAssumption DEF SessionsAssumption, Init
  <2>2. result \in [Sessions -> Outcome]
    BY DEF Init, Outcome
  <2> QED BY <2>1, <2>2 DEF Init, Lock!Init, AnswersTyped
<1>3. AnswersMatchStage
  BY DEF Init, AnswersMatchStage, ToSet
<1> QED BY <1>1, <1>2, <1>3 DEF Answers

LEMMA AnswersInvariant == Spec => []Answers
BY InitAnswers, StepAnswers, Inductive, PTL DEF Spec

\* The state of sessions, closures and lock keeps its types; the closures stay within their bound.
THEOREM TypeCorrect == Spec => []TypeOK
<1>1. IndInv /\ Answers => TypeOK
  BY DEF IndInv, StageTyped, LockMatchesStage, Answers, AnswersTyped, TypeOK
<1> QED BY <1>1, Inductive, AnswersInvariant, PTL

\* Whatever the client is told of a close, of the list of the sessions and of expired leases is
\* the case, with any number of sessions that end at the same time.
THEOREM AnswersTrue == Spec => []AnswersAreTrue
<1>1. IndInv /\ Answers => AnswersAreTrue
  <2> SUFFICES ASSUME IndInv, Answers
               PROVE  AnswersAreTrue
    OBVIOUS
  <2>1. ResultIsHonest
    BY SessionsAssumption DEF SessionsAssumption, IndInv, StageTyped, LockMatchesStage,
       DeviceMatchesStage, Keeping, Answers, AnswersMatchStage, ResultIsHonest
  <2>2. ListedIsUsable
    BY DEF Answers, AnswersMatchStage, ListedIsUsable, Live, Unclosed
  <2>3. ExpiredAreRemembered
    BY DEF Answers, AnswersMatchStage, ExpiredAreRemembered
  <2> QED BY <2>1, <2>2, <2>3 DEF AnswersAreTrue
<1> QED BY <1>1, Inductive, AnswersInvariant, PTL

-------------------------------------------------------------------------------
(***************************************************************************)
(* The MCP server, which opens and closes sessions for its tools.  What is *)
(* required of its constants is a hypothesis, as in the sections below.    *)
(***************************************************************************)
CONSTANTS Calls, MaxFaults

VARIABLES call, chain, current, beating, stopping, server, ours, others, faults, astray

Mcp == INSTANCE McpServer

\* Where a handler of the chain is suspended in its turn.
Active == {"closing", "working", "opened"}

Call == [pc : Mcp!Waiting \union {"idle"},
    tool : Mcp!Serialised \union Mcp!Direct \union {"none"},
         subject : Sessions \union {None}]

CallTyped == call \in [Calls -> Call]

\* Where a handler is suspended fits its tool, and has the session it needs.
Fits(c) ==
  /\ c.tool = "none" <=> c.pc = "idle"
  /\ c.pc = "queued" => c.tool \in Mcp!Serialised
  /\ c.pc = "working" => c.tool \in {"start", "connect", "disconnect"}
  /\ c.pc \in {"closing", "opened"} => c.subject \in Sessions
  /\ c.pc = "closing" => c.tool \in Mcp!Serialised \union {"closeById"}
  /\ c.pc = "opened" => c.tool = "start"
  /\ c.pc = "sent" => c.tool = "page" /\ c.subject \in Sessions

CallFits == \A t \in Calls : Fits(call[t])

\* Each call that goes through the coordinator is in the chain, once, and all but the
\* first wait.
ChainOfCalls ==
  /\ chain \in Seq(Calls)
  /\ \A i, j \in 1..Len(chain) : chain[i] = chain[j] => i = j
  /\ \A i \in 1..Len(chain) : call[chain[i]].tool \in Mcp!Serialised
  /\ \A i \in 1..Len(chain) : i # 1 => call[chain[i]].pc = "queued"
  /\ \A t \in Calls : call[t].tool \in Mcp!Serialised => \E i \in 1..Len(chain) : chain[i] = t

\* The rest of the type invariant.
OthersTyped ==
  /\ current \in Sessions \union {None}
  /\ beating \in [Sessions -> SUBSET {"own", "listed"}]
  /\ stopping \in BOOLEAN
  /\ server \in [Sessions -> {"none", "live", "over"}]
  /\ ours \subseteq Sessions /\ others \subseteq Sessions /\ astray \subseteq Sessions
  /\ faults \in 0..MaxFaults

\* The coordinator runs the operation of this call.
InTurn(t) == call[t].tool \in Mcp!Serialised /\ call[t].pc \in Active

\* A session of ours that may be alive is the current one, or the call whose turn it is
\* opens or closes it.
SessionsInTurn ==
  /\ (\E t \in Calls : InTurn(t)) => current = None
  /\ \A s \in ours : server[s] # "none"
  /\ \A s \in ours \ astray : server[s] = "live" =>
       \/ current = s
       \/ \E t \in Calls : InTurn(t) /\ call[t].pc # "working" /\ call[t].subject = s
  /\ Mcp!OwnHeartbeatIsCurrent

CallInv == CallTyped /\ CallFits /\ ChainOfCalls
McpInv == Mcp!McpAssumption /\ CallInv /\ OthersTyped /\ SessionsInTurn

-----
\* At most one call has its turn.
LEMMA OneTurn ==
  ASSUME CallInv, NEW t \in Calls, call[t].tool \in Mcp!Serialised, call[t].pc # "queued"
  PROVE  chain # <<>> /\ Head(chain) = t /\ \A u \in Calls : InTurn(u) => u = t
<1>1. PICK i \in 1..Len(chain) : chain[i] = t
  BY DEF CallInv, ChainOfCalls
<1>2. i = 1
  BY <1>1 DEF CallInv, ChainOfCalls
<1>3. chain # <<>> /\ Head(chain) = t
  BY <1>1, <1>2 DEF CallInv, ChainOfCalls
<1>4. ASSUME NEW u \in Calls, InTurn(u)
      PROVE  u = t
  <2>1. PICK j \in 1..Len(chain) : chain[j] = u
    BY <1>4 DEF CallInv, ChainOfCalls, InTurn
  <2>2. j = 1
    BY <1>4, <2>1 DEF CallInv, ChainOfCalls, InTurn, Active
  <2> QED BY <2>1, <2>2, <1>1, <1>2
<1> QED BY <1>3, <1>4

\* A call that does not go through the coordinator is not in its chain.
LEMMA NotChained ==
  ASSUME CallInv, NEW t \in Calls, call[t].tool \notin Mcp!Serialised
  PROVE  ~(chain # <<>> /\ Head(chain) = t)
BY DEF CallInv, ChainOfCalls

LEMMA EnqueueKeeps ==
  ASSUME CallInv, NEW t \in Calls, call[t].pc = "idle", NEW tool \in Mcp!Serialised,
         None \notin Sessions,
         Mcp!Enqueue(t, tool)
  PROVE  CallInv'
<1>1. CallTyped'
  BY DEF CallInv, CallTyped, Call, Mcp!Enqueue, Mcp!At, Mcp!Waiting
<1>2. CallFits'
  BY DEF CallInv, CallTyped, Call, CallFits, Fits, Mcp!Enqueue, Mcp!At, Mcp!Serialised
<1>3. ChainOfCalls'
  <2> DEFINE n == Len(chain)
  <2>1. /\ chain' \in Seq(Calls) /\ Len(chain') = n + 1 /\ n \in Nat
        /\ \A i \in 1..n : chain'[i] = chain[i]
        /\ chain'[n + 1] = t
    BY DEF CallInv, ChainOfCalls, Mcp!Enqueue
  <2>2. \A i \in 1..n : chain[i] \in Calls /\ chain[i] # t
    BY DEF CallInv, ChainOfCalls, CallFits, Fits, Mcp!Serialised
  <2>3. \A u \in Calls : u # t => call'[u] = call[u]
    BY DEF CallInv, CallTyped, Call, Mcp!Enqueue
  <2>4. call'[t].tool = tool /\ call'[t].pc = "queued"
    BY DEF CallInv, CallTyped, Call, Mcp!Enqueue, Mcp!At
  <2>5. \A i \in 1..Len(chain') : i \in 1..n \/ i = n + 1
    BY <2>1
  <2>6. 1..n \subseteq 1..Len(chain') /\ n + 1 \in 1..Len(chain') /\ n + 1 \notin 1..n
    BY <2>1
  <2> HIDE DEF n
  <2>7. \A i \in 1..n : call'[chain'[i]] = call[chain[i]]
    BY <2>1, <2>2, <2>3
  <2>8. /\ \A i, j \in 1..n : chain[i] = chain[j] => i = j
        /\ \A i \in 1..n : call[chain[i]].tool \in Mcp!Serialised
        /\ \A i \in 1..n : i # 1 => call[chain[i]].pc = "queued"
        /\ \A u \in Calls : call[u].tool \in Mcp!Serialised => \E i \in 1..n : chain[i] = u
    BY DEF CallInv, ChainOfCalls, n
  <2>9. \A i, j \in 1..Len(chain') : chain'[i] = chain'[j] => i = j
    <3> TAKE i, j \in 1..Len(chain')
    <3> HAVE chain'[i] = chain'[j]
    <3>1. CASE i = n + 1 /\ j # n + 1
      BY <3>1, <2>1, <2>2, <2>5
    <3>2. CASE i # n + 1 /\ j = n + 1
      BY <3>2, <2>1, <2>2, <2>5
    <3>3. CASE i # n + 1 /\ j # n + 1
      BY <3>3, <2>1, <2>5, <2>8
    <3> QED BY <3>1, <3>2, <3>3
  <2>10. \A i \in 1..Len(chain') : call'[chain'[i]].tool \in Mcp!Serialised
    BY <2>1, <2>4, <2>5, <2>7, <2>8
  <2>11. \A i \in 1..Len(chain') : i # 1 => call'[chain'[i]].pc = "queued"
    BY <2>1, <2>4, <2>5, <2>7, <2>8
  <2>12. ASSUME NEW u \in Calls, call'[u].tool \in Mcp!Serialised
         PROVE  \E i \in 1..Len(chain') : chain'[i] = u
    <3>1. CASE u = t
      BY <3>1, <2>1, <2>6
    <3>2. CASE u # t
      <4>1. PICK i \in 1..n : chain[i] = u
        BY <3>2, <2>3, <2>8, <2>12
      <4> QED BY <4>1, <2>1, <2>6
    <3> QED BY <3>1, <3>2
  <2> QED BY <2>1, <2>9, <2>10, <2>11, <2>12 DEF ChainOfCalls
<1> QED BY <1>1, <1>2, <1>3 DEF CallInv

\* A call outside the chain begins or moves on; or that whose turn it is moves on.
LEMMA MoveKeeps ==
  ASSUME CallInv, NEW t \in Calls, NEW new \in Call, Fits(new),
         call' = [call EXCEPT ![t] = new], chain' = chain,
         new.tool = call[t].tool \/ (new.tool \in Mcp!Direct /\ call[t].pc = "idle"),
         new.tool \in Mcp!Serialised => Head(chain) = t
  PROVE  CallInv'
<1>1. CallTyped'
  BY DEF CallInv, CallTyped
<1>2. CallFits'
  BY DEF CallInv, CallTyped, CallFits
<1>3. ChainOfCalls'
  <2>1. \A u \in Calls : u # t => call'[u] = call[u]
    BY DEF CallInv, CallTyped
  <2>2. call'[t] = new
    BY DEF CallInv, CallTyped
  <2>3. call'[t].tool \in Mcp!Serialised <=> call[t].tool \in Mcp!Serialised
    BY <2>2 DEF CallInv, CallFits, Fits, Mcp!Serialised, Mcp!Direct
  <2>4. \A u \in Calls : call'[u].tool \in Mcp!Serialised <=> call[u].tool \in Mcp!Serialised
    BY <2>1, <2>3
  <2>5. ASSUME NEW i \in 1..Len(chain), i # 1
        PROVE  call'[chain[i]].pc = "queued"
    <3>1. chain[i] # t
      <4>1. CASE new.tool \in Mcp!Serialised
        BY <4>1, <2>5 DEF CallInv, ChainOfCalls
      <4>2. CASE new.tool \notin Mcp!Serialised
        BY <4>2, <2>2, <2>3 DEF CallInv, ChainOfCalls
      <4> QED BY <4>1, <4>2
    <3> QED BY <3>1, <2>1, <2>5 DEF CallInv, ChainOfCalls
  <2> QED BY <2>4, <2>5 DEF CallInv, ChainOfCalls
<1> QED BY <1>1, <1>2, <1>3 DEF CallInv

\* A call settles that is in its turn, or outside the chain.
LEMMA SettleKeeps ==
  ASSUME CallInv, NEW t \in Calls, Mcp!Settle(t),
         call[t].tool \in Mcp!Serialised => chain # <<>> /\ Head(chain) = t
  PROVE  CallInv'
<1> DEFINE none == Mcp!At("idle", "none", None)
<1>0. call' = [call EXCEPT ![t] = none] /\ none.pc = "idle" /\ none.tool = "none"
      /\ none \in [pc : Mcp!Waiting \union {"idle"},
         tool : Mcp!Serialised \union Mcp!Direct \union {"none"},
                   subject : Sessions \union {None}]
  BY DEF Mcp!Settle, Mcp!At
<1> HIDE DEF none
<1>1. CallTyped'
  BY <1>0 DEF CallInv, CallTyped, Call
<1>2. CallFits'
  BY <1>0 DEF CallInv, CallTyped, Call, CallFits, Fits
<1>3. ChainOfCalls'
  <2>1. \A u \in Calls : u # t => call'[u] = call[u]
    BY <1>0 DEF CallInv, CallTyped, Call
  <2>2. call'[t].tool = "none"
    BY <1>0 DEF CallInv, CallTyped, Call
  <2>3. CASE call[t].tool \in Mcp!Serialised
    <3> DEFINE n == Len(chain)
    <3>1. /\ chain' \in Seq(Calls) /\ n \in Nat \ {0} /\ Len(chain') = n - 1
          /\ \A i \in 1..Len(chain') : chain'[i] = chain[i + 1] /\ i + 1 \in 1..n /\ i + 1 # 1
          /\ chain[1] = t
      BY <2>3 DEF CallInv, ChainOfCalls, Mcp!Settle
    <3> HIDE DEF n
    <3>2. /\ \A i, j \in 1..n : chain[i] = chain[j] => i = j
          /\ \A i \in 1..n : chain[i] \in Calls
          /\ \A i \in 1..n : call[chain[i]].tool \in Mcp!Serialised
          /\ \A i \in 1..n : i # 1 => call[chain[i]].pc = "queued"
          /\ \A u \in Calls : call[u].tool \in Mcp!Serialised => \E i \in 1..n : chain[i] = u
      BY DEF CallInv, ChainOfCalls, n
    <3>3. \A i \in 1..n : i # 1 => chain[i] # t
      <4>1. 1 \in 1..n /\ chain[1] = t
        BY <3>1
      <4> QED BY <4>1, <3>2
    <3>4. \A i \in 1..Len(chain') : call'[chain'[i]] = call[chain[i + 1]]
      BY <2>1, <3>1, <3>2, <3>3
    <3>5. \A i, j \in 1..Len(chain') : chain'[i] = chain'[j] => i = j
      <4> TAKE i, j \in 1..Len(chain')
      <4> HAVE chain'[i] = chain'[j]
      <4>1. chain[i + 1] = chain[j + 1] /\ i + 1 \in 1..n /\ j + 1 \in 1..n
        BY <3>1
      <4>2. i + 1 = j + 1
        BY <4>1, <3>2
      <4> QED BY <4>2
    <3>6. ASSUME NEW u \in Calls, call'[u].tool \in Mcp!Serialised
          PROVE  \E i \in 1..Len(chain') : chain'[i] = u
      <4>1. u # t
        BY <3>6, <2>2 DEF Mcp!Serialised
      <4>2. PICK i \in 1..n : chain[i] = u
        BY <4>1, <3>6, <2>1, <3>2
      <4>3. i # 1
        BY <4>1, <4>2, <3>1
      <4>4. i - 1 \in 1..Len(chain') /\ (i - 1) + 1 = i
        BY <4>3, <3>1
      <4> QED BY <4>2, <4>4, <3>1
    <3>7. ASSUME NEW i \in 1..Len(chain')
          PROVE  call'[chain'[i]].tool \in Mcp!Serialised /\ call'[chain'[i]].pc = "queued"
      <4>1. i + 1 \in 1..n /\ i + 1 # 1
        BY <3>1
      <4>2. call[chain[i + 1]].tool \in Mcp!Serialised /\ call[chain[i + 1]].pc = "queued"
        BY <4>1, <3>2
      <4> QED BY <4>2, <3>4
    <3> QED BY <3>1, <3>5, <3>6, <3>7 DEF ChainOfCalls
  <2>4. CASE call[t].tool \notin Mcp!Serialised
    <3>1. chain' = chain
      BY <2>4, NotChained DEF Mcp!Settle
    <3>2. \A i \in 1..Len(chain) : chain[i] \in Calls /\ chain[i] # t
      BY <2>4 DEF CallInv, ChainOfCalls
    <3>3. \A i \in 1..Len(chain) : call'[chain[i]] = call[chain[i]]
      BY <2>1, <3>2
    <3>4. \A u \in Calls : call'[u].tool \in Mcp!Serialised => call[u].tool \in Mcp!Serialised
      BY <2>1, <2>2 DEF Mcp!Serialised
    <3> QED BY <3>1, <3>3, <3>4 DEF CallInv, ChainOfCalls
  <2> QED BY <2>3, <2>4
<1> QED BY <1>1, <1>2, <1>3 DEF CallInv

-----
LEMMA InitMcpInv == Mcp!McpAssumption /\ Mcp!Init => McpInv
<1> SUFFICES ASSUME Mcp!McpAssumption, Mcp!Init
             PROVE  McpInv
  OBVIOUS
<1>1. CallTyped /\ CallFits
  BY DEF Mcp!Init, Mcp!At, CallTyped, Call, CallFits, Fits
<1>2. ChainOfCalls
  BY DEF Mcp!Init, Mcp!At, ChainOfCalls, Mcp!Serialised
<1>3. OthersTyped
  <2>1. faults \in 0..MaxFaults
    BY DEF Mcp!Init, Mcp!McpAssumption
  <2>2. beating \in [Sessions -> SUBSET {"own", "listed"}]
    BY DEF Mcp!Init
  <2>3. server \in [Sessions -> {"none", "live", "over"}]
    BY DEF Mcp!Init
  <2> QED BY <2>1, <2>2, <2>3 DEF Mcp!Init, OthersTyped
<1>4. SessionsInTurn
  BY DEF Mcp!Init, Mcp!At, SessionsInTurn, InTurn, Active, Mcp!OwnHeartbeatIsCurrent
<1> QED BY <1>1, <1>2, <1>3, <1>4 DEF McpInv, CallInv

\* A tool is called that goes through the coordinator.
LEMMA QueueKeeps ==
  ASSUME McpInv, NEW t \in Calls, call[t].pc = "idle", NEW tool \in Mcp!Serialised,
         Mcp!Enqueue(t, tool), stopping' \in BOOLEAN,
         UNCHANGED <<current, beating, Mcp!bench, Mcp!history>>
  PROVE  McpInv'
<1>1. CallInv'
  BY EnqueueKeeps DEF McpInv, Mcp!McpAssumption
<1>2. OthersTyped'
  BY DEF McpInv, OthersTyped, Mcp!bench, Mcp!history
<1>3. /\ \A u \in Calls : u # t => call'[u] = call[u]
      /\ ~InTurn(t) /\ call'[t].pc = "queued"
  BY DEF McpInv, CallInv, CallTyped, Call, CallFits, Fits, Mcp!Enqueue, Mcp!At, InTurn,
      Active
<1>4. \A u \in Calls : InTurn(u)' <=> InTurn(u)
  BY <1>3 DEF InTurn, Active
<1>5. SessionsInTurn'
  BY <1>3, <1>4 DEF McpInv, SessionsInTurn, Mcp!OwnHeartbeatIsCurrent, Mcp!Held, Mcp!bench,
     Mcp!history
<1> QED BY <1>1, <1>2, <1>5 DEF McpInv

\* A call outside the chain begins, moves on or settles, and the testbench may end a
\* session meanwhile.
LEMMA BesidesKeeps ==
  ASSUME McpInv, NEW t \in Calls, CallInv',
         call[t].tool \notin Mcp!Serialised, call'[t].tool \notin Mcp!Serialised,
         \A u \in Calls : u # t => call'[u] = call[u],
         NEW s \in Sessions, server' \in {server, [server EXCEPT ![s] = "over"]},
         UNCHANGED <<current, beating, stopping, ours, others, astray>>,
             faults' \in 0..MaxFaults
  PROVE  McpInv'
<1>1. OthersTyped'
  BY DEF McpInv, OthersTyped
<1>2. \A u \in Calls : InTurn(u)' <=> InTurn(u)
  BY DEF InTurn
<1>3. \A u \in Calls : InTurn(u) => call'[u] = call[u]
  BY DEF InTurn
<1>4. \A z \in Sessions : /\ server'[z] = "live" => server[z] = "live"
                          /\ server[z] # "none" => server'[z] # "none"
  BY DEF McpInv, OthersTyped
<1>5. SessionsInTurn'
  BY <1>2, <1>3, <1>4 DEF McpInv, SessionsInTurn, Mcp!OwnHeartbeatIsCurrent, Mcp!Held,
      OthersTyped
<1> QED BY <1>1, <1>5 DEF McpInv

\* In its turn a call closes or opens a session, and nobody else has his.
LEMMA TurnKeeps ==
  ASSUME McpInv, NEW t \in Calls, CallInv', InTurn(t),
         \A u \in Calls : u # t => call'[u] = call[u],
         OthersTyped', current' = None \/ ~InTurn(t)',
         \A s \in ours' : server'[s] # "none",
         \A s \in ours' \ astray' : server'[s] = "live" =>
           \/ current' = s
           \/ InTurn(t)' /\ call'[t].pc # "working" /\ call'[t].subject = s,
         Mcp!OwnHeartbeatIsCurrent'
  PROVE  McpInv'
<1>1. \A u \in Calls : u # t => ~InTurn(u)
  <2>1. call[t].pc # "queued"
    BY DEF InTurn, Active
  <2> QED BY <2>1, OneTurn DEF McpInv, InTurn
<1>2. \A u \in Calls : u # t => ~InTurn(u)'
  BY <1>1 DEF InTurn
<1>3. SessionsInTurn'
  BY <1>2 DEF SessionsInTurn
<1> QED BY <1>3 DEF McpInv

\* What others do to the sessions of the testbench.
LEMMA BenchKeeps ==
  ASSUME McpInv, UNCHANGED <<call, chain, current, stopping, Mcp!history, ours>>,
         others' \subseteq Sessions, server' \in [Sessions -> {"none", "live", "over"}],
         \A s \in ours : server[s] # "none" =>
           server'[s] # "none" /\ (server'[s] = "live" => server[s] = "live"),
         beating' \in [Sessions -> SUBSET {"own", "listed"}],
         \A s \in Sessions : "own" \in beating'[s] => "own" \in beating[s]
  PROVE  McpInv'
<1>1. CallInv'
  BY DEF McpInv, CallInv, CallTyped, Call, CallFits, Fits, ChainOfCalls
<1>2. OthersTyped'
  BY DEF McpInv, OthersTyped, Mcp!history
<1>3. \A u \in Calls : InTurn(u)' <=> InTurn(u)
  BY DEF InTurn
<1>4. SessionsInTurn'
  BY <1>3 DEF McpInv, SessionsInTurn, Mcp!OwnHeartbeatIsCurrent, Mcp!Held, Mcp!history
<1> QED BY <1>1, <1>2, <1>4 DEF McpInv

-----
\* Where a call that is in its turn goes after closing a session, or finding none.
LEMMA AfterCloseKeeps ==
  ASSUME McpInv, NEW t \in Calls, Mcp!AfterClose(t), call[t].tool \in Mcp!Serialised,
         chain # <<>> /\ Head(chain) = t
  PROVE  /\ CallInv'
         /\ \A u \in Calls : u # t => call'[u] = call[u]
         /\ call'[t].pc \notin {"closing", "opened"}
<1>2. CASE call[t].tool \in {"start", "connect", "disconnect"}
  <2> DEFINE new == [call[t] EXCEPT !.pc = "working"]
  <2>1. /\ call' = [call EXCEPT ![t] = new] /\ chain' = chain
        /\ new.pc = "working" /\ new.tool = call[t].tool /\ new \in Call
    BY <1>2 DEF Mcp!AfterClose, Mcp!Place, McpInv, CallInv, CallTyped, Call, Mcp!Waiting
  <2> HIDE DEF new
  <2>2. CallInv'
    <3>1. Fits(new)
      BY <1>2, <2>1 DEF Fits
    <3> QED BY <2>1, <3>1, MoveKeeps DEF McpInv
  <2> QED BY <2>1, <2>2 DEF McpInv, CallInv, CallTyped, Call
<1>3. CASE call[t].tool \notin {"start", "connect", "disconnect"}
  <2>1. Mcp!Settle(t)
    BY <1>3 DEF Mcp!AfterClose
  <2>2. CallInv'
    BY <2>1, SettleKeeps DEF McpInv
  <2> QED BY <2>1, <2>2 DEF McpInv, CallInv, CallTyped, Call, Mcp!Settle, Mcp!At
<1> QED BY <1>2, <1>3

\* How a call that settles leaves the calls.
LEMMA Settled ==
  ASSUME McpInv, NEW t \in Calls, Mcp!Settle(t), call[t].pc # "queued"
  PROVE  /\ CallInv'
         /\ \A u \in Calls : u # t => call'[u] = call[u]
         /\ call'[t].pc = "idle" /\ call'[t].tool \notin Mcp!Serialised
<1>1. call[t].tool \in Mcp!Serialised => chain # <<>> /\ Head(chain) = t
  BY OneTurn DEF McpInv
<1>2. CallInv'
  BY <1>1, SettleKeeps DEF McpInv
<1> QED BY <1>2 DEF McpInv, CallInv, CallTyped, Call, Mcp!Settle, Mcp!At, Mcp!Serialised

\* How a call looks that moves on.
LEMMA Moved ==
  ASSUME McpInv, NEW t \in Calls, NEW place \in Mcp!Waiting, NEW tool, NEW s \in Sessions,
         call' = [call EXCEPT ![t] = Mcp!At(place, tool, s)]
  PROVE  /\ \A u \in Calls : u # t => call'[u] = call[u]
         /\ call'[t].pc = place /\ call'[t].tool = tool /\ call'[t].subject = s
BY DEF McpInv, CallInv, CallTyped, Call, Mcp!At

\* closeCurrent() forgets the session and has its DELETE awaited, or finds none.
LEMMA BeginKeeps ==
  ASSUME McpInv, NEW t \in Calls, Mcp!Begin(t)
  PROVE  McpInv'
<1>1. call[t].pc = "queued" /\ chain # <<>> /\ Head(chain) = t
  <2>1. PICK i \in 1..Len(chain) : chain[i] = t
    BY DEF Mcp!Begin, McpInv, CallInv, CallFits, Fits, ChainOfCalls
  <2> QED BY <2>1 DEF Mcp!Begin, McpInv, CallInv, ChainOfCalls
<1>2. call[t].tool \in Mcp!Serialised
  BY <1>1 DEF McpInv, CallInv, CallFits, Fits
<1>3. \A u \in Calls : ~InTurn(u)
  <2>1. ASSUME NEW u \in Calls, InTurn(u)
        PROVE  FALSE
    <3>1. chain # <<>> /\ Head(chain) = u
      BY <2>1, OneTurn DEF McpInv, InTurn, Active
    <3> QED BY <1>1, <2>1, <3>1 DEF InTurn, Active
  <2> QED BY <2>1
<1>4. OthersTyped'
  BY DEF Mcp!Begin, McpInv, OthersTyped, Mcp!bench, Mcp!history
<1>5. CASE current = None
  <2>1. /\ Mcp!AfterClose(t) /\ UNCHANGED <<current, beating, Mcp!bench, Mcp!history>>
    BY <1>5 DEF Mcp!Begin, McpInv, Mcp!McpAssumption
  <2>2. /\ CallInv'
        /\ \A u \in Calls : u # t => call'[u] = call[u]
        /\ call'[t].pc \notin {"closing", "opened"}
    BY <1>1, <1>2, <2>1, AfterCloseKeeps
  <2>3. SessionsInTurn'
    BY <1>3, <1>5, <2>1, <2>2 DEF McpInv, SessionsInTurn, Mcp!OwnHeartbeatIsCurrent,
        Mcp!Held,
       Mcp!bench,
       Mcp!history
  <2> QED BY <1>4, <2>2, <2>3 DEF McpInv
<1>6. CASE current # None
  <2>1. /\ call' = [call EXCEPT ![t] = Mcp!At("closing", call[t].tool, current)]
        /\ beating' = [beating EXCEPT ![current] = @ \ {"own"}]
        /\ current' = None /\ chain' = chain
        /\ UNCHANGED <<Mcp!bench, Mcp!history>>
    BY <1>6 DEF Mcp!Begin, McpInv, CallInv, CallTyped, Call
  <2>2. current \in Sessions
    BY <1>6 DEF McpInv, OthersTyped
  <2>3. /\ \A u \in Calls : u # t => call'[u] = call[u]
        /\ call'[t].pc = "closing" /\ call'[t].tool = call[t].tool /\ call'[t].subject = current
    BY <2>1, <2>2, Moved DEF Mcp!Waiting
  <2>4. CallInv'
    <3> DEFINE new == Mcp!At("closing", call[t].tool, current)
    <3>1. /\ new.pc = "closing" /\ new.tool = call[t].tool /\ new.subject = current
          /\ new \in Call
      BY <1>2, <2>2 DEF Mcp!At, Mcp!Waiting, Call
    <3> HIDE DEF new
    <3>2. call' = [call EXCEPT ![t] = new]
      BY <2>1 DEF new
    <3>3. Fits(new)
      BY <1>2, <2>2, <3>1 DEF Fits, Mcp!Serialised
    <3> QED BY <1>1, <2>1, <3>1, <3>2, <3>3, MoveKeeps DEF McpInv
  <2>5. Mcp!OwnHeartbeatIsCurrent'
    <3>1. \A s \in Sessions : s # current => beating'[s] = beating[s]
      BY <2>1 DEF McpInv, OthersTyped
    <3>2. "own" \notin beating'[current]
      BY <2>1, <2>2 DEF McpInv, OthersTyped
    <3> QED BY <3>1, <3>2 DEF McpInv, SessionsInTurn, Mcp!OwnHeartbeatIsCurrent, Mcp!Held
  <2>6. InTurn(t)'
    BY <1>2, <2>3 DEF InTurn, Active
  <2>7. SessionsInTurn'
    BY <1>3, <2>1, <2>3, <2>5, <2>6 DEF McpInv, SessionsInTurn, Mcp!bench, Mcp!history
  <2> QED BY <1>4, <2>4, <2>7 DEF McpInv
<1> QED BY <1>5, <1>6

\* The DELETE is answered, or fails.
LEMMA EndKeeps ==
  ASSUME McpInv, NEW t \in Calls, Mcp!Closed(t) \/ Mcp!CloseFails(t)
  PROVE  McpInv'
<1> DEFINE s == call[t].subject
<1>1. /\ call[t].pc = "closing" /\ s \in Sessions
      /\ call[t].tool \in Mcp!Serialised \union {"closeById"}
      /\ server' \in {server, [server EXCEPT ![s] = "over"]}
      /\ faults' \in 0..MaxFaults
      /\ UNCHANGED <<current, beating, stopping, ours, others>>
      /\ Mcp!AfterClose(t) \/ Mcp!Settle(t)
  BY DEF McpInv, OthersTyped, Mcp!McpAssumption, CallInv, CallFits, Fits, Mcp!Closed,
     Mcp!CloseFails, Mcp!MayFail,
     Mcp!history
<1>2. IF call[t].tool = "closeById"
        THEN astray' = astray
        ELSE \/ astray' = astray /\ server' = [server EXCEPT ![s] = "over"]
             \/ astray' = astray \union {s}
  BY DEF Mcp!Closed, Mcp!CloseFails, Mcp!history, Mcp!Serialised
<1> HIDE DEF s
<1>3. CASE call[t].tool = "closeById"
  <2>1. Mcp!Settle(t)
    BY <1>1, <1>3 DEF Mcp!AfterClose
  <2>2. /\ CallInv'
        /\ \A u \in Calls : u # t => call'[u] = call[u]
        /\ call'[t].tool \notin Mcp!Serialised
    BY <1>1, <2>1, Settled
  <2>3. call[t].tool \notin Mcp!Serialised
    BY <1>3 DEF Mcp!Serialised
  <2> QED BY <1>1, <1>2, <1>3, <2>2, <2>3, BesidesKeeps
<1>4. CASE call[t].tool \in Mcp!Serialised
  <2>1. /\ CallInv'
        /\ \A u \in Calls : u # t => call'[u] = call[u]
        /\ call'[t].pc \notin {"closing", "opened"}
    <3>1. CASE Mcp!AfterClose(t)
      <4>1. chain # <<>> /\ Head(chain) = t
        BY <1>1, <1>4, OneTurn DEF McpInv
      <4> QED BY <1>4, <3>1, <4>1, AfterCloseKeeps
    <3>2. CASE Mcp!Settle(t)
      BY <1>1, <3>2, Settled
    <3> QED BY <1>1, <3>1, <3>2
  <2>2. InTurn(t) /\ current = None
    BY <1>1, <1>4 DEF InTurn, Active, McpInv, SessionsInTurn
  <2>3. \A u \in Calls : InTurn(u) => u = t
    BY <1>1, <1>4, OneTurn DEF McpInv
  <2>4. astray \subseteq astray' /\ astray' \subseteq Sessions
    BY <1>1, <1>2, <1>4 DEF McpInv, OthersTyped, Mcp!Serialised
  <2>5. OthersTyped'
    BY <1>1, <2>4 DEF McpInv, OthersTyped
  <2>6. \A z \in Sessions : /\ server'[z] = "live" => server[z] = "live"
                            /\ server[z] # "none" => server'[z] # "none"
    BY <1>1 DEF McpInv, OthersTyped
  <2>7. server'[s] = "live" => s \in astray'
    BY <1>1, <1>2, <1>4 DEF McpInv, OthersTyped, Mcp!Serialised
  <2>8. \A z \in ours' \ astray' : server'[z] # "live"
    <3> SUFFICES ASSUME NEW z \in ours, z \notin astray', server'[z] = "live"
                 PROVE  FALSE
      BY <1>1
    <3>1. z \in Sessions /\ server[z] = "live" /\ z \notin astray /\ z # s
      BY <2>4, <2>6, <2>7 DEF McpInv, OthersTyped
    <3>2. PICK u \in Calls : InTurn(u) /\ call[u].subject = z
      BY <2>2, <3>1 DEF McpInv, SessionsInTurn, Mcp!McpAssumption
    <3> QED BY <2>3, <3>1, <3>2 DEF s
  <2>9. (\A z \in ours' : server'[z] # "none") /\ Mcp!OwnHeartbeatIsCurrent'
    BY <1>1, <2>6 DEF McpInv, OthersTyped, SessionsInTurn, Mcp!OwnHeartbeatIsCurrent,
        Mcp!Held
  <2> QED BY <1>1, <2>1, <2>2, <2>5, <2>8, <2>9, TurnKeeps
<1> QED BY <1>1, <1>3, <1>4

\* The testbench has started a session: no other that may be alive was left.
LEMMA StartKeeps ==
  ASSUME McpInv, NEW t \in Calls, NEW s \in Sessions, Mcp!Started(t, s)
  PROVE  McpInv'
<1>1. /\ call[t].pc = "working" /\ call[t].tool = "start"
      /\ call' = [call EXCEPT ![t] = Mcp!At("opened", "start", s)]
      /\ server[s] = "none" /\ server' = [server EXCEPT ![s] = "live"]
      /\ ours' = ours \union {s}
      /\ UNCHANGED <<chain, current, beating, stopping, others, faults, astray>>
  BY DEF Mcp!Started, Mcp!host, Mcp!history
<1>2. chain # <<>> /\ Head(chain) = t /\ InTurn(t) /\ \A u \in Calls : InTurn(u) => u = t
  BY <1>1, OneTurn DEF McpInv, InTurn, Active, Mcp!Serialised
<1>3. CallInv'
  <2> DEFINE new == Mcp!At("opened", "start", s)
  <2>1. new.pc = "opened" /\ new.tool = "start" /\ new.subject = s /\ new \in Call
    BY DEF Mcp!At, Call, Mcp!Waiting, Mcp!Serialised
  <2> HIDE DEF new
  <2>2. Fits(new)
    BY <2>1 DEF Fits
  <2>3. call' = [call EXCEPT ![t] = new]
    BY <1>1 DEF new
  <2> QED BY <1>1, <1>2, <2>1, <2>2, <2>3, MoveKeeps DEF McpInv
<1>4. /\ \A u \in Calls : u # t => call'[u] = call[u]
      /\ call'[t].pc = "opened" /\ call'[t].tool = "start" /\ call'[t].subject = s
  BY <1>1, Moved DEF Mcp!Waiting
<1>5. InTurn(t)' /\ current = None
  BY <1>2, <1>4 DEF InTurn, Active, Mcp!Serialised, McpInv, SessionsInTurn
<1>6. OthersTyped'
  BY <1>1 DEF McpInv, OthersTyped
<1>7. \A z \in Sessions : z # s => server'[z] = server[z]
  BY <1>1 DEF McpInv, OthersTyped
<1>8. server'[s] = "live" /\ ours \subseteq Sessions
  BY <1>1 DEF McpInv, OthersTyped
<1>9. \A z \in ours' : server'[z] # "none"
  BY <1>1, <1>7, <1>8 DEF McpInv, SessionsInTurn
<1>10. \A z \in ours' \ astray' : server'[z] = "live" => z = s
  <2> SUFFICES ASSUME NEW z \in ours, z \notin astray, server'[z] = "live", z # s
               PROVE  FALSE
    BY <1>1
  <2>1. server[z] = "live" /\ z # None
    BY <1>7, <1>8 DEF McpInv, Mcp!McpAssumption
  <2>2. PICK u \in Calls : InTurn(u) /\ call[u].pc # "working"
    BY <1>5, <2>1 DEF McpInv, SessionsInTurn
  <2> QED BY <1>1, <1>2, <2>2
<1>11. Mcp!OwnHeartbeatIsCurrent'
  BY <1>1 DEF McpInv, SessionsInTurn, Mcp!OwnHeartbeatIsCurrent, Mcp!Held
<1> QED BY <1>1, <1>2, <1>3, <1>4, <1>5, <1>6, <1>9, <1>10, <1>11, TurnKeeps

\* A call whose turn it is ends it otherwise than by closing.
LEMMA SettlingKeeps ==
  ASSUME McpInv, NEW t \in Calls, Mcp!Transition(t) \/ Mcp!Opened(t) \/ Mcp!OpenFails(t)
  PROVE  McpInv'
<1>1. Mcp!Settle(t) /\ InTurn(t) /\ call[t].pc \in {"working", "opened"}
      /\ UNCHANGED <<stopping, server, ours, others>>
  BY DEF Mcp!Transition, Mcp!Opened, Mcp!OpenFails, InTurn, Active, Mcp!Serialised, McpInv,
     CallInv, CallFits,
     Fits, Mcp!bench
<1>2. /\ CallInv'
      /\ \A u \in Calls : u # t => call'[u] = call[u]
      /\ call'[t].pc = "idle" /\ call'[t].tool \notin Mcp!Serialised
  BY <1>1, Settled
<1>3. /\ ~InTurn(t)' /\ current = None
      /\ \A u \in Calls : InTurn(u) => u = t
  BY <1>1, <1>2, OneTurn DEF InTurn, McpInv, SessionsInTurn
<1>4. \A z \in ours : server[z] # "none" /\ z \in Sessions /\ z # None
  BY DEF McpInv, SessionsInTurn, OthersTyped, Mcp!McpAssumption
<1>5. \A z \in ours \ astray : server[z] = "live" =>
        call[t].pc = "opened" /\ call[t].subject = z
  BY <1>1, <1>3, <1>4 DEF McpInv, SessionsInTurn
<1>6. call[t].pc = "opened" => call[t].subject \in Sessions
  BY DEF McpInv, CallInv, CallFits, Fits
<1>7. CASE Mcp!Transition(t)
  <2>1. /\ UNCHANGED <<current, beating, faults, astray>>
        /\ call[t].pc = "working"
    BY <1>7 DEF Mcp!Transition, Mcp!history
  <2>2. OthersTyped' /\ Mcp!OwnHeartbeatIsCurrent'
    BY <1>1, <2>1 DEF McpInv, OthersTyped, SessionsInTurn, Mcp!OwnHeartbeatIsCurrent,
        Mcp!Held
  <2> QED BY <1>1, <1>2, <1>3, <1>4, <1>5, <2>1, <2>2, TurnKeeps
<1>8. CASE Mcp!Opened(t)
  <2> DEFINE s == call[t].subject
  <2>1. /\ current' = s /\ s \in Sessions
        /\ beating' = [beating EXCEPT ![s] = @ \union {"own"}]
        /\ UNCHANGED <<faults, astray>>
    BY <1>6, <1>8 DEF Mcp!Opened, Mcp!history
  <2>2. \A z \in Sessions : "own" \notin beating[z]
    BY <1>3 DEF McpInv, Mcp!McpAssumption, SessionsInTurn, Mcp!OwnHeartbeatIsCurrent,
        Mcp!Held
  <2>3. OthersTyped'
    BY <1>1, <2>1 DEF McpInv, OthersTyped
  <2>4. Mcp!OwnHeartbeatIsCurrent'
    BY <2>1, <2>2 DEF Mcp!OwnHeartbeatIsCurrent, Mcp!Held, McpInv, OthersTyped
  <2> QED BY <1>1, <1>2, <1>3, <1>4, <1>5, <2>1, <2>3, <2>4, TurnKeeps
<1>9. CASE Mcp!OpenFails(t)
  <2>1. /\ UNCHANGED <<current, beating>>
        /\ faults' \in 0..MaxFaults
        /\ astray' = astray \union ({call[t].subject} \ {None})
    BY <1>9 DEF Mcp!OpenFails, Mcp!MayFail, McpInv, OthersTyped, Mcp!McpAssumption
  <2>2. call[t].subject \in Sessions \union {None}
    BY DEF McpInv, CallInv, CallTyped, Call
  <2>3. OthersTyped' /\ Mcp!OwnHeartbeatIsCurrent'
    BY <1>1, <2>1, <2>2 DEF McpInv, OthersTyped, SessionsInTurn, Mcp!OwnHeartbeatIsCurrent,
       Mcp!Held
  <2>4. \A z \in ours' \ astray' : server'[z] # "live"
    BY <1>1, <1>4, <1>5, <2>1
  <2> QED BY <1>1, <1>2, <1>3, <1>4, <2>3, <2>4, TurnKeeps
<1> QED BY <1>7, <1>8, <1>9

\* A call outside the chain begins.
LEMMA DirectKeeps ==
  ASSUME McpInv, NEW t \in Calls, call[t].pc = "idle", NEW s \in Sessions,
         NEW place \in Mcp!Waiting, NEW tool \in Mcp!Direct,
         <<place, tool>> \in {<<"closing", "closeById">>, <<"sent", "page">>},
         call' = [call EXCEPT ![t] = Mcp!At(place, tool, s)],
         UNCHANGED <<Mcp!host, Mcp!bench, Mcp!history>>
  PROVE  McpInv'
<1> DEFINE new == Mcp!At(place, tool, s)
<1>1. new.pc = place /\ new.tool = tool /\ new.subject = s /\ new \in Call
  BY DEF Mcp!At, Call
<1>2. Fits(new) /\ tool \notin Mcp!Serialised
  BY <1>1 DEF Fits, Mcp!Direct, Mcp!Serialised
<1>3. /\ \A u \in Calls : u # t => call'[u] = call[u]
      /\ call'[t].tool = tool
  <2>1. call \in [Calls -> Call] /\ call' = [call EXCEPT ![t] = new]
    BY DEF McpInv, CallInv, CallTyped
  <2> HIDE DEF new
  <2> QED BY <1>1, <2>1
<1>4. call' = [call EXCEPT ![t] = new] /\ chain' = chain
  BY DEF Mcp!host
<1> HIDE DEF new
<1>5. CallInv'
  BY <1>1, <1>2, <1>4, MoveKeeps DEF McpInv
<1>6. call[t].tool \notin Mcp!Serialised
  BY DEF McpInv, CallInv, CallFits, Fits, Mcp!Serialised
<1>7. faults' \in 0..MaxFaults /\ UNCHANGED <<current, beating, stopping, ours, others,
    astray>>
      /\ server' = server
  BY DEF Mcp!host, Mcp!bench, Mcp!history, McpInv, OthersTyped
<1> QED BY <1>2, <1>3, <1>5, <1>6, <1>7, BesidesKeeps

\* A command of a page ends, perhaps with its session.
LEMMA CommandEndsKeeps ==
  ASSUME McpInv, NEW t \in Calls, Mcp!CommandEnds(t)
  PROVE  McpInv'
<1> DEFINE s == call[t].subject
<1>1. /\ Mcp!Settle(t) /\ call[t].pc = "sent"
      /\ server' \in {server, [server EXCEPT ![s] = "over"]}
      /\ UNCHANGED <<current, beating, stopping, ours, others, astray>>
      /\ faults' \in 0..MaxFaults
  BY DEF Mcp!CommandEnds, Mcp!MayFail, McpInv, OthersTyped, Mcp!McpAssumption
<1>2. s \in Sessions /\ call[t].tool \notin Mcp!Serialised
  BY <1>1 DEF McpInv, CallInv, CallFits, Fits, Mcp!Serialised
<1>3. /\ CallInv'
      /\ \A u \in Calls : u # t => call'[u] = call[u]
      /\ call'[t].tool \notin Mcp!Serialised
  BY <1>1, Settled
<1> QED BY <1>1, <1>2, <1>3, BesidesKeeps

LEMMA StepMcpInv == McpInv /\ [Mcp!Next]_(Mcp!vars) => McpInv'
<1> SUFFICES ASSUME McpInv, [Mcp!Next]_(Mcp!vars)
             PROVE  McpInv'
  OBVIOUS
<1>1. ASSUME NEW t \in Calls, NEW tool \in Mcp!Serialised, Mcp!CallTool(t, tool)
      PROVE  McpInv'
  <2>1. stopping' \in BOOLEAN
    BY <1>1 DEF Mcp!CallTool, McpInv, OthersTyped
  <2> QED BY <1>1, <2>1, QueueKeeps DEF Mcp!CallTool
<1>2. ASSUME NEW t \in Calls, NEW s \in Sessions, Mcp!CloseById(t, s)
      PROVE  McpInv'
  <2>1. call[t].pc = "idle" /\ UNCHANGED <<current, beating, stopping, Mcp!bench,
      Mcp!history>>
    BY <1>2 DEF Mcp!CloseById
  <2>2. CASE Mcp!Enqueue(t, "close")
    BY <2>1, <2>2, QueueKeeps DEF Mcp!Serialised, McpInv, OthersTyped
  <2>3. CASE ~Mcp!Enqueue(t, "close")
    <3>1. call' = [call EXCEPT ![t] = Mcp!At("closing", "closeById",
        s)] /\ UNCHANGED Mcp!host
      BY <1>2, <2>3 DEF Mcp!CloseById, Mcp!host
    <3> QED BY <2>1, <3>1, DirectKeeps DEF Mcp!Waiting, Mcp!Direct
  <2> QED BY <2>2, <2>3
<1>3. ASSUME NEW t \in Calls, NEW s \in Sessions, Mcp!Started(t, s)
      PROVE  McpInv'
  BY <1>3, StartKeeps
<1>4. ASSUME NEW t \in Calls, Mcp!Signal(t)
      PROVE  McpInv'
  BY <1>4, QueueKeeps DEF Mcp!Signal, Mcp!Serialised
<1>5. ASSUME NEW t \in Calls, Mcp!Begin(t)
      PROVE  McpInv'
  BY <1>5, BeginKeeps
<1>6. ASSUME NEW t \in Calls, Mcp!Closed(t) \/ Mcp!CloseFails(t)
      PROVE  McpInv'
  BY <1>6, EndKeeps
<1>7. ASSUME NEW t \in Calls, Mcp!Transition(t) \/ Mcp!Opened(t) \/ Mcp!OpenFails(t)
      PROVE  McpInv'
  BY <1>7, SettlingKeeps
<1>8. ASSUME NEW t \in Calls, Mcp!SendCommand(t)
      PROVE  McpInv'
  <2>1. current \in Sessions
    BY <1>8 DEF Mcp!SendCommand, McpInv, OthersTyped
  <2> QED BY <1>8, <2>1, DirectKeeps DEF Mcp!SendCommand, Mcp!Waiting, Mcp!Direct
<1>9. ASSUME NEW t \in Calls, Mcp!CommandEnds(t)
      PROVE  McpInv'
  BY <1>9, CommandEndsKeeps
<1>10. CASE Mcp!ListSessions \/ Mcp!Exit
  <2>1. /\ UNCHANGED <<call, chain, current, stopping, Mcp!bench, Mcp!history>>
        /\ \A s \in Sessions : beating'[s] \subseteq beating[s] \union {"listed"}
        /\ beating' \in [Sessions -> SUBSET {"own", "listed"}]
    BY <1>10 DEF Mcp!ListSessions, Mcp!Exit, McpInv, OthersTyped
  <2>2. \A s \in Sessions : "own" \in beating'[s] => "own" \in beating[s]
    BY <2>1
  <2> QED BY <2>1, <2>2, BenchKeeps DEF Mcp!bench, McpInv, OthersTyped
<1>11. ASSUME NEW s \in Sessions,
    Mcp!OtherOpens(s) \/ Mcp!OtherLeaves(s) \/ Mcp!LeaseEnds(s)
       PROVE  McpInv'
  <2>1. UNCHANGED <<call, chain, current, stopping, Mcp!history, ours, beating>>
    BY <1>11 DEF Mcp!OtherOpens, Mcp!OtherLeaves, Mcp!LeaseEnds, Mcp!host
  <2>2. others' \subseteq Sessions /\ server' \in [Sessions -> {"none", "live", "over"}]
    BY <1>11 DEF Mcp!OtherOpens, Mcp!OtherLeaves, Mcp!LeaseEnds, McpInv, OthersTyped
  <2>3. \A z \in ours : server[z] # "none" =>
          server'[z] # "none" /\ (server'[z] = "live" => server[z] = "live")
    BY <1>11 DEF Mcp!OtherOpens, Mcp!OtherLeaves, Mcp!LeaseEnds, McpInv, OthersTyped
  <2> QED BY <2>1, <2>2, <2>3, BenchKeeps DEF McpInv, OthersTyped
<1>12. CASE UNCHANGED Mcp!vars
  BY <1>12, BenchKeeps DEF Mcp!vars, Mcp!host, Mcp!bench, Mcp!history, McpInv, OthersTyped
<1> QED BY <1>1, <1>2, <1>3, <1>4, <1>5, <1>6, <1>7, <1>8, <1>9, <1>10, <1>11,
    <1>12 DEF Mcp!Next

\* The chain holds the calls that wait, once each, and only its first touches the session.
LEMMA McpInductive == Mcp!McpAssumption => (Mcp!Spec => []McpInv)
BY InitMcpInv, StepMcpInv, PTL DEF Mcp!Spec

\* The MCP server (mcp-server.ts, mcp-session-coordinator.ts): its calls, its chain and what it
\* knows of sessions keep their types.
THEOREM McpTypeCorrect ==
  ASSUME Mcp!McpAssumption
  PROVE  Mcp!Spec => []Mcp!TypeOK
<1>1. McpInv => Mcp!TypeOK
  BY DEF McpInv, CallInv, CallTyped, Call, ChainOfCalls, OthersTyped, Mcp!TypeOK
<1> QED BY <1>1, McpInductive, PTL

\* With any number of tool calls, sessions and lost requests, the MCP server works with one
\* session at a time, the current one or the one a call opens or closes; it leaves no other
\* behind but those recorded where a request failed, and renews the lease of no other.
THEOREM McpSessionInHand ==
  ASSUME Mcp!McpAssumption
  PROVE  Mcp!Spec => []Mcp!SessionIsInHand
<1>1. ASSUME McpInv PROVE Mcp!SessionIsInHand
  <2> USE <1>1
  <2>1. Mcp!NothingIsOrphaned
    BY DEF McpInv, SessionsInTurn, Mcp!NothingIsOrphaned, Mcp!Held, Mcp!InHand, InTurn,
        Active
  <2>2. Mcp!OneAtATime
    <3> SUFFICES ASSUME NEW s \in ours \ astray, NEW z \in ours \ astray,
                        server[s] = "live", server[z] = "live"
                 PROVE  s = z
      BY DEF Mcp!OneAtATime
    <3>1. CASE current # None
      BY <3>1 DEF McpInv, SessionsInTurn
    <3>2. CASE current = None
      <4>1. s # None /\ z # None
        BY DEF McpInv, Mcp!McpAssumption, OthersTyped
      <4>2. PICK t \in Calls : InTurn(t) /\ call[t].subject = s
        BY <3>2, <4>1 DEF McpInv, SessionsInTurn
      <4>3. PICK u \in Calls : InTurn(u) /\ call[u].subject = z
        BY <3>2, <4>1 DEF McpInv, SessionsInTurn
      <4>4. t = u
        BY <4>2, <4>3, OneTurn DEF McpInv, InTurn, Active
      <4> QED BY <4>2, <4>3, <4>4
    <3> QED BY <3>1, <3>2
  <2> QED BY <2>1, <2>2 DEF Mcp!SessionIsInHand, McpInv, SessionsInTurn
<1> QED BY <1>1, McpInductive, PTL

-------------------------------------------------------------------------------
(***************************************************************************)
(* The catalog of the targets, whose ids are the names of the locks.       *)
(***************************************************************************)
CONSTANTS Devices, Model, Version, Present, PageLoads, ClientLoads, Flaky, MaxEvents, AdbError

VARIABLES plugged, seen, cache, loads, page, sessions, spent, rivalled, blind

Catalog == INSTANCE TargetCatalog

\* Phones of the same name and version.
SameMake(e, d) == Catalog!Base(e, {}) = Catalog!Base(d, {})

\* The phones among which a phone counts as long as none of its make comes or goes.
Kin(d) == {d} \union {e \in Devices : e # d /\ e \in Present /\ SameMake(e, d)}

\* The id a phone gets then.
FirstId(d) == <<Catalog!Base(d, {}),
                IF Kin(d) = {d} THEN 0 ELSE Catalog!Cardinality({e \in Kin(d) : e <= d})>>

\* Of a phone whose id cannot have changed, no other of its make has come or gone.
TwinsStay ==
  \A d \in Devices \ rivalled, e \in Devices :
    e # d /\ SameMake(e, d) => (plugged[e] = "ready" <=> e \in Present)

\* The phones of a list whose ids cannot have changed have their first ids.
OfFirstId(targets) == \A t \in targets : t.device \notin rivalled => t.id = FirstId(t.device)

\* Wherever such a phone is listed, it is listed by its first id.
IdsStay ==
  /\ cache # None => OfFirstId(cache)
  /\ \A l \in PageLoads : OfFirstId(loads[l].found)
  /\ OfFirstId(sessions)

\* What is known of a request for the targets.
Load == [at : {"idle", "asked", "read", "sent"}, of : {"page", "client"},
         found : SUBSET Catalog!Targets, order : {"newest", "older", "late"}]

\* The parts of the type invariant.
PhonesTyped ==
  /\ plugged \in [Devices -> {"absent", "unauthorized", "bare", "ready"}]
  /\ seen \in [Devices -> {"absent", "unauthorized", "ready"}] \union {None, AdbError}
  /\ rivalled \subseteq Devices

ListsTyped ==
  /\ cache = None \/ cache \in SUBSET Catalog!Targets
  /\ loads \in [PageLoads -> Load]
  /\ sessions \in SUBSET Catalog!Targets

PageTyped ==
  /\ page \in [shown : SUBSET Catalog!Targets, timer : BOOLEAN, connected : BOOLEAN,
               mutation : PageLoads \union {None}]
  /\ blind \in BOOLEAN

CatTyped == PhonesTyped /\ ListsTyped /\ PageTyped /\ spent \in 0..MaxEvents

CatInv == Catalog!CatalogAssumption /\ CatTyped /\ TwinsStay /\ IdsStay

-----
\* The instance counts as this module does.
LEMMA CatalogCounts == ASSUME NEW S PROVE Catalog!Cardinality(S) = Cardinality(S)
BY Zenon DEF Catalog!Cardinality, Cardinality

\* A phone has finitely many before it.
LEMMA PositionTyped ==
  ASSUME Catalog!CatalogAssumption, NEW d \in Devices, NEW S
  PROVE  Catalog!Cardinality({e \in Devices : e \in S /\ e <= d}) \in Nat
<1> DEFINE T == {e \in Devices : e \in S /\ e <= d}
<1>1. d \in Nat /\ T \subseteq 0..d
  <2>1. \A e \in Devices : e \in Nat
    BY DEF Catalog!CatalogAssumption
  <2>2. d \in Nat
    BY <2>1
  <2>3. ASSUME NEW e \in T
        PROVE  e \in 0..d
    <3>1. e \in Nat /\ e <= d
      BY <2>1
    <3> QED BY <2>2, <3>1
  <2> QED BY <2>2, <2>3
<1>2. IsFiniteSet(0..d)
  BY <1>1, FS_Interval
<1>3. IsFiniteSet(T)
  BY <1>1, <1>2, FS_Subset
<1> QED BY <1>3, FS_CardinalityType, CatalogCounts

\* mobileTargets() numbers the phones it is given.
LEMMA TargetsTyped ==
  ASSUME Catalog!CatalogAssumption, NEW found \in SUBSET Devices,
      NEW unread \in SUBSET Devices
  PROVE  Catalog!MobileTargets(found, unread) \in SUBSET Catalog!Targets
<1> DEFINE Rivals(d) == {e \in found : Catalog!Base(e, unread) = Catalog!Base(d, unread)}
           Nth(d) == IF Rivals(d) = {d} THEN 0 ELSE Catalog!Cardinality({e \in Rivals(d) : e <= d})
<1>1. ASSUME NEW d \in found
      PROVE  [device |-> d, id |-> <<Catalog!Base(d, unread), Nth(d)>>] \in Catalog!Targets
  <2>1. {e \in Rivals(d) : e <= d} = {e \in Devices : e \in Rivals(d) /\ e <= d}
    OBVIOUS
  <2>2. Nth(d) \in Nat
    BY <2>1, PositionTyped
  <2>3. Catalog!Base(d, unread) \in {Model[e] : e \in Devices}
                                  \X ({Version[e] : e \in Devices} \union {"unread"})
    BY DEF Catalog!Base
  <2> HIDE DEF Nth
  <2> QED BY <2>2, <2>3 DEF Catalog!Targets, Catalog!Ids
<1>2. Catalog!MobileTargets(found, unread) = {[device |-> d, id |-> <<Catalog!Base(d,
    unread),
   Nth(d)>>] : d \in found}
  BY DEF Catalog!MobileTargets
<1> HIDE DEF Nth
<1> QED BY <1>1, <1>2

\* A list that is read has each phone whose id cannot have changed by its first id.
LEMMA FirstIdRead ==
  ASSUME Catalog!CatalogAssumption, TwinsStay, NEW found \in SUBSET Catalog!Ready,
         NEW unread, unread \subseteq found,
         NEW t \in Catalog!MobileTargets(found, unread),
         t.device \notin rivalled \union unread,
         t.device \notin found \intersect Catalog!Twins((Catalog!Ready \ found) \union unread)
  PROVE  t.id = FirstId(t.device)
<1> DEFINE missed == Catalog!Ready \ found
           Rivals(d) == {e \in found : Catalog!Base(e, unread) = Catalog!Base(d, unread)}
<1>1. PICK d \in found :
        t = [device |-> d, id |-> <<Catalog!Base(d, unread), IF Rivals(d) = {d} THEN 0
                                     ELSE Catalog!Cardinality({e \in Rivals(d) : e <= d})>>]
  BY DEF Catalog!MobileTargets
<1>2. /\ t.device = d /\ d \in Catalog!Ready /\ d \in found
      /\ d \notin rivalled /\ d \notin unread /\ d \notin Catalog!Twins(missed \union unread)
  BY <1>1
<1>3. Catalog!Base(d, unread) = Catalog!Base(d, {})
  BY <1>2 DEF Catalog!Base
<1>4. Rivals(d) = Kin(d)
  <2>1. ASSUME NEW e \in Devices, e # d
        PROVE  e \in Rivals(d) <=> e \in Kin(d)
    <3>1. CASE e \in missed \union unread
      <4>1. ~SameMake(e, d)
        BY <1>2, <2>1, <3>1 DEF SameMake, Catalog!Twins, Catalog!Ready
      <4>2. e \notin Kin(d)
        BY <2>1, <4>1 DEF Kin
      <4>3. CASE e \in missed
        BY <4>2, <4>3
      <4>4. CASE e \in unread
        <5>1. Version[d] # "unread"
          BY <1>2 DEF Catalog!CatalogAssumption, Catalog!Ready
        <5>2. Catalog!Base(e, unread) # Catalog!Base(d, unread)
          BY <1>2, <4>4, <5>1 DEF Catalog!Base
        <5> QED BY <4>2, <5>2
      <4> QED BY <3>1, <4>3, <4>4
    <3>2. CASE e \notin missed \union unread
      <4>1. Catalog!Base(e, unread) = Catalog!Base(d, unread) <=> SameMake(e, d)
        <5>1. Catalog!Base(e, unread) = Catalog!Base(e, {})
          BY <3>2 DEF Catalog!Base
        <5> QED BY <1>3, <5>1 DEF SameMake
      <4>2. e \in found <=> e \in Catalog!Ready
        BY <3>2
      <4>3. SameMake(e, d) => (e \in Catalog!Ready <=> e \in Present)
        BY <1>2, <2>1 DEF TwinsStay, Catalog!Ready
      <4> QED BY <2>1, <4>1, <4>2, <4>3 DEF Kin
    <3> QED BY <3>1, <3>2
  <2>2. d \in Rivals(d) /\ d \in Kin(d) /\ Rivals(d) \subseteq Devices /\ Kin(d) \subseteq Devices
    BY <1>2 DEF Kin, Catalog!Ready
  <2> QED BY <2>1, <2>2
<1> HIDE DEF Rivals
<1> QED BY <1>1, <1>2, <1>3, <1>4 DEF FirstId

\* The first check has not listed anything.
LEMMA InitCatInv == Catalog!CatalogAssumption /\ Catalog!Init => CatInv
<1> SUFFICES ASSUME Catalog!CatalogAssumption, Catalog!Init
             PROVE  CatInv
  OBVIOUS
<1>1. CatTyped
  <2>1. PhonesTyped
    BY DEF Catalog!Init, PhonesTyped
  <2>2. ListsTyped
    BY DEF Catalog!Init, ListsTyped, Catalog!Idle, Load
  <2>3. PageTyped
    BY DEF Catalog!Init, PageTyped
  <2>4. spent \in 0..MaxEvents
    BY DEF Catalog!Init, Catalog!CatalogAssumption
  <2> QED BY <2>1, <2>2, <2>3, <2>4 DEF CatTyped
<1>2. TwinsStay
  BY DEF Catalog!Init, TwinsStay
<1>3. IdsStay
  BY DEF Catalog!Init, IdsStay, OfFirstId, Catalog!Idle
<1> QED BY <1>1, <1>2, <1>3 DEF CatInv

\* The phones, and what is noted of them.
LEMMA PhonesTypes ==
  CatInv /\ [Catalog!Next]_(Catalog!vars) => PhonesTyped' /\ spent' \in 0..MaxEvents
<1> SUFFICES ASSUME CatInv, [Catalog!Next]_(Catalog!vars)
             PROVE  PhonesTyped' /\ spent' \in 0..MaxEvents
  OBVIOUS
<1>0. PhonesTyped /\ spent \in 0..MaxEvents /\ MaxEvents \in Nat
  BY DEF CatInv, CatTyped, Catalog!CatalogAssumption
<1>1. Catalog!Spend => spent' \in 0..MaxEvents
  BY <1>0 DEF Catalog!Spend
<1>2. ASSUME NEW d \in Devices, NEW state \in {"absent", "unauthorized", "bare", "ready"},
             Catalog!Change(d, state)
      PROVE  PhonesTyped' /\ Catalog!Spend
  BY <1>0, <1>2 DEF Catalog!Change, Catalog!Twins, PhonesTyped
<1>3. CASE Catalog!Check \/ Catalog!CheckFails
  <2>1. Catalog!Listing(plugged) \in [Devices -> {"absent", "unauthorized", "ready"}]
    BY <1>0 DEF PhonesTyped, Catalog!Listing
  <2> QED BY <1>0, <1>1, <1>3, <2>1 DEF Catalog!Check, Catalog!CheckFails, Catalog!CheckNow,
     PhonesTyped
<1>4. ASSUME NEW l \in PageLoads, Catalog!Inspect(l)
      PROVE  PhonesTyped' /\ spent' \in 0..MaxEvents
  BY <1>0, <1>1, <1>4 DEF Catalog!Inspect, Catalog!Reads, Catalog!Twins, Catalog!Ready, PhonesTyped
<1>5. CASE UNCHANGED <<plugged, seen, rivalled>> /\ (UNCHANGED spent \/ Catalog!Spend)
  BY <1>0, <1>1, <1>5 DEF PhonesTyped
<1>6. ASSUME NEW l \in PageLoads,
             \/ Catalog!List(l) \/ Catalog!Update(l) \/ Catalog!Show(l)
             \/ Catalog!Refresh(l) \/ Catalog!Mutate(l) \/ Catalog!AnswerIsLost(l)
      PROVE  UNCHANGED <<plugged, seen, rivalled>> /\ (UNCHANGED spent \/ Catalog!Spend)
  BY <1>6 DEF Catalog!List, Catalog!Update, Catalog!Show, Catalog!Refresh, Catalog!Mutate,
     Catalog!AnswerIsLost, Catalog!Refreshing
<1>7. CASE Catalog!Expire \/ Catalog!StreamDrops \/ Catalog!StreamConnects \/ UNCHANGED Catalog!vars
  BY <1>5, <1>7 DEF Catalog!Expire, Catalog!StreamDrops, Catalog!StreamConnects,
      Catalog!vars
<1>8. ASSUME NEW t, Catalog!StartSession(t) \/ Catalog!EndSession(t)
      PROVE  UNCHANGED <<plugged, seen, rivalled>> /\ UNCHANGED spent
  BY <1>8 DEF Catalog!StartSession, Catalog!EndSession
<1> QED BY <1>1, <1>2, <1>3, <1>4, <1>5, <1>6, <1>7, <1>8 DEF Catalog!Next,
    Catalog!LoadStep,
   Catalog!CatalogAssumption,
        CatInv

\* What the page shows and awaits.
LEMMA PageTypes == CatInv /\ [Catalog!Next]_(Catalog!vars) => PageTyped'
<1> SUFFICES ASSUME CatInv, [Catalog!Next]_(Catalog!vars)
             PROVE  PageTyped'
  OBVIOUS
<1>0. PageTyped /\ loads \in [PageLoads -> Load]
  BY DEF CatInv, CatTyped, ListsTyped
<1>1. CASE UNCHANGED page /\ blind' \in BOOLEAN
  BY <1>0, <1>1 DEF PageTyped
<1>2. ASSUME NEW d, NEW state, Catalog!Change(d, state)
      PROVE  UNCHANGED page /\ blind' \in BOOLEAN
  BY <1>0, <1>2 DEF Catalog!Change, PageTyped
<1>3. CASE Catalog!Check \/ Catalog!CheckFails
  BY <1>0, <1>3 DEF Catalog!Check, Catalog!CheckFails, Catalog!CheckNow,
     Catalog!NotifyEnvironmentChanged, Catalog!Publish, PageTyped
<1>4. CASE Catalog!StreamDrops \/ Catalog!StreamConnects
  BY <1>0, <1>4 DEF Catalog!StreamDrops, Catalog!StreamConnects, PageTyped
<1>5. ASSUME NEW l \in PageLoads, Catalog!Inspect(l) \/ Catalog!List(l) \/ Catalog!Update(l)
      PROVE  UNCHANGED page /\ blind' \in BOOLEAN
  BY <1>0, <1>5 DEF Catalog!Inspect, Catalog!Reads, Catalog!List, Catalog!Update, PageTyped
<1>6. ASSUME NEW l \in PageLoads, Catalog!Show(l)
      PROVE  PageTyped'
  <2>1. loads[l].found \in SUBSET Catalog!Targets
    BY <1>0 DEF Load
  <2> QED BY <1>0, <1>6, <2>1 DEF Catalog!Show, Catalog!Done, PageTyped
<1>7. ASSUME NEW l \in PageLoads,
   Catalog!Refresh(l) \/ Catalog!Mutate(l) \/ Catalog!AnswerIsLost(l)
      PROVE  PageTyped'
  BY <1>0, <1>7 DEF Catalog!Refresh, Catalog!Mutate, Catalog!AnswerIsLost,
      Catalog!Refreshing,
     Catalog!Done, PageTyped
<1>8. ASSUME NEW t, Catalog!StartSession(t) \/ Catalog!EndSession(t)
      PROVE  UNCHANGED page /\ blind' \in BOOLEAN
  BY <1>0, <1>8 DEF Catalog!StartSession, Catalog!EndSession, PageTyped
<1>9. CASE Catalog!Expire \/ UNCHANGED Catalog!vars
  BY <1>0, <1>9 DEF Catalog!Expire, Catalog!vars, PageTyped
<1> QED BY <1>1, <1>2, <1>3, <1>4, <1>5, <1>6, <1>7, <1>8, <1>9 DEF Catalog!Next,
    Catalog!LoadStep,
        Catalog!CatalogAssumption, CatInv

\* A load that is asked for has found nothing yet.
LEMMA AskedTyped ==
  ASSUME NEW of \in {"page", "client"}
  PROVE  Catalog!Asked(of) \in Load /\ Catalog!Asked(of).found = {}
BY DEF Catalog!Asked, Catalog!Idle, Load

\* How a step changes the lists: they are replaced by what was listed, or read anew.
ListsStep ==
  /\ rivalled \subseteq rivalled'
  /\ cache' \in {cache, None} \union {loads[l].found : l \in PageLoads}
  /\ loads' \in [PageLoads -> Load]
  /\ \A l \in PageLoads : loads'[l].found \in {loads[l].found, {}}
  /\ \A t \in sessions' : t \in sessions \/ (cache # None /\ t \in cache)

\* So the lists keep their types, and the ids.
LEMMA ListsStepKeeps ==
  ASSUME CatInv, ListsStep
  PROVE  ListsTyped' /\ IdsStay'
<1>1. ListsTyped /\ IdsStay
  BY DEF CatInv, CatTyped
<1>2. \A l \in PageLoads : loads[l].found \in SUBSET Catalog!Targets
  BY <1>1 DEF ListsTyped, Load
<1>3. \A targets : OfFirstId(targets) => OfFirstId(targets)'
  BY DEF ListsStep, OfFirstId
<1>4. ListsTyped'
  BY <1>1, <1>2 DEF ListsStep, ListsTyped
<1>5. IdsStay'
  BY <1>1 DEF ListsStep, IdsStay, OfFirstId
<1> QED BY <1>4, <1>5

\* Only Inspect reads the phones.
LEMMA HowListsChange ==
  ASSUME CatInv, [Catalog!Next]_(Catalog!vars)
  PROVE  ListsStep \/ \E l \in PageLoads : Catalog!Inspect(l)
<1>0. loads \in [PageLoads -> Load]
  BY DEF CatInv, CatTyped, ListsTyped
<1>2. ASSUME UNCHANGED <<loads, sessions>>, cache' \in {cache, None},
             rivalled \subseteq rivalled'
      PROVE  ListsStep
  BY <1>0, <1>2 DEF ListsStep
<1>3. ASSUME NEW d, NEW state, Catalog!Change(d, state)
      PROVE  ListsStep
  <2>1. rivalled \subseteq rivalled' /\ UNCHANGED <<cache, loads, sessions>>
    BY <1>3 DEF Catalog!Change
  <2>2. cache' \in {cache, None}
    BY <2>1
  <2> QED BY <1>2, <2>1, <2>2
<1>4. CASE \/ Catalog!Check \/ Catalog!CheckFails \/ Catalog!Expire
           \/ Catalog!StreamDrops \/ Catalog!StreamConnects \/ UNCHANGED Catalog!vars
  BY <1>2, <1>4 DEF Catalog!Check, Catalog!CheckFails, Catalog!CheckNow,
     Catalog!NotifyEnvironmentChanged, Catalog!Expire, Catalog!StreamDrops,
     Catalog!StreamConnects, Catalog!vars
<1>5. ASSUME NEW l \in PageLoads, Catalog!List(l) \/ Catalog!Refresh(l) \/ Catalog!Mutate(l)
      PROVE  ListsStep
  <2>1. PICK of \in {"page", "client"} : loads' = [loads EXCEPT ![l] = Catalog!Asked(of)]
    BY <1>5 DEF Catalog!List, Catalog!Refresh, Catalog!Mutate, Catalog!Refreshing
  <2>2. UNCHANGED <<cache, sessions, rivalled>>
    BY <1>5 DEF Catalog!List, Catalog!Refresh, Catalog!Mutate, Catalog!Refreshing
  <2> QED BY <1>0, <2>1, <2>2, AskedTyped DEF ListsStep
<1>6. ASSUME NEW l \in PageLoads, Catalog!Update(l)
      PROVE  ListsStep
  <2>1. UNCHANGED <<sessions, rivalled>> /\ cache' = loads[l].found
    BY <1>6 DEF Catalog!Update
  <2>2. loads' = [loads EXCEPT ![l] = loads'[l]]
        /\ loads'[l] \in {[loads[l] EXCEPT !.at = "sent"], Catalog!Idle}
    BY <1>0, <1>6 DEF Catalog!Update
  <2>3. [loads[l] EXCEPT !.at = "sent"] \in Load /\ Catalog!Idle \in Load
    BY <1>0 DEF Load, Catalog!Idle
  <2>4. [loads[l] EXCEPT !.at = "sent"].found = loads[l].found /\ Catalog!Idle.found = {}
    BY <1>0 DEF Load, Catalog!Idle
  <2> QED BY <1>0, <2>1, <2>2, <2>3, <2>4 DEF ListsStep
<1>7. ASSUME NEW l \in PageLoads, Catalog!Show(l) \/ Catalog!AnswerIsLost(l)
      PROVE  ListsStep
  <2>1. UNCHANGED <<cache, sessions, rivalled>>
    BY <1>7 DEF Catalog!Show, Catalog!AnswerIsLost
  <2>2. Catalog!Idle \in Load /\ Catalog!Idle.found = {}
    BY DEF Load, Catalog!Idle
  <2>3. \A o \in PageLoads : /\ [loads[o] EXCEPT !.order = "late"] \in Load
                             /\ [loads[o] EXCEPT !.order = "late"].found = loads[o].found
    BY <1>0 DEF Load
  <2>4. /\ loads' = [o \in PageLoads |-> loads'[o]]
        /\ \A o \in PageLoads : loads'[o] \in {Catalog!Idle, loads[o],
           [loads[o] EXCEPT !.order = "late"]}
    BY <1>0, <1>7 DEF Catalog!Show, Catalog!AnswerIsLost
  <2> QED BY <1>0, <2>1, <2>2, <2>3, <2>4 DEF ListsStep
<1>8. ASSUME NEW t,
             (cache # None /\ t \in cache /\ Catalog!StartSession(t)) \/ Catalog!EndSession(t)
      PROVE  ListsStep
  BY <1>0, <1>8 DEF Catalog!StartSession, Catalog!EndSession, ListsStep
<1> QED BY <1>2, <1>3, <1>4, <1>5, <1>6, <1>7, <1>8 DEF Catalog!Next,
    Catalog!LoadStep,
   Catalog!CatalogAssumption,
        CatInv

LEMMA StepLists ==
  ASSUME CatInv, [Catalog!Next]_(Catalog!vars)
  PROVE  ListsTyped' /\ IdsStay'
<1>0. loads \in [PageLoads -> Load]
  BY DEF CatInv, CatTyped, ListsTyped
<1>1. ASSUME NEW l \in PageLoads, Catalog!Inspect(l)
      PROVE  ListsTyped' /\ IdsStay'
  <2>1. PICK found \in SUBSET Catalog!Ready, unread \in SUBSET Flaky :
          /\ unread \subseteq found
          /\ loads' = [o \in PageLoads |->
                   IF o = l
                   THEN [loads[l] EXCEPT !.at = "read",
                       !.found = Catalog!MobileTargets(found, unread)]
                   ELSE IF /\ Catalog!Shown(l) /\ Catalog!Shown(o)
                           /\ loads[o].at # "asked" /\ loads[o].order = "newest"
                   THEN [loads[o] EXCEPT !.order = "older"] ELSE loads[o]]
          /\ rivalled' = rivalled \union unread
               \union (found \intersect Catalog!Twins((Catalog!Ready \ found) \union unread))
          /\ UNCHANGED <<cache, sessions>>
    <3>1. PICK found \in SUBSET Catalog!Ready, unread \in SUBSET Flaky :
            unread \subseteq found /\ Catalog!Reads(l, found, unread)
      BY <1>1, Zenon DEF Catalog!Inspect
    <3> QED BY <3>1 DEF Catalog!Reads
  <2> DEFINE read == [loads[l] EXCEPT !.at = "read", !.found = Catalog!MobileTargets(found,
     unread)]
  <2>2. Catalog!MobileTargets(found, unread) \in SUBSET Catalog!Targets
    <3>1. Catalog!Ready \subseteq Devices
      BY DEF Catalog!Ready
    <3>2. found \in SUBSET Devices /\ unread \in SUBSET Devices
      BY <2>1, <3>1
    <3> QED BY <3>2, TargetsTyped DEF CatInv
  <2>3. read \in Load /\ read.found = Catalog!MobileTargets(found, unread)
    BY <1>0, <2>2 DEF Load
  <2>4. OfFirstId(Catalog!MobileTargets(found, unread))'
    <3> SUFFICES ASSUME NEW t \in Catalog!MobileTargets(found, unread),
        t.device \notin rivalled'
                 PROVE  t.id = FirstId(t.device)
      BY <2>1 DEF OfFirstId
    <3>1. /\ t.device \notin rivalled \union unread
          /\ t.device \notin found
                             \intersect Catalog!Twins((Catalog!Ready \ found) \union unread)
      BY <2>1
    <3>2. Catalog!CatalogAssumption /\ TwinsStay /\ found \in SUBSET Catalog!Ready
          /\ unread \subseteq found
      BY <2>1 DEF CatInv
    <3> QED BY <3>1, <3>2, FirstIdRead
  <2>5. \A o \in PageLoads : /\ [loads[o] EXCEPT !.order = "older"] \in Load
                             /\ [loads[o] EXCEPT !.order = "older"].found = loads[o].found
    BY <1>0 DEF Load
  <2>6. /\ loads' = [o \in PageLoads |-> loads'[o]] /\ loads'[l] = read
        /\ \A o \in PageLoads \ {l} : loads'[o] \in {loads[o],
            [loads[o] EXCEPT !.order = "older"]}
    BY <2>1
  <2> HIDE DEF read
  <2>7. loads' \in [PageLoads -> Load]
    BY <1>0, <2>3, <2>5, <2>6
  <2>8. \A o \in PageLoads \ {l} : loads'[o].found = loads[o].found
    BY <2>5, <2>6
  <2>9. ListsTyped'
    BY <2>1, <2>7 DEF ListsTyped, CatInv, CatTyped
  <2>10. \A targets : OfFirstId(targets) => OfFirstId(targets)'
    BY <2>1 DEF OfFirstId
  <2>11. IdsStay'
    BY <2>1, <2>3, <2>4, <2>6, <2>8, <2>10 DEF IdsStay, CatInv
  <2> QED BY <2>9, <2>11
<1> QED BY <1>1, HowListsChange, ListsStepKeeps

\* A phone of the same make that comes or goes is noted.
LEMMA StepTwins ==
  ASSUME CatInv, [Catalog!Next]_(Catalog!vars)
  PROVE  TwinsStay'
<1>0. TwinsStay /\ PhonesTyped
  BY DEF CatInv, CatTyped
<1>1. ASSUME NEW d \in Devices, NEW state \in {"absent", "unauthorized", "bare", "ready"},
             Catalog!Change(d, state)
      PROVE  TwinsStay'
  <2> SUFFICES ASSUME NEW f \in Devices \ rivalled', NEW e \in Devices, e # f,
      SameMake(e, f)
               PROVE  plugged'[e] = "ready" <=> e \in Present
    BY DEF TwinsStay
  <2>1. /\ plugged' = [plugged EXCEPT ![d] = state]
        /\ rivalled' = IF "ready" \in {state,
           plugged[d]} THEN rivalled \union Catalog!Twins({d}) ELSE rivalled
    BY <1>1 DEF Catalog!Change
  <2>2. f \notin rivalled
    BY <2>1
  <2>3. plugged[e] = "ready" <=> e \in Present
    BY <1>0, <2>2 DEF TwinsStay
  <2>4. CASE e # d
    BY <1>0, <2>1, <2>3, <2>4 DEF PhonesTyped
  <2>5. CASE e = d
    <3>1. f \in Catalog!Twins({d})
      BY <2>5 DEF Catalog!Twins, SameMake
    <3>2. "ready" \notin {state, plugged[d]}
      BY <2>1, <3>1
    <3> QED BY <1>0, <2>1, <2>3, <2>5, <3>2 DEF PhonesTyped
  <2> QED BY <2>4, <2>5
<1>2. CASE UNCHANGED plugged /\ rivalled \subseteq rivalled'
  BY <1>0, <1>2 DEF TwinsStay
<1>3. ASSUME NEW l \in PageLoads,
             \/ Catalog!Inspect(l) \/ Catalog!List(l) \/ Catalog!Update(l) \/ Catalog!Show(l)
             \/ Catalog!Refresh(l) \/ Catalog!Mutate(l)
             \/ Catalog!AnswerIsLost(l)
      PROVE  UNCHANGED plugged /\ rivalled \subseteq rivalled'
  BY <1>3 DEF Catalog!Inspect, Catalog!Reads, Catalog!List, Catalog!Update,
     Catalog!Show, Catalog!Refresh,
     Catalog!Mutate, Catalog!AnswerIsLost, Catalog!Refreshing
<1>4. CASE \/ Catalog!Check \/ Catalog!CheckFails \/ Catalog!Expire
           \/ Catalog!StreamDrops \/ Catalog!StreamConnects \/ UNCHANGED Catalog!vars
  BY <1>2, <1>4 DEF Catalog!Check, Catalog!CheckFails, Catalog!CheckNow, Catalog!Expire,
     Catalog!StreamDrops, Catalog!StreamConnects, Catalog!vars
<1>5. ASSUME NEW t, Catalog!StartSession(t) \/ Catalog!EndSession(t)
      PROVE  UNCHANGED plugged /\ rivalled \subseteq rivalled'
  BY <1>5 DEF Catalog!StartSession, Catalog!EndSession
<1> QED BY <1>1, <1>2, <1>3, <1>4, <1>5 DEF Catalog!Next, Catalog!LoadStep,
   Catalog!CatalogAssumption, CatInv

\* Every step keeps all of it.
LEMMA StepCatInv == CatInv /\ [Catalog!Next]_(Catalog!vars) => CatInv'
BY PhonesTypes, PageTypes, StepLists, StepTwins DEF CatInv, CatTyped

\* An id that cannot have changed is the first one, in the cache, in answers and for sessions.
LEMMA CatInductive == Catalog!CatalogAssumption => (Catalog!Spec => []CatInv)
BY InitCatInv, StepCatInv, PTL DEF Catalog!Spec

\* The catalog (target-catalog-service.ts, android-device-monitor.ts) and the page that shows it
\* keep their types, with any number of phones and requests.
THEOREM CatalogTypeCorrect ==
  ASSUME Catalog!CatalogAssumption
  PROVE  Catalog!Spec => []Catalog!TypeOK
<1>1. ASSUME CatInv
      PROVE  Catalog!TypeOK
  <2>1. PhonesTyped /\ PageTyped /\ ListsTyped /\ spent \in 0..MaxEvents
    BY <1>1 DEF CatInv, CatTyped
  <2>2. cache \in (SUBSET Catalog!Targets) \union {None}
    BY <2>1 DEF ListsTyped
  <2> QED BY <2>1, <2>2 DEF PhonesTyped, PageTyped, ListsTyped, Load, Catalog!TypeOK
<1> QED BY <1>1, CatInductive, PTL

\* With any number of phones of any names and versions, and whatever queries of theirs fail, two
\* sessions use one phone only if its version could not be read, or another of its name and
\* version came or went or was left out of a list or listed without its version: the id names
\* the lock, and stands for one phone as long as that has not happened
\* (target-catalog-service.ts:209, android-device-service.ts:255, session-manager.ts:92).
THEOREM CatalogSessions ==
  ASSUME Catalog!CatalogAssumption
  PROVE  Catalog!Spec => []Catalog!OneSessionUnlessRivalled
<1>1. ASSUME CatInv PROVE Catalog!OneSessionUnlessRivalled
  <2> SUFFICES ASSUME NEW s \in sessions, NEW t \in sessions, s # t, s.device = t.device,
                      s.device \notin rivalled
               PROVE  FALSE
    BY DEF Catalog!OneSessionUnlessRivalled
  <2>1. s.id = t.id
    BY <1>1 DEF CatInv, IdsStay, OfFirstId
  <2>2. s \in [device : Devices, id : Catalog!Ids] /\ t \in [device : Devices,
      id : Catalog!Ids]
    BY <1>1 DEF CatInv, CatTyped, ListsTyped, Catalog!Targets
  <2> QED BY <2>1, <2>2
<1> QED BY <1>1, CatInductive, PTL

-----
\* No two targets of a list answer to the same id.
NoneAlike(targets) == \A s, t \in targets : s.id = t.id => s = t

\* What the requests have found, what is in the cache, what the page shows and what is locked.
IdsAreClear ==
  /\ cache # None => NoneAlike(cache)
  /\ \A l \in PageLoads : NoneAlike(loads[l].found)
  /\ NoneAlike(page.shown)
  /\ NoneAlike(sessions)

\* Of two phones that are numbered together the one with the greater serial number has the
\* greater number.
LEMMA NumbersApart ==
  ASSUME Catalog!CatalogAssumption, NEW R \in SUBSET Devices, NEW d \in R, NEW e \in R, d < e
  PROVE  Catalog!Cardinality({f \in R : f <= d}) # Catalog!Cardinality({f \in R : f <= e})
<1> DEFINE D == {f \in R : f <= d}
           E == {f \in R : f <= e}
<1>1. \A f \in R : f \in Nat
  BY DEF Catalog!CatalogAssumption
<1>2. D \subseteq E /\ e \in E /\ e \notin D
  <2>1. d \in Nat /\ e \in Nat
    BY <1>1
  <2>2. ASSUME NEW f \in D
        PROVE  f \in E
    <3>1. f \in Nat /\ f \in R /\ f <= d
      BY <1>1
    <3> QED BY <2>1, <3>1
  <2>3. e \in E /\ e \notin D
    BY <2>1
  <2> QED BY <2>2, <2>3
<1>3. IsFiniteSet(E)
  <2>1. ASSUME NEW f \in E
        PROVE  f \in 0..e
    <3>1. f \in Nat /\ e \in Nat /\ f <= e
      BY <1>1
    <3> QED BY <3>1
  <2>2. E \subseteq 0..e
    BY <2>1
  <2>3. IsFiniteSet(0..e)
    BY <1>1, FS_Interval
  <2> QED BY <2>2, <2>3, FS_Subset
<1> HIDE DEF D, E
<1>4. Cardinality(E) # Cardinality(D)
  BY <1>2, <1>3, FS_Subset
<1> QED BY <1>4, CatalogCounts DEF D, E

\* mobileTargets() gives each phone an id of its own, whichever versions could not be read.
LEMMA IdsApart ==
  ASSUME Catalog!CatalogAssumption, NEW found \in SUBSET Devices, NEW unread
  PROVE  NoneAlike(Catalog!MobileTargets(found, unread))
<1> DEFINE Rivals(d) == {e \in found : Catalog!Base(e, unread) = Catalog!Base(d, unread)}
           Nth(d) == IF Rivals(d) = {d} THEN 0 ELSE Catalog!Cardinality({e \in Rivals(d) : e <= d})
           Target(d) == [device |-> d, id |-> <<Catalog!Base(d, unread), Nth(d)>>]
<1>1. Catalog!MobileTargets(found, unread) = {Target(d) : d \in found}
  BY DEF Catalog!MobileTargets
<1>2. ASSUME NEW d \in found, NEW e \in found, Target(d).id = Target(e).id, d # e
      PROVE  FALSE
  <2>1. Catalog!Base(d, unread) = Catalog!Base(e, unread) /\ Nth(d) = Nth(e)
    BY <1>2
  <2>2. Rivals(d) = Rivals(e) /\ Rivals(d) # {d} /\ Rivals(e) # {e}
    BY <1>2, <2>1
  <2> DEFINE R == Rivals(d)
  <2>3. R \in SUBSET Devices /\ d \in R /\ e \in R /\ d \in Nat /\ e \in Nat
    BY <2>1 DEF Catalog!CatalogAssumption
  <2>4. Catalog!Cardinality({f \in R : f <= d}) = Catalog!Cardinality({f \in R : f <= e})
    BY <2>1, <2>2
  <2> HIDE DEF R
  <2>5. d < e \/ e < d
    BY <1>2, <2>3
  <2> QED BY <2>3, <2>4, <2>5, NumbersApart
<1> HIDE DEF Nth
<1> QED BY <1>1, <1>2 DEF NoneAlike

\* The page shows what it was sent.
LEMMA ShownStep ==
  ASSUME CatInv, [Catalog!Next]_(Catalog!vars)
  PROVE  page'.shown \in {page.shown} \union {loads[l].found : l \in PageLoads}
<1>0. page \in [shown : SUBSET Catalog!Targets, timer : BOOLEAN, connected : BOOLEAN,
                mutation : PageLoads \union {None}]
  BY DEF CatInv, CatTyped, PageTyped
<1>1. CASE UNCHANGED page
  BY <1>1
<1>2. CASE Catalog!Check \/ Catalog!CheckFails \/ Catalog!StreamDrops \/ Catalog!StreamConnects
  BY <1>0, <1>2 DEF Catalog!Check, Catalog!CheckFails, Catalog!CheckNow,
     Catalog!NotifyEnvironmentChanged, Catalog!Publish, Catalog!StreamDrops,
     Catalog!StreamConnects
<1>3. ASSUME NEW l \in PageLoads, Catalog!Refresh(l) \/ Catalog!Mutate(l) \/ Catalog!AnswerIsLost(l)
      PROVE  page'.shown = page.shown
  BY <1>0, <1>3 DEF Catalog!Refresh, Catalog!Mutate, Catalog!AnswerIsLost
<1>4. ASSUME NEW l \in PageLoads, Catalog!Show(l)
      PROVE  page'.shown = loads[l].found
  BY <1>0, <1>4 DEF Catalog!Show
<1> QED BY <1>1, <1>2, <1>3, <1>4
     DEF Catalog!Next, Catalog!LoadStep, Catalog!CatalogAssumption, CatInv, Catalog!Change,
         Catalog!Expire, Catalog!List, Catalog!Inspect, Catalog!Reads, Catalog!Update,
         Catalog!StartSession,
         Catalog!EndSession, Catalog!vars

\* A lock is taken by one session.
LEMMA LocksApart ==
  ASSUME CatInv, NoneAlike(sessions), [Catalog!Next]_(Catalog!vars)
  PROVE  NoneAlike(sessions')
<1>1. ASSUME NEW t, Catalog!StartSession(t) \/ Catalog!EndSession(t)
      PROVE  NoneAlike(sessions')
  BY <1>1 DEF Catalog!StartSession, Catalog!EndSession, NoneAlike
<1>2. CASE UNCHANGED sessions
  BY <1>2
<1> QED BY <1>1, <1>2
     DEF Catalog!Next, Catalog!LoadStep, Catalog!CatalogAssumption, CatInv, Catalog!Change,
         Catalog!Check, Catalog!CheckFails, Catalog!CheckNow, Catalog!Expire, Catalog!StreamDrops,
         Catalog!StreamConnects, Catalog!List, Catalog!Inspect, Catalog!Reads,
         Catalog!Update, Catalog!Show,
         Catalog!Refresh, Catalog!Mutate, Catalog!Refreshing, Catalog!AnswerIsLost, Catalog!vars

LEMMA ClearStep == CatInv /\ IdsAreClear /\ [Catalog!Next]_(Catalog!vars) => IdsAreClear'
<1> SUFFICES ASSUME CatInv, IdsAreClear, [Catalog!Next]_(Catalog!vars)
             PROVE  IdsAreClear'
  OBVIOUS
<1>1. NoneAlike(sessions') /\ NoneAlike(page'.shown)
  BY LocksApart, ShownStep DEF IdsAreClear
<1>2. CASE ListsStep
  <2>1. NoneAlike({})
    BY DEF NoneAlike
  <2>2. \A l \in PageLoads : NoneAlike(loads'[l].found)
    BY <1>2, <2>1 DEF ListsStep, IdsAreClear
  <2>3. cache' # None => NoneAlike(cache')
    BY <1>2 DEF ListsStep, IdsAreClear
  <2> QED BY <1>1, <2>2, <2>3 DEF IdsAreClear, NoneAlike
<1>3. ASSUME NEW l \in PageLoads, Catalog!Inspect(l)
      PROVE  IdsAreClear'
  <2>0. loads \in [PageLoads -> Load]
    BY DEF CatInv, CatTyped, ListsTyped
  <2>1. PICK found \in SUBSET Devices, unread \in SUBSET Devices :
          /\ loads'[l].found = Catalog!MobileTargets(found, unread)
          /\ \A o \in PageLoads \ {l} : loads'[o].found = loads[o].found
          /\ UNCHANGED cache
    <3>1. PICK found \in SUBSET Catalog!Ready, unread \in SUBSET Flaky :
            /\ unread \subseteq found
            /\ loads' = [o \in PageLoads |->
                     IF o = l
                     THEN [loads[l] EXCEPT !.at = "read",
                                           !.found = Catalog!MobileTargets(found, unread)]
                     ELSE IF /\ Catalog!Shown(l) /\ Catalog!Shown(o)
                             /\ loads[o].at # "asked" /\ loads[o].order = "newest"
                     THEN [loads[o] EXCEPT !.order = "older"] ELSE loads[o]]
            /\ UNCHANGED cache
      <4>1. PICK found \in SUBSET Catalog!Ready, unread \in SUBSET Flaky :
              unread \subseteq found /\ Catalog!Reads(l, found, unread)
        BY <1>3, Zenon DEF Catalog!Inspect
      <4> QED BY <4>1 DEF Catalog!Reads
    <3>2. Catalog!Ready \subseteq Devices
      BY DEF Catalog!Ready
    <3>3. loads'[l].found = Catalog!MobileTargets(found, unread)
      BY <2>0, <3>1 DEF Load
    <3>4. \A o \in PageLoads \ {l} : loads'[o].found = loads[o].found
      BY <2>0, <3>1 DEF Load
    <3> QED BY <3>1, <3>2, <3>3, <3>4
  <2>2. NoneAlike(loads'[l].found)
    BY <2>1, IdsApart DEF CatInv
  <2>3. \A o \in PageLoads : NoneAlike(loads'[o].found)
    BY <2>1, <2>2 DEF IdsAreClear
  <2>4. cache' # None => NoneAlike(cache')
    BY <2>1 DEF IdsAreClear
  <2> QED BY <1>1, <2>3, <2>4 DEF IdsAreClear, NoneAlike
<1> QED BY <1>2, <1>3, HowListsChange

\* An id means one phone: in every answer, in the cache by which sessions are started, and on
\* the page, even while phones of one make come and go and what they are asked fails
\* (target-catalog-service.ts:209); and of each id one lock is held.  What can go wrong is
\* that the id means another phone later (OneSessionUnlessRivalled).
THEOREM CatalogIdsClear ==
  ASSUME Catalog!CatalogAssumption
  PROVE  Catalog!Spec => []IdsAreClear
<1>1. Catalog!Init => IdsAreClear
  BY DEF Catalog!Init, Catalog!Idle, IdsAreClear, NoneAlike
<1> QED BY <1>1, ClearStep, CatInductive, PTL DEF Catalog!Spec

-------------------------------------------------------------------------------
(***************************************************************************)
(* The recordings of a session, on their way from the testbench to the     *)
(* client: no directory is forgotten but by an overwritten entry, closing  *)
(* the session removes them all, and as long as nothing fails each stop()  *)
(* delivers the last recording.                                            *)
(***************************************************************************)
CONSTANT MaxRecordings

VARIABLES session, rec, last, directory, artifacts, disk, client, output, memo, pending, file,
  claimed, interrupted, lost, late, spoiled

Transfer == INSTANCE RecordingTransfer

\* A directory on the disk is an artifact, the session's entry, or that of a start that
\* has not been answered; otherwise its entry was overwritten.
Accounted ==
  disk \subseteq artifacts \union {directory} \union lost \union late
                 \union {r \in Transfer!Recordings : rec[r] = "starting"}

\* What is registered when the client has closed the session was registered afterwards.
OnlyLateOnes ==
  session = "gone" => artifacts \union ({directory} \ {Transfer!None}) \subseteq late

\* In the session's time an entry is overwritten after a stop() that failed over the geometry.
LostForReason == lost \subseteq spoiled

\* As long as the session lasts, an entry is that of the active recording, or of one that
\* such a stop() has ended.
EntryInUse ==
  session \in {"live", "closing", "expiring"} /\ directory # Transfer!None =>
    rec[directory] \in Transfer!Active \/ directory \in spoiled

\* An artifact that is to be downloaded has a path to go to.
PathKnown == pending # Transfer!None \/ client = "downloading" => output # Transfer!None

TransferInv ==
  /\ Transfer!TypeOK
  /\ Accounted /\ OnlyLateOnes /\ LostForReason /\ EntryInUse /\ PathKnown

LEMMA NoneIsNoRecording == Transfer!None \notin Transfer!Recordings
BY DEF Transfer!None, Transfer!Recordings

LEMMA InitTransferInv == Transfer!TransferAssumption /\ Transfer!Init => TransferInv
<1> SUFFICES ASSUME Transfer!TransferAssumption, Transfer!Init
             PROVE  TransferInv
  OBVIOUS
<1> USE DEF Transfer!Init
<1>1. Transfer!TypeOK
  <2>1. faults \in 0..MaxFaults
    BY DEF Transfer!TransferAssumption
  <2> QED BY <2>1 DEF Transfer!TypeOK
<1>2. Accounted
  BY DEF Accounted
<1>3. OnlyLateOnes /\ LostForReason /\ EntryInUse /\ PathKnown
  BY DEF OnlyLateOnes, LostForReason, EntryInUse, PathKnown
<1> QED BY <1>1, <1>2, <1>3 DEF TransferInv

\* A failure that is counted keeps to the bound.
LEMMA TransferFaultCounts ==
  ASSUME Transfer!TransferAssumption, Transfer!TypeOK, Transfer!Fault
  PROVE  faults' \in 0..MaxFaults
BY DEF Transfer!TransferAssumption, Transfer!TypeOK, Transfer!Fault

LEMMA TransferTypeStep ==
  ASSUME Transfer!TransferAssumption, Transfer!TypeOK, PathKnown, Transfer!Next
  PROVE  Transfer!TypeOK'
<1> USE TransferFaultCounts DEF Transfer!TypeOK, Transfer!Active, Transfer!Fault
<1>1. ASSUME NEW r \in Transfer!Recordings, Transfer!Start(r)
      PROVE  Transfer!TypeOK'
  BY <1>1 DEF Transfer!Start, Transfer!history
<1>2. ASSUME NEW r \in Transfer!Recordings, Transfer!NotStarted(r)
      PROVE  Transfer!TypeOK'
  BY <1>2 DEF Transfer!NotStarted
<1>3. ASSUME NEW r \in Transfer!Recordings, Transfer!HostStarts(r)
      PROVE  Transfer!TypeOK'
  BY <1>3 DEF Transfer!HostStarts, Transfer!Registered, Transfer!Acknowledged
<1>4. ASSUME NEW r \in Transfer!Recordings, Transfer!Finalize(r)
      PROVE  Transfer!TypeOK'
  <2>1. CASE rec' = [rec EXCEPT ![r] = "final"]
    BY <1>4, <2>1 DEF Transfer!Finalize, Transfer!library
  <2>2. CASE rec' = [rec EXCEPT ![r] = "broken"]
    <3>1. rec' \in [Transfer!Recordings -> {"none", "starting", "ended"} \union Transfer!Active]
      BY <2>2
    <3>2. faults' \in 0..MaxFaults /\ interrupted' \in BOOLEAN
      BY <1>4, <2>2 DEF Transfer!Finalize
    <3> QED BY <1>4, <3>1, <3>2 DEF Transfer!Finalize, Transfer!library
  <2> QED BY <1>4, <2>1, <2>2 DEF Transfer!Finalize
<1>5. ASSUME NEW r \in Transfer!Recordings, Transfer!FinishDone(r)
      PROVE  Transfer!TypeOK'
  <2>1. CASE directory # Transfer!None
    BY <1>5, <2>1 DEF Transfer!FinishDone, Transfer!Answered
  <2>2. CASE directory = Transfer!None
    BY <1>5, <2>2 DEF Transfer!FinishDone, Transfer!AnsweredWithout
  <2> QED BY <2>1, <2>2
<1>6. ASSUME NEW r \in Transfer!Recordings, Transfer!FinishFails(r)
      PROVE  Transfer!TypeOK'
  BY <1>6 DEF Transfer!FinishFails
<1>7. CASE Transfer!Stop \/ Transfer!StopAgain
  BY <1>7 DEF Transfer!Stop, Transfer!StopAgain, Transfer!host, Transfer!library, Transfer!history
<1>8. CASE Transfer!FinishExisting
  BY <1>8 DEF Transfer!FinishExisting, Transfer!Answered, Transfer!host
<1>9. CASE Transfer!FinishStops
  BY <1>9 DEF Transfer!FinishStops, Transfer!history
<1>10. CASE Transfer!FinishRefused \/ Transfer!FinishMeasureFails \/ Transfer!Abort
  BY <1>10 DEF Transfer!FinishRefused, Transfer!FinishMeasureFails, Transfer!Abort, Transfer!host
<1>11. CASE Transfer!Download
  BY <1>11 DEF Transfer!Download, PathKnown
<1>12. CASE Transfer!DownloadFails
  BY <1>12 DEF Transfer!DownloadFails
<1>13. CASE Transfer!Close
  BY <1>13 DEF Transfer!Close, Transfer!library, Transfer!history
<1>14. CASE Transfer!Closed \/ Transfer!CloseAgain
  BY <1>14 DEF Transfer!Closed, Transfer!CloseAgain, Transfer!CleanUp, Transfer!library,
     Transfer!history
<1>15. CASE Transfer!FinishLast
  BY <1>15 DEF Transfer!FinishLast, Transfer!AnsweredWithout, Transfer!host
<1>16. CASE Transfer!ForeignDelete
  BY <1>16 DEF Transfer!ForeignDelete, Transfer!CleanUp, Transfer!library
<1> QED BY <1>1, <1>2, <1>3, <1>4, <1>5, <1>6, <1>7, <1>8, <1>9, <1>10, <1>11, <1>12,
           <1>13, <1>14, <1>15, <1>16 DEF Transfer!Next

LEMMA TransferRegistryStep ==
  ASSUME TransferInv, Transfer!Next
  PROVE  (Accounted /\ OnlyLateOnes /\ LostForReason /\ EntryInUse /\ PathKnown)'
<1> DEFINE Registry == Accounted /\ OnlyLateOnes /\ LostForReason /\ EntryInUse /\ PathKnown
<1> SUFFICES Registry'
  OBVIOUS
<1> USE NoneIsNoRecording DEF TransferInv, Transfer!TypeOK, Accounted, OnlyLateOnes, LostForReason,
    EntryInUse, PathKnown, Transfer!Active, Transfer!Fault
<1>1. ASSUME NEW r \in Transfer!Recordings, Transfer!Start(r)
      PROVE  Registry'
  BY <1>1 DEF Transfer!Start, Transfer!history
<1>2. ASSUME NEW r \in Transfer!Recordings, Transfer!NotStarted(r)
      PROVE  Registry'
  BY <1>2 DEF Transfer!NotStarted
<1>3. ASSUME NEW r \in Transfer!Recordings, Transfer!HostStarts(r)
      PROVE  Registry'
  BY <1>3 DEF Transfer!HostStarts, Transfer!Registered, Transfer!Acknowledged,
     Transfer!NoActiveVideo, Transfer!Outlived
<1>4. ASSUME NEW r \in Transfer!Recordings, Transfer!Finalize(r)
      PROVE  Registry'
  BY <1>4 DEF Transfer!Finalize, Transfer!library
<1>5. ASSUME NEW r \in Transfer!Recordings, Transfer!FinishDone(r)
      PROVE  Registry'
  BY <1>5 DEF Transfer!FinishDone, Transfer!Answered, Transfer!AnsweredWithout
<1>6. ASSUME NEW r \in Transfer!Recordings, Transfer!FinishFails(r)
      PROVE  Registry'
  BY <1>6 DEF Transfer!FinishFails
<1>7. CASE \/ Transfer!Stop \/ Transfer!StopAgain \/ Transfer!FinishExisting
           \/ Transfer!FinishRefused \/ Transfer!FinishMeasureFails
           \/ Transfer!FinishLast \/ Transfer!Abort
  BY <1>7 DEF Transfer!Stop, Transfer!StopAgain, Transfer!FinishExisting, Transfer!FinishRefused,
     Transfer!FinishMeasureFails, Transfer!FinishLast, Transfer!Abort, Transfer!Answered,
     Transfer!AnsweredWithout, Transfer!host, Transfer!library, Transfer!history
<1>8. CASE Transfer!FinishStops \/ Transfer!Close
  BY <1>8 DEF Transfer!FinishStops, Transfer!Close, Transfer!library, Transfer!history
<1>9. CASE Transfer!Download \/ Transfer!DownloadFails
  BY <1>9 DEF Transfer!Download, Transfer!DownloadFails
<1>10. CASE Transfer!Closed \/ Transfer!CloseAgain
  BY <1>10 DEF Transfer!Closed, Transfer!CloseAgain, Transfer!CleanUp, Transfer!library,
     Transfer!history
<1>11. CASE Transfer!ForeignDelete
  BY <1>11 DEF Transfer!ForeignDelete, Transfer!CleanUp, Transfer!library
<1> QED BY <1>1, <1>2, <1>3, <1>4, <1>5, <1>6, <1>7, <1>8, <1>9, <1>10, <1>11
        DEF Transfer!Next

LEMMA StepTransferInv ==
  Transfer!TransferAssumption /\ TransferInv /\ [Transfer!Next]_(Transfer!vars) => TransferInv'
<1> SUFFICES ASSUME Transfer!TransferAssumption, TransferInv, [Transfer!Next]_(Transfer!vars)
             PROVE  TransferInv'
  OBVIOUS
<1>1. CASE Transfer!Next
  BY <1>1, TransferTypeStep, TransferRegistryStep DEF TransferInv
<1>2. CASE UNCHANGED Transfer!vars
  BY <1>2 DEF Transfer!vars, Transfer!host, Transfer!library, Transfer!history, TransferInv,
     Transfer!TypeOK, Accounted, OnlyLateOnes,
     LostForReason, EntryInUse, PathKnown
<1> QED BY <1>1, <1>2

LEMMA TransferInductive ==
  ASSUME Transfer!TransferAssumption
  PROVE  Transfer!Spec => []TransferInv
BY InitTransferInv, StepTransferInv, PTL DEF Transfer!Spec

\* The state of the transfer keeps its types.
THEOREM TransferTypeCorrect ==
  ASSUME Transfer!TransferAssumption
  PROVE  Transfer!Spec => []Transfer!TypeOK
<1>1. TransferInv => Transfer!TypeOK
  BY DEF TransferInv
<1> QED BY <1>1, TransferInductive, PTL

\* A directory that the session could not find again is that of a recording whose stop failed
\* over the geometry, the entry of which the next start took (artifacts.ts:36).
THEOREM TransferDirectoriesKnown ==
  ASSUME Transfer!TransferAssumption
  PROVE  Transfer!Spec => []Transfer!DirectoriesAreKnown
<1>1. TransferInv => Transfer!DirectoriesAreKnown
  BY DEF TransferInv, Accounted, LostForReason, Transfer!DirectoriesAreKnown
<1> QED BY <1>1, TransferInductive, PTL

\* Closing a session removes all of its recordings that were registered by then.
THEOREM RecordingsEndWithSession ==
  ASSUME Transfer!TransferAssumption
  PROVE  Transfer!Spec => []Transfer!NoRecordingOutlivesSession
<1>1. TransferInv => Transfer!NoRecordingOutlivesSession
  BY DEF TransferInv, Accounted, OnlyLateOnes, LostForReason, Transfer!TypeOK, Transfer!None,
     Transfer!NoRecordingOutlivesSession, Transfer!Recordings
<1> QED BY <1>1, TransferInductive, PTL

\* As long as nothing was given up or failed: one start at a time, and somebody waits for it;
\* what is recorded has the session's entry, and that is of the path of the last start; nobody
\* waits for a recorder after the end of the session; what the testbench has is what is being
\* downloaded; a result that is there is that of the path, and in the file; what the controller
\* remembers as its last recording is being downloaded or has been; and so has everything that
\* was claimed.
Undisturbed ==
  ~interrupted =>
    /\ \A r \in Transfer!Recordings : rec[r] = "starting" =>
         client = "starting" /\ \A q \in Transfer!Recordings : rec[q] = "starting" => q = r
    /\ \A r \in Transfer!Recordings : rec[r] \in Transfer!Active =>
         \/ directory = r
         \/ session = "gone"
    /\ client = "waiting" /\ session \in {"over", "gone"} => Transfer!NoActiveVideo
    /\ directory \in {Transfer!None, output}
    /\ artifacts \subseteq {pending}
    /\ pending # Transfer!None <=> client = "downloading"
    /\ pending # Transfer!None => pending = output /\ rec[pending] = "ended"
    /\ memo # Transfer!None => memo = output /\ rec[memo] = "ended" /\ file[memo] = memo
    /\ client = "stopping" => memo = Transfer!None
    /\ last # Transfer!None => last \in {pending, memo}
    /\ \A r \in claimed : rec[r] = "ended" /\ file[r] = r

LEMMA TransferUndisturbedStep ==
  ASSUME TransferInv, Undisturbed, Transfer!Next
  PROVE  Undisturbed'
<1>0. Transfer!TypeOK
  BY DEF TransferInv
<1>1. CASE interrupted'
  BY <1>1 DEF Undisturbed
<1> SUFFICES ASSUME ~interrupted'
             PROVE  Undisturbed'
  BY <1>1
<1> USE <1>0, NoneIsNoRecording DEF Transfer!TypeOK, Undisturbed, Transfer!Active, Transfer!Fault,
   Transfer!NoActiveVideo
<1>2. ASSUME NEW r \in Transfer!Recordings, Transfer!Start(r)
      PROVE  Undisturbed'
  BY <1>2 DEF Transfer!Start, Transfer!history
<1>3. ASSUME NEW r \in Transfer!Recordings, Transfer!NotStarted(r)
      PROVE  Undisturbed'
  BY <1>3 DEF Transfer!NotStarted
<1>4. ASSUME NEW r \in Transfer!Recordings, Transfer!HostStarts(r)
      PROVE  Undisturbed'
  <2>1. client = "starting" /\ output' = r /\ memo' = Transfer!None
    BY <1>4 DEF Transfer!HostStarts, Transfer!Acknowledged
  <2>2. /\ client' = "idle" /\ directory' = r /\ last' = Transfer!None
        /\ rec' = [rec EXCEPT ![r] = "running"]
        /\ UNCHANGED <<interrupted, artifacts, pending, file, claimed>>
    BY <1>4, <2>1 DEF Transfer!HostStarts, Transfer!Registered, Transfer!Acknowledged
  <2>3. \A q \in Transfer!Recordings : rec'[q] \in Transfer!Active => q = r
    BY <1>4, <2>2 DEF Transfer!HostStarts, Transfer!NoActiveVideo
  <2>4. rec[r] = "starting" /\ r \notin claimed
    BY <1>4, <2>2 DEF Transfer!HostStarts
  <2> QED BY <2>1, <2>2, <2>3, <2>4
<1>5. ASSUME NEW r \in Transfer!Recordings, Transfer!Finalize(r)
      PROVE  Undisturbed'
  BY <1>5 DEF Transfer!Finalize, Transfer!library
<1>6. ASSUME NEW r \in Transfer!Recordings, Transfer!FinishDone(r)
      PROVE  Undisturbed'
  <2>0. ~interrupted /\ client = "waiting" /\ rec[r] = "final"
    BY <1>6 DEF Transfer!FinishDone, Transfer!Answered, Transfer!AnsweredWithout
  <2>1. session \notin {"over", "gone"}
    BY <2>0
  <2>2. directory = r /\ r = output
    BY <2>0, <2>1
  <2>3. /\ pending' = r /\ client' = "downloading"
        /\ UNCHANGED <<memo, claimed, output, file, session>>
        /\ directory' = Transfer!None /\ artifacts' = artifacts \union {r} /\ last' = r
        /\ rec' = [rec EXCEPT ![r] = "ended"]
    BY <1>6, <2>2 DEF Transfer!FinishDone, Transfer!Answered
  <2>4. artifacts = {} /\ pending = Transfer!None
    BY <2>0
  <2> QED BY <2>0, <2>1, <2>2, <2>3, <2>4
<1>7. ASSUME NEW r \in Transfer!Recordings, Transfer!FinishFails(r)
      PROVE  Undisturbed'
  BY <1>7 DEF Transfer!FinishFails
<1>8. CASE Transfer!Stop \/ Transfer!StopAgain
  BY <1>8 DEF Transfer!Stop, Transfer!StopAgain, Transfer!host, Transfer!library, Transfer!history
<1>9. CASE Transfer!FinishExisting
  BY <1>9 DEF Transfer!FinishExisting, Transfer!Answered, Transfer!host
<1>10. CASE Transfer!FinishStops
  BY <1>10 DEF Transfer!FinishStops, Transfer!history
<1>11. CASE \/ Transfer!FinishRefused \/ Transfer!FinishMeasureFails
            \/ Transfer!Abort \/ Transfer!ForeignDelete
  BY <1>11 DEF Transfer!FinishRefused, Transfer!FinishMeasureFails, Transfer!Abort,
     Transfer!ForeignDelete
<1>16. ~Transfer!FinishLast
  <2> SUFFICES ASSUME Transfer!FinishLast
               PROVE  FALSE
    OBVIOUS
  <2>1. /\ ~interrupted /\ client = "stopping" /\ artifacts = {} /\ last # Transfer!None
        /\ Transfer!NoActiveVideo /\ pending = Transfer!None /\ memo = Transfer!None
    BY DEF Transfer!FinishLast, Transfer!AnsweredWithout
  <2> QED BY <2>1
<1>12. CASE Transfer!Download
  BY <1>12 DEF Transfer!Download
<1>13. CASE Transfer!DownloadFails
  BY <1>13 DEF Transfer!DownloadFails
<1>14. CASE Transfer!Close
  BY <1>14 DEF Transfer!Close, Transfer!library, Transfer!history
<1>15. CASE Transfer!Closed \/ Transfer!CloseAgain
  <2>1. /\ UNCHANGED <<Transfer!library, Transfer!history>>
        /\ directory' \in {Transfer!None, directory} /\ artifacts' \in {{}, artifacts}
        /\ last' \in {Transfer!None, last}
    BY <1>15 DEF Transfer!Closed, Transfer!CloseAgain, Transfer!CleanUp
  <2>2. CASE Transfer!Closed
    <3>1. rec' = [r \in Transfer!Recordings |->
                    IF rec[r] \in Transfer!Active THEN "ended" ELSE rec[r]]
      BY <2>2 DEF Transfer!Closed
    <3>2. \A r \in Transfer!Recordings :
            /\ rec'[r] \notin Transfer!Active
            /\ rec[r] = "ended" => rec'[r] = "ended"
            /\ rec'[r] = "starting" => rec[r] = "starting"
      BY <3>1
    <3> QED BY <2>1, <3>2 DEF Transfer!library, Transfer!history
  <2>3. CASE Transfer!CloseAgain
    BY <2>3, <2>1 DEF Transfer!CloseAgain, Transfer!CleanUp, Transfer!library, Transfer!history
  <2> QED BY <1>15, <2>2, <2>3
<1> QED BY <1>2, <1>3, <1>4, <1>5, <1>6, <1>7, <1>8, <1>9, <1>10, <1>11, <1>12, <1>13,
           <1>14, <1>15, <1>16 DEF Transfer!Next

\* As long as nothing is refused, given up or fails, each stop() delivers the recording that
\* was started last, however many there are.
THEOREM StopDelivers ==
  ASSUME Transfer!TransferAssumption
  PROVE  Transfer!Spec => []Transfer!UndisturbedStopDelivers
<1>1. Transfer!Init => Undisturbed
  BY DEF Transfer!Init, Undisturbed, Transfer!Active, Transfer!NoActiveVideo
<1>2. TransferInv /\ Undisturbed /\ [Transfer!Next]_(Transfer!vars) => Undisturbed'
  <2>1. ASSUME UNCHANGED Transfer!vars, Undisturbed
        PROVE  Undisturbed'
    BY <2>1 DEF Transfer!vars, Transfer!host, Transfer!library, Transfer!history, Undisturbed,
       Transfer!NoActiveVideo
  <2> QED BY <2>1, TransferUndisturbedStep
<1>3. Undisturbed => Transfer!UndisturbedStopDelivers
  BY DEF Undisturbed, Transfer!UndisturbedStopDelivers
<1> QED BY <1>1, <1>2, <1>3, TransferInductive, PTL DEF Transfer!Spec
===============================================================================
