-------------------------- MODULE PersistentLockProofs --------------------------
(***************************************************************************)
(* PersistentLock for any number of processes, claims and crashes: short   *)
(* of the recorded lapses, one claim uses the target, and what a process   *)
(* leaves behind when it dies is found to be stale, unless its pid has     *)
(* gone to another program.  A lapse takes a handoff or a crash, and until *)
(* one the directory is the lock that ExclusiveLock specifies.             *)
(***************************************************************************)
EXTENDS PersistentLock, TLAPS

\* Without a directory there is no file, and nobody has it before him.
DirectoryOrNothing == ~exists => file = "absent" /\ \A a \in Actors : ~same[a]

\* Who is suspended in a file operation, or holds the target, runs.
AtWorkIsUp ==
  \A a \in Actors : pc[a] \notin {"idle", "done", "failed", "dead"} => up[Pid(a)]

\* A claim that cleans up after itself has lost the directory it made.
RollbackIsLate == \A s \in Claims : pc[s] = "rollback" => ~same[s]

\* A handoff is to another claim of the process.
HeirIsOfHouse ==
  \A s \in Claims : pc[s] = "rewrite" =>
    heir[s] \in Claims \ {s} /\ HomeOf[heir[s]] = HomeOf[s]

\* From mkdir to rm the directory is a claim's own.
Making == {"create", "fill"}
Owning == Making \union Using

\* What a claim that owns the directory finds in it.
Contents(s) ==
  /\ pc[s] = "create" => file = "absent"
  /\ pc[s] \in {"fill", "rewrite"} => file = "empty"
  /\ pc[s] \in {"held", "unread", "unlink"} => file = s /\ stamp = started[HomeOf[s]]

\* The directory belongs to one claim, which has not lost it, and nobody has judged it stale.
Owned ==
  /\ \A s, t \in Claims : pc[s] \in Owning /\ pc[t] \in Owning => s = t
  /\ \A s \in Claims : pc[s] \in Owning => same[s] /\ Contents(s)
  /\ \A s \in Claims : pc[s] \in Making => ~old
  /\ \A a \in Actors : pc[a] = "remove" /\ same[a] => \A s \in Claims : pc[s] \notin Owning

\* owner.json names a claim although the directory is no claim's own.
Leftover == Readable /\ \A s \in Claims : pc[s] \notin Owning

\* A leftover owner.json is that of a process that died; one started again under its
\* pid has another processStartedAt and is not yet through with its cleanup().
LeftoverIsStale ==
  lapses = {} /\ Leftover =>
    /\ stamp <= started[Pid(file)]
    /\ up[Pid(file)] =>
         stamp # started[Pid(file)] /\ pc[Pid(file)] \in {"read", "remove"}

\* What processMatches() says of a leftover owner.json: a live process believes it only if
\* its pid has gone to an unrelated program, or to a Testbench that is about to remove it.
LeftoverIsFound ==
  lapses = {} /\ Leftover =>
    \A a \in Actors : up[Pid(a)] /\ OwnerMatches(a) =>
      reused[Pid(file)] \/ (up[Pid(file)] /\ pc[Pid(file)] \in {"read", "remove"})

IndInv == /\ TypeOK /\ DirectoryOrNothing /\ AtWorkIsUp /\ RollbackIsLate /\ HeirIsOfHouse
          /\ lapses = {} => Owned

\* A claim acts for its process.
LEMMA PidOf ==
  /\ \A a \in Actors : Pid(a) \in Processes
  /\ \A s \in Claims : s \in Actors /\ Pid(s) = HomeOf[s] /\ HomeOf[s] \in Processes
  /\ \A p \in Processes : p \in Actors /\ Pid(p) = p /\ p \notin Claims
  /\ Actors = Claims \union Processes
BY PersistentAssumption DEF PersistentAssumption, Actors, Pid

LEMMA InitIndInv == Init => IndInv
<1> SUFFICES ASSUME Init
             PROVE  IndInv
  OBVIOUS
<1> USE PidOf DEF Init
<1>1. TypeOK
  BY DEF TypeOK, Status
<1>2. AtWorkIsUp
  BY DEF AtWorkIsUp
<1>3. \A s \in Claims : pc[s] = "idle"
  OBVIOUS
<1>4. RollbackIsLate /\ HeirIsOfHouse
  BY <1>3 DEF RollbackIsLate, HeirIsOfHouse
<1>5. Owned
  BY <1>3 DEF Owned, Owning, Making, Using
<1> QED BY <1>1, <1>2, <1>4, <1>5 DEF IndInv, DirectoryOrNothing

LEMMA TypeStep ==
  ASSUME TypeOK, DirectoryOrNothing, HeirIsOfHouse, Next
  PROVE  TypeOK'
<1> USE DEF TypeOK, At, Goto, processVars, dirVars, HeirIsOfHouse, DirectoryOrNothing
<1>1. ASSUME NEW s \in Claims, Acquire(s)
      PROVE  TypeOK'
  BY <1>1 DEF Acquire, Status
<1>2. ASSUME NEW s \in Claims, Mkdir(s)
      PROVE  TypeOK'
  BY <1>2 DEF Mkdir, Status
<1>3. ASSUME NEW s \in Claims, MkdirExists(s)
      PROVE  TypeOK'
  BY <1>3 DEF MkdirExists, Status
<1>4. ASSUME NEW s \in Claims, Create(s)
      PROVE  TypeOK'
  BY <1>4 DEF Create, Status
<1>5. ASSUME NEW s \in Claims, CreateExists(s)
      PROVE  TypeOK'
  BY <1>5 DEF CreateExists, Status
<1>6. ASSUME NEW s \in Claims, CreateFails(s)
      PROVE  TypeOK'
  BY <1>6 DEF CreateFails, Status
<1>7. ASSUME NEW s \in Claims, Fill(s)
      PROVE  TypeOK'
  <2>1. pc' \in [Actors -> Status] /\ started[Pid(s)] \in Nat
    BY <1>7, PidOf DEF Fill, Status
  <2> QED BY <1>7, <2>1 DEF Fill, WriteOwner
<1>8. ASSUME NEW s \in Claims, Rollback(s)
      PROVE  TypeOK'
  BY <1>8 DEF Rollback, RemoveDirectory, Status, NoteLateRemoval
<1>9. ASSUME NEW s \in Claims, Poll(s)
      PROVE  TypeOK'
  BY <1>9 DEF Poll, Status
<1>10. ASSUME NEW s \in Claims, GiveUp(s)
      PROVE  TypeOK'
  BY <1>10 DEF GiveUp, Status
<1>11. ASSUME NEW s \in Claims, Release(s)
      PROVE  TypeOK'
  BY <1>11 DEF Release, Status
<1>12. ASSUME NEW s \in Claims, ReleaseRead(s)
      PROVE  TypeOK'
  BY <1>12 DEF ReleaseRead, Readable, Status
<1>13. ASSUME NEW s \in Claims, Unlink(s)
      PROVE  TypeOK'
  BY <1>13 DEF Unlink, RemoveDirectory, Status, NoteLateRemoval
<1>14. ASSUME NEW s \in Claims, Rewrite(s)
      PROVE  TypeOK'
  <2>1. heir[s] \in Claims /\ started[Pid(s)] \in Nat
    BY <1>14, PidOf DEF Rewrite
  <2>2. pc' \in [Actors -> Status] /\ same' \in [Actors -> BOOLEAN]
    BY <1>14, PidOf DEF Rewrite, Status
  <2>3. heir' \in [Claims -> Claims \union {None}]
    BY <1>14 DEF Rewrite
  <2> QED BY <1>14, <2>1, <2>2, <2>3 DEF Rewrite, WriteOwner
<1>15. ASSUME NEW s \in Claims, NEW t \in Claims, Truncate(s, t)
      PROVE  TypeOK'
  BY <1>15 DEF Truncate, Status
<1>16. ASSUME NEW s \in Claims, NEW t \in Claims, TruncateFails(s, t)
      PROVE  TypeOK'
  BY <1>16 DEF TruncateFails, Status
<1>17. ASSUME NEW a \in Actors, ReadOwner(a)
      PROVE  TypeOK'
  BY <1>17 DEF ReadOwner, Readable, OwnerMatches, NotStale, Status
<1>18. ASSUME NEW a \in Actors, ReadNothing(a)
      PROVE  TypeOK'
  BY <1>18 DEF ReadNothing, Readable, Status
<1>19. ASSUME NEW a \in Actors, StatFresh(a)
      PROVE  TypeOK'
  BY <1>19 DEF StatFresh, NotStale, Status
<1>20. ASSUME NEW a \in Actors, StatOld(a)
      PROVE  TypeOK'
  BY <1>20 DEF StatOld, Status
<1>21. ASSUME NEW a \in Actors, Remove(a)
      PROVE  TypeOK'
  BY <1>21 DEF Remove, RemoveDirectory, Removed, Status, NoteLateRemoval
<1>22. ASSUME NEW p \in Processes, Crash(p)
      PROVE  TypeOK'
  <2>1. pc' \in [Actors -> Status]
    <3> SUFFICES ASSUME NEW a \in Actors
                 PROVE  (IF Pid(a) = p /\ pc[a] \notin {"idle", "done", "failed"}
                           THEN "dead" ELSE pc[a]) \in Status
      BY <1>22 DEF Crash
    <3> QED BY DEF Status
  <2> QED BY <1>22, <2>1 DEF Crash
<1>23. ASSUME NEW p \in Processes, Restart(p)
      PROVE  TypeOK'
  <2>1. pc' \in [Actors -> Status]
    BY <1>23 DEF Restart, Status
  <2>2. started' \in [Processes -> Nat] /\ up' \in [Processes -> BOOLEAN]
    BY <1>23 DEF Restart
  <2> QED BY <1>23, <2>1, <2>2 DEF Restart
<1>25. ASSUME NEW s \in Claims, RewriteFails(s)
       PROVE  TypeOK'
  <2>1. heir[s] \in Claims
    BY <1>25 DEF RewriteFails
  <2>2. pc' \in [Actors -> Status]
    BY <1>25, PidOf DEF RewriteFails, Status
  <2>3. heir' \in [Claims -> Claims \union {None}]
    BY <1>25 DEF RewriteFails
  <2> QED BY <1>25, <2>1, <2>2, <2>3 DEF RewriteFails
<1>26. ASSUME NEW p \in Processes, Reuse(p)
       PROVE  TypeOK'
  BY <1>26 DEF Reuse
<1>24. CASE Age
  BY <1>24 DEF Age, Readable, Status
<1> QED BY <1>1, <1>2, <1>3, <1>4, <1>5, <1>6, <1>7, <1>8, <1>9, <1>10, <1>11, <1>12,
    <1>13, <1>14, <1>15, <1>16, <1>17, <1>18, <1>19, <1>20, <1>21, <1>22, <1>23,
    <1>24, <1>25, <1>26 DEF Next, Acquisition, Releasing, StaleCheck

LEMMA DirectoryStep ==
  ASSUME TypeOK, DirectoryOrNothing, Next
  PROVE  DirectoryOrNothing'
<1> USE PersistentAssumption, PidOf DEF PersistentAssumption, TypeOK, At, Goto,
    processVars, dirVars,
    DirectoryOrNothing
<1>1. ASSUME NEW s \in Claims, Acquire(s)
      PROVE  DirectoryOrNothing'
  BY <1>1 DEF Acquire
<1>2. ASSUME NEW s \in Claims, Mkdir(s)
      PROVE  DirectoryOrNothing'
  BY <1>2 DEF Mkdir
<1>3. ASSUME NEW s \in Claims, MkdirExists(s)
      PROVE  DirectoryOrNothing'
  BY <1>3 DEF MkdirExists
<1>4. ASSUME NEW s \in Claims, Create(s)
      PROVE  DirectoryOrNothing'
  BY <1>4 DEF Create
<1>5. ASSUME NEW s \in Claims, CreateExists(s)
      PROVE  DirectoryOrNothing'
  BY <1>5 DEF CreateExists
<1>6. ASSUME NEW s \in Claims, CreateFails(s)
      PROVE  DirectoryOrNothing'
  BY <1>6 DEF CreateFails
<1>7. ASSUME NEW s \in Claims, Fill(s)
      PROVE  DirectoryOrNothing'
  BY <1>7 DEF Fill, WriteOwner
<1>8. ASSUME NEW s \in Claims, Rollback(s)
      PROVE  DirectoryOrNothing'
  BY <1>8 DEF Rollback, RemoveDirectory
<1>9. ASSUME NEW s \in Claims, Poll(s)
      PROVE  DirectoryOrNothing'
  BY <1>9 DEF Poll
<1>10. ASSUME NEW s \in Claims, GiveUp(s)
      PROVE  DirectoryOrNothing'
  BY <1>10 DEF GiveUp
<1>11. ASSUME NEW s \in Claims, Release(s)
      PROVE  DirectoryOrNothing'
  BY <1>11 DEF Release
<1>12. ASSUME NEW s \in Claims, ReleaseRead(s)
      PROVE  DirectoryOrNothing'
  BY <1>12 DEF ReleaseRead, Readable
<1>13. ASSUME NEW s \in Claims, Unlink(s)
      PROVE  DirectoryOrNothing'
  BY <1>13 DEF Unlink, RemoveDirectory
<1>14. ASSUME NEW s \in Claims, Rewrite(s)
      PROVE  DirectoryOrNothing'
  BY <1>14 DEF Rewrite, WriteOwner
<1>15. ASSUME NEW s \in Claims, NEW t \in Claims, Truncate(s, t)
      PROVE  DirectoryOrNothing'
  BY <1>15 DEF Truncate
<1>16. ASSUME NEW s \in Claims, NEW t \in Claims, TruncateFails(s, t)
      PROVE  DirectoryOrNothing'
  BY <1>16 DEF TruncateFails
<1>17. ASSUME NEW a \in Actors, ReadOwner(a)
      PROVE  DirectoryOrNothing'
  BY <1>17 DEF ReadOwner, Readable, OwnerMatches, NotStale
<1>18. ASSUME NEW a \in Actors, ReadNothing(a)
      PROVE  DirectoryOrNothing'
  BY <1>18 DEF ReadNothing, Readable
<1>19. ASSUME NEW a \in Actors, StatFresh(a)
      PROVE  DirectoryOrNothing'
  BY <1>19 DEF StatFresh, NotStale
<1>20. ASSUME NEW a \in Actors, StatOld(a)
      PROVE  DirectoryOrNothing'
  BY <1>20 DEF StatOld
<1>21. ASSUME NEW a \in Actors, Remove(a)
      PROVE  DirectoryOrNothing'
  BY <1>21 DEF Remove, RemoveDirectory, Removed
<1>22. ASSUME NEW p \in Processes, Crash(p)
      PROVE  DirectoryOrNothing'
  BY <1>22 DEF Crash
<1>23. ASSUME NEW p \in Processes, Restart(p)
      PROVE  DirectoryOrNothing'
  BY <1>23 DEF Restart
<1>25. ASSUME NEW s \in Claims, RewriteFails(s)
       PROVE  DirectoryOrNothing'
  BY <1>25 DEF RewriteFails
<1>26. ASSUME NEW p \in Processes, Reuse(p)
       PROVE  DirectoryOrNothing'
  BY <1>26 DEF Reuse
<1>24. CASE Age
  BY <1>24 DEF Age, Readable
<1> QED BY <1>1, <1>2, <1>3, <1>4, <1>5, <1>6, <1>7, <1>8, <1>9, <1>10, <1>11, <1>12,
    <1>13, <1>14, <1>15, <1>16, <1>17, <1>18, <1>19, <1>20, <1>21, <1>22, <1>23,
    <1>24, <1>25, <1>26 DEF Next, Acquisition, Releasing, StaleCheck

LEMMA HouseStep ==
  ASSUME TypeOK, AtWorkIsUp, RollbackIsLate, HeirIsOfHouse, DirectoryOrNothing, Next
  PROVE  (AtWorkIsUp /\ RollbackIsLate /\ HeirIsOfHouse)'
<1> USE PersistentAssumption, PidOf DEF PersistentAssumption, TypeOK, At, Goto,
    processVars, dirVars,
    DirectoryOrNothing, AtWorkIsUp, RollbackIsLate, HeirIsOfHouse
<1>1. ASSUME NEW s \in Claims, Acquire(s)
      PROVE  (AtWorkIsUp /\ RollbackIsLate /\ HeirIsOfHouse)'
  BY <1>1 DEF Acquire
<1>2. ASSUME NEW s \in Claims, Mkdir(s)
      PROVE  (AtWorkIsUp /\ RollbackIsLate /\ HeirIsOfHouse)'
  BY <1>2 DEF Mkdir
<1>3. ASSUME NEW s \in Claims, MkdirExists(s)
      PROVE  (AtWorkIsUp /\ RollbackIsLate /\ HeirIsOfHouse)'
  BY <1>3 DEF MkdirExists
<1>4. ASSUME NEW s \in Claims, Create(s)
      PROVE  (AtWorkIsUp /\ RollbackIsLate /\ HeirIsOfHouse)'
  BY <1>4 DEF Create
<1>5. ASSUME NEW s \in Claims, CreateExists(s)
      PROVE  (AtWorkIsUp /\ RollbackIsLate /\ HeirIsOfHouse)'
  BY <1>5 DEF CreateExists
<1>6. ASSUME NEW s \in Claims, CreateFails(s)
      PROVE  (AtWorkIsUp /\ RollbackIsLate /\ HeirIsOfHouse)'
  BY <1>6 DEF CreateFails
<1>7. ASSUME NEW s \in Claims, Fill(s)
      PROVE  (AtWorkIsUp /\ RollbackIsLate /\ HeirIsOfHouse)'
  BY <1>7 DEF Fill, WriteOwner
<1>8. ASSUME NEW s \in Claims, Rollback(s)
      PROVE  (AtWorkIsUp /\ RollbackIsLate /\ HeirIsOfHouse)'
  BY <1>8 DEF Rollback, RemoveDirectory
<1>9. ASSUME NEW s \in Claims, Poll(s)
      PROVE  (AtWorkIsUp /\ RollbackIsLate /\ HeirIsOfHouse)'
  BY <1>9 DEF Poll
<1>10. ASSUME NEW s \in Claims, GiveUp(s)
      PROVE  (AtWorkIsUp /\ RollbackIsLate /\ HeirIsOfHouse)'
  BY <1>10 DEF GiveUp
<1>11. ASSUME NEW s \in Claims, Release(s)
      PROVE  (AtWorkIsUp /\ RollbackIsLate /\ HeirIsOfHouse)'
  BY <1>11 DEF Release
<1>12. ASSUME NEW s \in Claims, ReleaseRead(s)
      PROVE  (AtWorkIsUp /\ RollbackIsLate /\ HeirIsOfHouse)'
  BY <1>12 DEF ReleaseRead, Readable
<1>13. ASSUME NEW s \in Claims, Unlink(s)
      PROVE  (AtWorkIsUp /\ RollbackIsLate /\ HeirIsOfHouse)'
  BY <1>13 DEF Unlink, RemoveDirectory
<1>14. ASSUME NEW s \in Claims, Rewrite(s)
      PROVE  (AtWorkIsUp /\ RollbackIsLate /\ HeirIsOfHouse)'
  BY <1>14 DEF Rewrite, WriteOwner
<1>15. ASSUME NEW s \in Claims, NEW t \in Claims, Truncate(s, t)
      PROVE  (AtWorkIsUp /\ RollbackIsLate /\ HeirIsOfHouse)'
  BY <1>15 DEF Truncate
<1>16. ASSUME NEW s \in Claims, NEW t \in Claims, TruncateFails(s, t)
      PROVE  (AtWorkIsUp /\ RollbackIsLate /\ HeirIsOfHouse)'
  BY <1>16 DEF TruncateFails
<1>17. ASSUME NEW a \in Actors, ReadOwner(a)
      PROVE  (AtWorkIsUp /\ RollbackIsLate /\ HeirIsOfHouse)'
  BY <1>17 DEF ReadOwner, Readable, OwnerMatches, NotStale
<1>18. ASSUME NEW a \in Actors, ReadNothing(a)
      PROVE  (AtWorkIsUp /\ RollbackIsLate /\ HeirIsOfHouse)'
  BY <1>18 DEF ReadNothing, Readable
<1>19. ASSUME NEW a \in Actors, StatFresh(a)
      PROVE  (AtWorkIsUp /\ RollbackIsLate /\ HeirIsOfHouse)'
  BY <1>19 DEF StatFresh, NotStale
<1>20. ASSUME NEW a \in Actors, StatOld(a)
      PROVE  (AtWorkIsUp /\ RollbackIsLate /\ HeirIsOfHouse)'
  BY <1>20 DEF StatOld
<1>21. ASSUME NEW a \in Actors, Remove(a)
      PROVE  (AtWorkIsUp /\ RollbackIsLate /\ HeirIsOfHouse)'
  BY <1>21 DEF Remove, RemoveDirectory, Removed
<1>22. ASSUME NEW p \in Processes, Crash(p)
      PROVE  (AtWorkIsUp /\ RollbackIsLate /\ HeirIsOfHouse)'
  BY <1>22 DEF Crash
<1>23. ASSUME NEW p \in Processes, Restart(p)
      PROVE  (AtWorkIsUp /\ RollbackIsLate /\ HeirIsOfHouse)'
  BY <1>23 DEF Restart
<1>25. ASSUME NEW s \in Claims, RewriteFails(s)
       PROVE  (AtWorkIsUp /\ RollbackIsLate /\ HeirIsOfHouse)'
  BY <1>25 DEF RewriteFails
<1>26. ASSUME NEW p \in Processes, Reuse(p)
       PROVE  (AtWorkIsUp /\ RollbackIsLate /\ HeirIsOfHouse)'
  BY <1>26 DEF Reuse
<1>24. CASE Age
  BY <1>24 DEF Age, Readable
<1> QED BY <1>1, <1>2, <1>3, <1>4, <1>5, <1>6, <1>7, <1>8, <1>9, <1>10, <1>11, <1>12,
    <1>13, <1>14, <1>15, <1>16, <1>17, <1>18, <1>19, <1>20, <1>21, <1>22, <1>23,
    <1>24, <1>25, <1>26 DEF Next, Acquisition, Releasing, StaleCheck

LEMMA OwnedStep ==
  ASSUME IndInv, Next, lapses' = {}
  PROVE  Owned'
<1> USE PersistentAssumption, PidOf DEF PersistentAssumption, TypeOK, At, Goto,
    processVars, dirVars,
    Status, IndInv, DirectoryOrNothing, AtWorkIsUp, RollbackIsLate, HeirIsOfHouse, Owned,
    Contents, Owning, Making, Using
<1>1. ASSUME NEW s \in Claims, Acquire(s)
      PROVE  Owned'
  BY <1>1 DEF Acquire
<1>2. ASSUME NEW s \in Claims, Mkdir(s)
      PROVE  Owned'
  BY <1>2 DEF Mkdir
<1>3. ASSUME NEW s \in Claims, MkdirExists(s)
      PROVE  Owned'
  BY <1>3 DEF MkdirExists
<1>4. ASSUME NEW s \in Claims, Create(s)
      PROVE  Owned'
  BY <1>4 DEF Create
<1>5. ASSUME NEW s \in Claims, CreateExists(s)
      PROVE  Owned'
  BY <1>5 DEF CreateExists
<1>6. ASSUME NEW s \in Claims, CreateFails(s)
      PROVE  Owned'
  BY <1>6 DEF CreateFails
<1>7. ASSUME NEW s \in Claims, Fill(s)
      PROVE  Owned'
  BY <1>7 DEF Fill, WriteOwner
<1>8. ASSUME NEW s \in Claims, Rollback(s)
      PROVE  Owned'
  BY <1>8 DEF Rollback, RemoveDirectory, NoteLateRemoval
<1>9. ASSUME NEW s \in Claims, Poll(s)
      PROVE  Owned'
  BY <1>9 DEF Poll
<1>10. ASSUME NEW s \in Claims, GiveUp(s)
      PROVE  Owned'
  BY <1>10 DEF GiveUp
<1>11. ASSUME NEW s \in Claims, Release(s)
      PROVE  Owned'
  BY <1>11 DEF Release
<1>12. ASSUME NEW s \in Claims, ReleaseRead(s)
      PROVE  Owned'
  BY <1>12 DEF ReleaseRead, Readable
<1>13. ASSUME NEW s \in Claims, Unlink(s)
      PROVE  Owned'
  BY <1>13 DEF Unlink, RemoveDirectory, NoteLateRemoval
<1>14. ASSUME NEW s \in Claims, Rewrite(s)
      PROVE  Owned'
  <2>1. /\ pc[s] = "rewrite" /\ same[s] /\ file = "empty"
        /\ heir[s] \in Claims \ {s} /\ HomeOf[heir[s]] = HomeOf[s]
        /\ \A c \in Claims : pc[c] \in Owning => c = s
        /\ \A a \in Actors : ~(pc[a] = "remove" /\ same[a])
    BY <1>14 DEF Rewrite
  <2>2. /\ \A a \in Actors : pc'[a] = IF a = heir[s] THEN "held"
                                      ELSE IF a = s THEN "done" ELSE pc[a]
        /\ \A a \in Actors : a # heir[s] => same'[a] = same[a]
        /\ same'[heir[s]]
    BY <1>14, <2>1 DEF Rewrite, Actors
  <2>3. file' = heir[s] /\ stamp' = started'[HomeOf[heir[s]]]
    BY <1>14, <2>1 DEF Rewrite, WriteOwner
  <2> QED BY <2>1, <2>2, <2>3 DEF Actors
<1>15. ASSUME NEW s \in Claims, NEW t \in Claims, Truncate(s, t)
      PROVE  Owned'
  BY <1>15 DEF Truncate
<1>16. ASSUME NEW s \in Claims, NEW t \in Claims, TruncateFails(s, t)
      PROVE  Owned'
  BY <1>16 DEF TruncateFails
<1>17. ASSUME NEW a \in Actors, ReadOwner(a)
      PROVE  Owned'
  BY <1>17 DEF ReadOwner, Readable, OwnerMatches, NotStale
<1>18. ASSUME NEW a \in Actors, ReadNothing(a)
      PROVE  Owned'
  BY <1>18 DEF ReadNothing, Readable
<1>19. ASSUME NEW a \in Actors, StatFresh(a)
      PROVE  Owned'
  BY <1>19 DEF StatFresh, NotStale
<1>20. ASSUME NEW a \in Actors, StatOld(a)
      PROVE  Owned'
  BY <1>20 DEF StatOld
<1>21. ASSUME NEW a \in Actors, Remove(a)
      PROVE  Owned'
  BY <1>21 DEF Remove, RemoveDirectory, Removed, NoteLateRemoval
<1>22. ASSUME NEW p \in Processes, Crash(p)
      PROVE  Owned'
  BY <1>22 DEF Crash
<1>23. ASSUME NEW p \in Processes, Restart(p)
      PROVE  Owned'
  BY <1>23 DEF Restart
<1>25. ASSUME NEW s \in Claims, RewriteFails(s)
       PROVE  Owned'
  BY <1>25 DEF RewriteFails
<1>26. ASSUME NEW p \in Processes, Reuse(p)
       PROVE  Owned'
  BY <1>26 DEF Reuse
<1>24. CASE Age
  BY <1>24 DEF Age, Readable
<1> QED BY <1>1, <1>2, <1>3, <1>4, <1>5, <1>6, <1>7, <1>8, <1>9, <1>10, <1>11, <1>12,
    <1>13, <1>14, <1>15, <1>16, <1>17, <1>18, <1>19, <1>20, <1>21, <1>22, <1>23,
    <1>24, <1>25, <1>26 DEF Next, Acquisition, Releasing, StaleCheck

LEMMA StepIndInv == IndInv /\ [Next]_vars => IndInv'
<1> SUFFICES ASSUME IndInv, [Next]_vars
             PROVE  IndInv'
  OBVIOUS
<1>1. CASE Next
  BY <1>1, TypeStep, DirectoryStep, HouseStep, OwnedStep DEF IndInv
<1>2. CASE UNCHANGED vars
  BY <1>2 DEF IndInv, TypeOK, DirectoryOrNothing, AtWorkIsUp, RollbackIsLate, HeirIsOfHouse,
     Owned, Contents, Owning, Making, Using, vars
<1> QED BY <1>1, <1>2

\* The state of processes, claims and the directory keeps its types.
THEOREM TypeCorrect == Spec => []TypeOK
<1>1. IndInv => TypeOK
  BY DEF IndInv
<1> QED BY InitIndInv, StepIndInv, <1>1, PTL DEF Spec

\* Whatever number of processes acquire, hand over, release, judge and die
\* (target-lock-manager.ts:56-194): two claims use the target, or one without its name in
\* owner.json, only after a late removal, a torn read or a handoff that failed
\* half-way.
THEOREM Exclusive == Spec => []ExclusiveUnlessLapse
<1>1. IndInv => ExclusiveUnlessLapse
  BY PersistentAssumption DEF PersistentAssumption, IndInv, TypeOK, Actors,
      DirectoryOrNothing,
     Owned, Contents, Owning, Making, Using, ExclusiveUnlessLapse, AtMostOneUser, Users
<1> QED BY InitIndInv, StepIndInv, <1>1, PTL DEF Spec

LEMMA LeftoverStep ==
  ASSUME IndInv, LeftoverIsStale, Next
  PROVE  LeftoverIsStale'
<1> USE PersistentAssumption, PidOf DEF PersistentAssumption, TypeOK, At, Goto,
    processVars, dirVars,
    Status, IndInv, DirectoryOrNothing, AtWorkIsUp, RollbackIsLate, HeirIsOfHouse, Owned,
    Contents, Owning, Making, Using, LeftoverIsStale, Leftover,
    Readable
<1>1. ASSUME NEW s \in Claims, Acquire(s)
      PROVE  LeftoverIsStale'
  BY <1>1 DEF Acquire
<1>2. ASSUME NEW s \in Claims, Mkdir(s)
      PROVE  LeftoverIsStale'
  BY <1>2 DEF Mkdir
<1>3. ASSUME NEW s \in Claims, MkdirExists(s)
      PROVE  LeftoverIsStale'
  BY <1>3 DEF MkdirExists
<1>4. ASSUME NEW s \in Claims, Create(s)
      PROVE  LeftoverIsStale'
  BY <1>4 DEF Create
<1>5. ASSUME NEW s \in Claims, CreateExists(s)
      PROVE  LeftoverIsStale'
  BY <1>5 DEF CreateExists
<1>6. ASSUME NEW s \in Claims, CreateFails(s)
      PROVE  LeftoverIsStale'
  BY <1>6 DEF CreateFails
<1>7. ASSUME NEW s \in Claims, Fill(s)
      PROVE  LeftoverIsStale'
  BY <1>7 DEF Fill, WriteOwner
<1>8. ASSUME NEW s \in Claims, Rollback(s)
      PROVE  LeftoverIsStale'
  BY <1>8 DEF Rollback, RemoveDirectory, NoteLateRemoval
<1>9. ASSUME NEW s \in Claims, Poll(s)
      PROVE  LeftoverIsStale'
  BY <1>9 DEF Poll
<1>10. ASSUME NEW s \in Claims, GiveUp(s)
      PROVE  LeftoverIsStale'
  BY <1>10 DEF GiveUp
<1>11. ASSUME NEW s \in Claims, Release(s)
      PROVE  LeftoverIsStale'
  BY <1>11 DEF Release
<1>12. ASSUME NEW s \in Claims, ReleaseRead(s)
      PROVE  LeftoverIsStale'
  BY <1>12 DEF ReleaseRead, Readable
<1>13. ASSUME NEW s \in Claims, Unlink(s)
      PROVE  LeftoverIsStale'
  BY <1>13 DEF Unlink, RemoveDirectory, NoteLateRemoval
<1>14. ASSUME NEW s \in Claims, Rewrite(s)
      PROVE  LeftoverIsStale'
  BY <1>14 DEF Rewrite, WriteOwner
<1>15. ASSUME NEW s \in Claims, NEW t \in Claims, Truncate(s, t)
      PROVE  LeftoverIsStale'
  BY <1>15 DEF Truncate
<1>16. ASSUME NEW s \in Claims, NEW t \in Claims, TruncateFails(s, t)
      PROVE  LeftoverIsStale'
  BY <1>16 DEF TruncateFails
<1>17. ASSUME NEW a \in Actors, ReadOwner(a)
      PROVE  LeftoverIsStale'
  BY <1>17 DEF ReadOwner, Readable, OwnerMatches, NotStale
<1>18. ASSUME NEW a \in Actors, ReadNothing(a)
      PROVE  LeftoverIsStale'
  BY <1>18 DEF ReadNothing, Readable
<1>19. ASSUME NEW a \in Actors, StatFresh(a)
      PROVE  LeftoverIsStale'
  BY <1>19 DEF StatFresh, NotStale
<1>20. ASSUME NEW a \in Actors, StatOld(a)
      PROVE  LeftoverIsStale'
  BY <1>20 DEF StatOld
<1>21. ASSUME NEW a \in Actors, Remove(a)
      PROVE  LeftoverIsStale'
  BY <1>21 DEF Remove, RemoveDirectory, Removed, NoteLateRemoval
<1>22. ASSUME NEW p \in Processes, Crash(p)
      PROVE  LeftoverIsStale'
  BY <1>22 DEF Crash
<1>23. ASSUME NEW p \in Processes, Restart(p)
      PROVE  LeftoverIsStale'
  BY <1>23 DEF Restart
<1>25. ASSUME NEW s \in Claims, RewriteFails(s)
       PROVE  LeftoverIsStale'
  BY <1>25 DEF RewriteFails
<1>26. ASSUME NEW p \in Processes, Reuse(p)
       PROVE  LeftoverIsStale'
  BY <1>26 DEF Reuse
<1>24. CASE Age
  BY <1>24 DEF Age, Readable
<1> QED BY <1>1, <1>2, <1>3, <1>4, <1>5, <1>6, <1>7, <1>8, <1>9, <1>10, <1>11, <1>12,
    <1>13, <1>14, <1>15, <1>16, <1>17, <1>18, <1>19, <1>20, <1>21, <1>22, <1>23,
    <1>24, <1>25, <1>26 DEF Next, Acquisition, Releasing, StaleCheck

\* What a process that dies leaves behind is found (target-lock-manager.ts:135-194): short
\* of a lapse, an owner.json without a claim behind it is taken for stale by whoever reads it,
\* unless an unrelated program has the pid that it names, or until the cleanup() of a
\* Testbench with that pid, which finds another processStartedAt, has removed it.
THEOREM LeftoverFound == Spec => []LeftoverIsFound
<1>1. Init => LeftoverIsStale
  BY DEF Init, LeftoverIsStale, Leftover, Readable
<1>2. IndInv /\ LeftoverIsStale /\ [Next]_vars => LeftoverIsStale'
  <2>1. UNCHANGED vars /\ LeftoverIsStale => LeftoverIsStale'
    BY DEF vars, LeftoverIsStale, Leftover, Readable, Pid, Owning, Making, Using
  <2> QED BY <2>1, LeftoverStep
<1>3. LeftoverIsStale => LeftoverIsFound
  BY DEF LeftoverIsStale, LeftoverIsFound, OwnerMatches
<1> QED BY InitIndInv, StepIndInv, <1>1, <1>2, <1>3, PTL DEF Spec

-------------------------------------------------------------------------------
(* Where the lapses come from.                                             *)

\* A torn read and a lost name need a handoff, and a late removal a process that died, if it
\* is the first lapse; once the directory has been taken away wrongly, one may cause the other.
LapsesHaveCauses ==
  /\ lapses # {} => Handoffs # {} \/ crashes > 0
  /\ lapses = {"tornRead"} => Handoffs # {}
  /\ lapses = {"lateRemoval"} => crashes > 0
  /\ "lostName" \in lapses => Handoffs # {}

\* Without handoffs, a directory that can be read is not one that somebody who found nothing
\* in it is about to find old: it was readable before it got old.
ReadInTime ==
  old /\ Readable => \A a \in Actors : ~(pc[a] = "stat" /\ same[a])

\* Nobody has died: every owner.json is that of a process that runs.
AllAlive == stamp = 0 /\ \A p \in Processes : up[p] /\ started[p] = 0

\* As long as nobody has died, the directory is that of a claim, whoever looks at an old one
\* looks at that one, and nobody is about to remove one.
NothingStale ==
  /\ exists => \E s \in Claims : pc[s] \in Owning
  /\ old => \A a \in Actors : pc[a] = "stat" => same[a]
  /\ \A a \in Actors : pc[a] # "remove"

CauseInv ==
  /\ LapsesHaveCauses
  /\ old => exists
  /\ \A s \in Claims : pc[s] = "rewrite" => Handoffs # {}
  /\ lapses = {} => \A s \in Claims : pc[s] # "rollback"
  /\ lapses = {} /\ Handoffs = {} => ReadInTime
  /\ crashes = 0 => AllAlive
  /\ crashes = 0 /\ lapses = {} => NothingStale

LEMMA InitCauseInv == Init => CauseInv
<1> SUFFICES ASSUME Init
             PROVE  CauseInv
  OBVIOUS
<1>1. lapses = {} /\ ~old /\ ~exists /\ crashes = 0
  BY DEF Init
<1>2. \A s \in Claims : pc[s] = "idle"
  BY PersistentAssumption DEF PersistentAssumption, Init, Actors
<1>3. \A a \in Actors : pc[a] \in {"read", "idle"}
  BY DEF Init
<1>4. AllAlive
  BY DEF Init, AllAlive
<1>5. NothingStale
  BY <1>1, <1>3 DEF NothingStale
<1>6. LapsesHaveCauses /\ ReadInTime
  BY <1>1 DEF LapsesHaveCauses, ReadInTime
<1> QED BY <1>1, <1>2, <1>4, <1>5, <1>6 DEF CauseInv

LEMMA CauseStep ==
  ASSUME IndInv, IndInv', CauseInv, Next
  PROVE  CauseInv'
<1> USE PersistentAssumption, PidOf DEF PersistentAssumption, TypeOK, At, Goto,
    processVars, dirVars,
    Status, IndInv, DirectoryOrNothing, AtWorkIsUp, RollbackIsLate, HeirIsOfHouse, Owned,
    Contents, Owning, Making, Using, CauseInv, LapsesHaveCauses, ReadInTime, AllAlive,
    NothingStale, Readable
<1>1. ASSUME NEW s \in Claims, Acquire(s)
      PROVE  CauseInv'
  BY <1>1 DEF Acquire
<1>2. ASSUME NEW s \in Claims, Mkdir(s)
      PROVE  CauseInv'
  BY <1>2 DEF Mkdir
<1>3. ASSUME NEW s \in Claims, MkdirExists(s)
      PROVE  CauseInv'
  BY <1>3 DEF MkdirExists
<1>4. ASSUME NEW s \in Claims, Create(s)
      PROVE  CauseInv'
  BY <1>4 DEF Create
<1>5. ASSUME NEW s \in Claims, CreateExists(s)
      PROVE  CauseInv'
  BY <1>5 DEF CreateExists
<1>6. ASSUME NEW s \in Claims, CreateFails(s)
      PROVE  CauseInv'
  BY <1>6 DEF CreateFails
<1>7. ASSUME NEW s \in Claims, Fill(s)
      PROVE  CauseInv'
  BY <1>7 DEF Fill, WriteOwner
<1>8. ASSUME NEW s \in Claims, Rollback(s)
      PROVE  CauseInv'
  BY <1>8 DEF Rollback, RemoveDirectory, NoteLateRemoval
<1>9. ASSUME NEW s \in Claims, Poll(s)
      PROVE  CauseInv'
  BY <1>9 DEF Poll
<1>10. ASSUME NEW s \in Claims, GiveUp(s)
      PROVE  CauseInv'
  BY <1>10 DEF GiveUp
<1>11. ASSUME NEW s \in Claims, Release(s)
      PROVE  CauseInv'
  BY <1>11 DEF Release
<1>12. ASSUME NEW s \in Claims, ReleaseRead(s)
      PROVE  CauseInv'
  BY <1>12 DEF ReleaseRead, Readable
<1>13. ASSUME NEW s \in Claims, Unlink(s)
      PROVE  CauseInv'
  BY <1>13 DEF Unlink, RemoveDirectory, NoteLateRemoval
<1>14. ASSUME NEW s \in Claims, Rewrite(s)
      PROVE  CauseInv'
  BY <1>14 DEF Rewrite, WriteOwner
<1>15. ASSUME NEW s \in Claims, NEW t \in Claims, Truncate(s, t)
      PROVE  CauseInv'
  BY <1>15 DEF Truncate
<1>16. ASSUME NEW s \in Claims, NEW t \in Claims, TruncateFails(s, t)
      PROVE  CauseInv'
  BY <1>16 DEF TruncateFails
<1>17. ASSUME NEW a \in Actors, ReadOwner(a)
      PROVE  CauseInv'
  BY <1>17 DEF ReadOwner, Readable, OwnerMatches, NotStale
<1>18. ASSUME NEW a \in Actors, ReadNothing(a)
      PROVE  CauseInv'
  BY <1>18 DEF ReadNothing, Readable
<1>19. ASSUME NEW a \in Actors, StatFresh(a)
      PROVE  CauseInv'
  BY <1>19 DEF StatFresh, NotStale
<1>20. ASSUME NEW a \in Actors, StatOld(a)
      PROVE  CauseInv'
  BY <1>20 DEF StatOld
<1>21. ASSUME NEW a \in Actors, Remove(a)
      PROVE  CauseInv'
  BY <1>21 DEF Remove, RemoveDirectory, Removed, NoteLateRemoval
<1>22. ASSUME NEW p \in Processes, Crash(p)
      PROVE  CauseInv'
  BY <1>22 DEF Crash
<1>23. ASSUME NEW p \in Processes, Restart(p)
      PROVE  CauseInv'
  BY <1>23 DEF Restart
<1>25. ASSUME NEW s \in Claims, RewriteFails(s)
       PROVE  CauseInv'
  BY <1>25 DEF RewriteFails
<1>26. ASSUME NEW p \in Processes, Reuse(p)
       PROVE  CauseInv'
  BY <1>26 DEF Reuse
<1>24. CASE Age
  BY <1>24 DEF Age, Readable
<1> HIDE PersistentAssumption, PidOf DEF PersistentAssumption, TypeOK, At, Goto,
    processVars, dirVars,
    Status, IndInv, DirectoryOrNothing, AtWorkIsUp, RollbackIsLate, HeirIsOfHouse, Owned,
    Contents, Owning, Making, Using, CauseInv, LapsesHaveCauses, ReadInTime, AllAlive,
    NothingStale, Readable
<1> QED BY <1>1, <1>2, <1>3, <1>4, <1>5, <1>6, <1>7, <1>8, <1>9, <1>10, <1>11, <1>12,
    <1>13, <1>14, <1>15, <1>16, <1>17, <1>18, <1>19, <1>20, <1>21, <1>22, <1>23,
    <1>24, <1>25, <1>26 DEF Next, Acquisition, Releasing, StaleCheck

LEMMA CauseInductive == Spec => []CauseInv
<1>1. IndInv /\ IndInv' /\ CauseInv /\ [Next]_vars => CauseInv'
  <2>1. UNCHANGED vars /\ CauseInv => CauseInv'
    BY DEF vars, processVars, dirVars, CauseInv, LapsesHaveCauses, ReadInTime, AllAlive,
       NothingStale, Readable, Owning, Making, Using
  <2> QED BY <2>1, CauseStep
<1> QED BY InitIndInv, StepIndInv, InitCauseInv, <1>1, PTL DEF Spec

\* Which of the steps of removeIfStale(), handoff() and the rollback of acquire() can go wrong
\* first (target-lock-manager.ts:56-194): the rewriting of owner.json by a handoff, or a
\* removal after a crash.  Neither claims that merely wait, poll, give up and release, nor
\* directories that age, ever take the target from the claim that uses it.
THEOREM LapsesCaused == Spec => []LapsesHaveCauses
<1>1. CauseInv => LapsesHaveCauses
  BY DEF CauseInv
<1> QED BY CauseInductive, <1>1, PTL

\* As long as no process has died, and when no session is handed on, there is no exception.
SafeUntilCrash ==
  Handoffs = {} /\ crashes = 0 =>
    /\ AtMostOneUser
    /\ \A s \in Users : exists /\ file = s
    /\ \A s \in Claims : pc[s] = "unlink" => same[s]

\* Without a crash and without handoffs the lock directory excludes, for any number of
\* processes and claims: one claim uses the target, with its name in owner.json, and what its
\* release() is about to remove is its own directory.
THEOREM SafeWithoutCrash == Spec => []SafeUntilCrash
<1>1. IndInv /\ CauseInv => SafeUntilCrash
  <2> SUFFICES ASSUME IndInv, CauseInv, Handoffs = {}, crashes = 0
               PROVE  /\ AtMostOneUser
                      /\ \A s \in Users : exists /\ file = s
                      /\ \A s \in Claims : pc[s] = "unlink" => same[s]
    BY DEF SafeUntilCrash
  <2>1. lapses = {}
    BY DEF CauseInv, LapsesHaveCauses
  <2>2. \A s \in Claims : pc[s] # "rewrite"
    BY DEF CauseInv
  <2>3. Owned
    BY <2>1 DEF IndInv
  <2>4. AtMostOneUser
    BY <2>3 DEF Owned, Owning, AtMostOneUser, Users
  <2>5. \A s \in Users : exists /\ file = s
    BY <2>2, <2>3, PidOf DEF Owned, Contents, Owning, Using, Users, IndInv, DirectoryOrNothing
  <2>6. \A s \in Claims : pc[s] = "unlink" => same[s]
    BY <2>3 DEF Owned, Owning, Using
  <2> QED BY <2>4, <2>5, <2>6
<1> QED BY InitIndInv, StepIndInv, CauseInductive, <1>1, PTL DEF Spec

--------------------------------------------------------------------------------
(* The lock that the directory implements.                                 *)

\* The heir of a handoff has not been answered, and asks nobody else.
HeirsWait ==
  lapses = {} =>
    \A s \in Claims : pc[s] = "rewrite" => heir[s] \in Claims /\ pc[heir[s]] = "idle"

LEMMA HeirsWaitStep ==
  ASSUME IndInv, HeirsWait, [Next]_vars
  PROVE  HeirsWait'
<1> USE PersistentAssumption, PidOf DEF PersistentAssumption, TypeOK, At, Goto,
    processVars, dirVars,
    HeirsWait
<1>1. ASSUME NEW s \in Claims, Acquire(s)
      PROVE  HeirsWait'
  BY <1>1 DEF Acquire, IndInv, Heirs
<1>2. ASSUME NEW s \in Claims, Acquisition(s) \/ Poll(s) \/ GiveUp(s)
      PROVE  HeirsWait'
  <2>1. pc[s] \notin {"idle", "rewrite"} /\ heir' = heir /\ lapses \subseteq lapses'
    BY <1>2 DEF Acquisition, Mkdir, MkdirExists, Create, CreateExists, CreateFails, Fill,
       Rollback, NoteLateRemoval, Poll, GiveUp
  <2>2. \E to \in Status \ {"rewrite"} : pc' = [pc EXCEPT ![s] = to]
    BY <1>2 DEF Acquisition, Mkdir, MkdirExists, Create, CreateExists, CreateFails, Fill,
       Rollback, NoteLateRemoval, Poll, GiveUp, Status
  <2> QED BY <2>1, <2>2 DEF IndInv
<1>3. ASSUME NEW s \in Claims, Release(s) \/ ReleaseRead(s) \/ Unlink(s)
      PROVE  HeirsWait'
  <2>1. pc[s] \notin {"idle", "rewrite"} /\ heir' = heir /\ lapses \subseteq lapses'
    BY <1>3 DEF Release, ReleaseRead, Unlink, NoteLateRemoval
  <2>2. \E to \in Status \ {"rewrite"} : pc' = [pc EXCEPT ![s] = to]
    BY <1>3 DEF Release, ReleaseRead, Unlink, Status
  <2> QED BY <2>1, <2>2 DEF IndInv
<1>4. ASSUME NEW s \in Claims, Rewrite(s)
      PROVE  HeirsWait'
  <2>1. ASSUME lapses = {}, NEW t \in Claims, pc[t] = "rewrite"
        PROVE  t = s
    BY <1>4, <2>1 DEF Rewrite, IndInv, Owned, Owning, Using
  <2> QED BY <1>4, <2>1 DEF Rewrite, IndInv
<1>5. ASSUME NEW s \in Claims, NEW t \in Claims, Truncate(s, t)
      PROVE  HeirsWait'
  BY <1>5 DEF Truncate, IndInv
<1>6. ASSUME NEW s \in Claims, NEW t \in Claims, TruncateFails(s, t)
      PROVE  HeirsWait'
  <2>1. lapses # {}
    BY <1>6 DEF TruncateFails, IndInv, Owned, Owning, Using, DirectoryOrNothing
  <2> QED BY <1>6, <2>1 DEF TruncateFails
<1>7. ASSUME NEW a \in Actors, StaleCheck(a)
      PROVE  HeirsWait'
  <2>1. pc[a] \in {"read", "stat", "remove"} /\ heir' = heir /\ lapses \subseteq lapses'
    BY <1>7 DEF StaleCheck, ReadOwner, ReadNothing, StatFresh, StatOld, Remove, NoteLateRemoval
  <2>2. \E to \in Status \ {"rewrite"} : pc' = [pc EXCEPT ![a] = to]
    BY <1>7 DEF StaleCheck, ReadOwner, ReadNothing, StatFresh, StatOld, Remove, NotStale, Removed,
       Status
  <2> QED BY <2>1, <2>2 DEF IndInv
<1>8. ASSUME NEW p \in Processes, Crash(p)
      PROVE  HeirsWait'
  BY <1>8 DEF Crash, IndInv
<1>9. ASSUME NEW p \in Processes, Restart(p)
      PROVE  HeirsWait'
  BY <1>9 DEF Restart, IndInv
<1>10. CASE Age \/ UNCHANGED vars \/ \E p \in Processes : Reuse(p)
  BY <1>10 DEF Age, Reuse, vars
<1>11. ASSUME NEW s \in Claims, RewriteFails(s)
       PROVE  HeirsWait'
  BY <1>11 DEF RewriteFails, IndInv
<1> HIDE PersistentAssumption, PidOf DEF PersistentAssumption, TypeOK, At, Goto,
    processVars, dirVars,
    HeirsWait
<1> QED BY <1>1, <1>2, <1>3, <1>4, <1>5, <1>6, <1>7, <1>8, <1>9, <1>10, <1>11
    DEF Next, Releasing

\* Until a lapse the one claim that uses the target is the owner.
LEMMA OwnerIs ==
  ASSUME Owned
  PROVE  /\ \A s \in Claims : pc[s] \in Using => Owner = s
         /\ (\A s \in Claims : pc[s] \notin Using) => Owner = None
BY DEF Owned, Owning, Owner, Owners

\* A step in which nobody begins or ends to ask, to use or to hand on is not one of the lock.
LEMMA Stutters ==
  ASSUME heir' = heir,
         \A s \in Claims : /\ pc'[s] \in Trying <=> pc[s] \in Trying
                           /\ pc'[s] \in Using <=> pc[s] \in Using
                           /\ pc'[s] = "idle" <=> pc[s] = "idle"
                           /\ pc'[s] = "rewrite" <=> pc[s] = "rewrite"
  PROVE  UNCHANGED Lock!vars
<1>1. Owners' = Owners
  BY DEF Owners
<1>2. Owner' = Owner
  BY <1>1 DEF Owner
<1>3. Heirs' = Heirs
  BY DEF Heirs
<1>4. Asking' = Asking /\ Answered' = Answered
  BY <1>3 DEF Asking, Answered
<1> QED BY <1>2, <1>4 DEF Lock!vars

\* What acquire() and removeIfStale() do before they return is nobody else's business.
LEMMA TryingStutters ==
  ASSUME IndInv, NEW a \in Actors,
         \/ a \in Claims /\ (\/ Mkdir(a) \/ MkdirExists(a) \/ Create(a) \/ CreateExists(a)
                             \/ CreateFails(a) \/ Poll(a))
         \/ StaleCheck(a)
  PROVE  UNCHANGED Lock!vars
<1> USE DEF At, Goto
<1>1. \E to \in Trying \union {"ready"} :
        pc' = [pc EXCEPT ![a] = to] /\ (a \in Claims => to \in Trying)
  BY PersistentAssumption
     DEF PersistentAssumption, Mkdir, MkdirExists, Create, CreateExists, CreateFails, Poll,
     StaleCheck, ReadOwner, ReadNothing, StatFresh, StatOld, Remove, NotStale, Removed, Trying,
     Acquiring
<1>2. pc[a] \in Trying /\ heir' = heir
  BY DEF Mkdir, MkdirExists, Create, CreateExists, CreateFails, Poll, StaleCheck, ReadOwner,
     ReadNothing, StatFresh, StatOld, Remove, Trying, Acquiring
<1> QED BY <1>1, <1>2, Stutters DEF IndInv, TypeOK, Trying, Acquiring, Using

LEMMA AskingRefines ==
  ASSUME IndInv, NEW s \in Claims, Acquire(s)
  PROVE  Lock!Ask(s)
<1>1. pc[s] = "idle" /\ s \notin Heirs /\ pc' = [pc EXCEPT ![s] = "mkdir"] /\ heir' = heir
  BY DEF Acquire, At, Goto
<1>2. pc \in [Actors -> Status] /\ s \in Actors
  BY PidOf DEF IndInv, TypeOK
<1>3. Heirs' = Heirs
  BY <1>1, <1>2 DEF Heirs
<1>4. Asking' = Asking \union {s} /\ s \notin Asking /\ s \notin Answered /\ Answered' = Answered
  BY <1>1, <1>2, <1>3, PidOf DEF Asking, Answered, Trying, Acquiring
<1>5. Owners' = Owners
  BY <1>1, <1>2, PidOf DEF Owners, Using
<1> QED BY <1>4, <1>5 DEF Lock!Ask, Owner

LEMMA RefusingRefines ==
  ASSUME IndInv, NEW s \in Claims, GiveUp(s) \/ Rollback(s), s \notin Heirs
  PROVE  Lock!Refuse({s})
<1>1. pc[s] \in Trying \ {"idle"} /\ pc' = [pc EXCEPT ![s] = "failed"] /\ heir' = heir
  BY DEF GiveUp, Rollback, At, Goto, Trying, Acquiring
<1>2. pc \in [Actors -> Status] /\ s \in Actors
  BY PidOf DEF IndInv, TypeOK
<1>3. Heirs' = Heirs
  BY <1>1, <1>2, PidOf DEF Heirs, Trying, Acquiring
<1>4. Asking' = Asking \ {s} /\ s \notin Answered /\ Answered' = Answered \union {s}
  BY <1>1, <1>2, <1>3, PidOf DEF Asking, Answered, Trying, Acquiring
<1>5. Owners' = Owners
  BY <1>1, <1>2, PidOf DEF Owners, Using, Trying, Acquiring
<1> QED BY <1>4, <1>5 DEF Lock!Refuse, Owner

LEMMA GrantRefines ==
  ASSUME IndInv, Owned, Owned', NEW s \in Claims, Fill(s), s \notin Heirs
  PROVE  Lock!Grant(s)
<1>1. pc[s] = "fill" /\ pc' = [pc EXCEPT ![s] = "held"] /\ heir' = heir
  BY DEF Fill, At, Goto
<1>2. pc \in [Actors -> Status] /\ s \in Actors
  BY PidOf DEF IndInv, TypeOK
<1>3. Heirs' = Heirs
  BY <1>1, <1>2, PidOf DEF Heirs
<1>4. Asking' = Asking \ {s} /\ s \in Asking /\ Answered' = Answered \union {s}
  BY <1>1, <1>2, <1>3, PidOf DEF Asking, Answered, Trying, Acquiring
<1>5. Owner = None
  BY <1>1, OwnerIs DEF Owned, Owning, Making, Using
<1>6. pc'[s] \in Using
  BY <1>1, <1>2 DEF Using
<1>7. Owner' = s
  BY <1>6 DEF Owned, Owning, Owner, Owners
<1> QED BY <1>4, <1>5, <1>7 DEF Lock!Grant

\* truncate() is when the queue of the process comes to its next request.
LEMMA TruncateRefines ==
  ASSUME IndInv, Owned, NEW s \in Claims, NEW t \in Claims, Truncate(s, t)
  PROVE  Lock!Ask(t)
<1>1. /\ pc[s] = "held" /\ pc[t] = "idle" /\ pc' = [pc EXCEPT ![s] = "rewrite"]
      /\ heir' = [heir EXCEPT ![s] = t]
  BY DEF Truncate, At, Goto
<1>2. /\ pc \in [Actors -> Status] /\ s \in Actors /\ t \in Actors
      /\ heir \in [Claims -> Claims \union {None}]
  BY PidOf DEF IndInv, TypeOK
<1>3. \A h \in Claims : pc[h] # "rewrite"
  BY <1>1 DEF Owned, Owning, Using
<1>4. Heirs = {} /\ Heirs' = {t}
  BY <1>1, <1>2, <1>3, PidOf DEF Heirs
<1>5. Asking' = Asking \union {t} /\ t \notin Asking /\ t \notin Answered /\ Answered' = Answered
  BY <1>1, <1>2, <1>4, PidOf DEF Asking, Answered, Trying, Acquiring
<1>6. Owners' = Owners
  BY <1>1, <1>2, PidOf DEF Owners, Using
<1> QED BY <1>5, <1>6 DEF Lock!Ask, Owner

LEMMA PassRefines ==
  ASSUME IndInv, Owned, Owned', HeirsWait, lapses = {}, NEW s \in Claims, Rewrite(s)
  PROVE  Lock!Pass(heir[s])
<1>1. /\ pc[s] = "rewrite" /\ pc' = [pc EXCEPT ![s] = "done", ![heir[s]] = "held"]
      /\ heir' = [heir EXCEPT ![s] = None]
  BY DEF Rewrite, At
<1>2. heir[s] \in Claims /\ pc[heir[s]] = "idle"
  BY <1>1 DEF HeirsWait
<1>3. pc \in [Actors -> Status] /\ s \in Actors /\ heir[s] \in Actors /\ heir[s] # s
  BY <1>1, <1>2, PidOf DEF IndInv, TypeOK
<1>4. \A h \in Claims : pc[h] = "rewrite" => h = s
  BY <1>1 DEF Owned, Owning, Using
<1>5. Heirs = {heir[s]} /\ Heirs' = {}
  BY <1>1, <1>2, <1>3, <1>4, PidOf DEF Heirs
<1>6. /\ heir[s] \in Asking /\ Asking' = Asking \ {heir[s]}
      /\ Answered' = Answered \union {heir[s]}
  BY <1>1, <1>2, <1>3, <1>5, PidOf DEF Asking, Answered, Trying, Acquiring
<1>7. Owner = s
  BY <1>1, OwnerIs DEF Using
<1>8. pc'[heir[s]] \in Using
  BY <1>1, <1>3 DEF Using
<1>9. Owner' = heir[s]
  BY <1>2, <1>8 DEF Owned, Owning, Owner, Owners
<1> QED BY <1>6, <1>7, <1>9, PersistentAssumption DEF Lock!Pass, PersistentAssumption

LEMMA ReleaseRefines ==
  ASSUME IndInv, Owned, NEW s \in Claims, Unlink(s) \/ (ReleaseRead(s) /\ pc'[s] = "done")
  PROVE  Lock!Release
<1>1. pc[s] \in {"unread", "unlink"} /\ pc' = [pc EXCEPT ![s] = "done"] /\ heir' = heir
  BY PidOf DEF Unlink, ReleaseRead, At, Goto, IndInv, TypeOK
<1>2. pc \in [Actors -> Status] /\ s \in Actors
  BY PidOf DEF IndInv, TypeOK
<1>3. Heirs' = Heirs
  BY <1>1, <1>2, PidOf DEF Heirs
<1>4. Asking' = Asking /\ Answered' = Answered
  BY <1>1, <1>2, <1>3, PidOf DEF Asking, Answered, Trying, Acquiring
<1>5. Owner = s
  BY <1>1, OwnerIs DEF Using
<1>6. Owners' = {}
  BY <1>1, <1>2, PidOf DEF Owned, Owning, Owners, Using
<1>7. Owner' = None
  BY <1>6 DEF Owner
<1> QED BY <1>4, <1>5, <1>7, PersistentAssumption DEF Lock!Release, PersistentAssumption

\* A directory that was never taken away is there, and names the claim that releases it.
LEMMA StepRefinesLock ==
  ASSUME IndInv, IndInv', HeirsWait, [Next]_vars, lapses' = {}, crashes' = crashes
  PROVE  [Lock!Next]_(Lock!vars)
<1>1. lapses = {} /\ Owned /\ Owned'
  <2>1. lapses = {}
    BY DEF Next, Acquisition, Releasing, StaleCheck, Acquire, Mkdir, MkdirExists, Create,
       CreateExists, CreateFails, Fill, Rollback, Poll, GiveUp, Release, ReleaseRead, Unlink,
       Rewrite, RewriteFails, Truncate, TruncateFails, ReadOwner, ReadNothing, StatFresh, StatOld,
       Remove, Crash, Restart, Reuse, Age, NoteLateRemoval, vars
  <2> QED BY <2>1 DEF IndInv
<1>2. \A s \in Claims : pc[s] # "idle" => s \notin Heirs
  BY <1>1 DEF Heirs, HeirsWait
<1>3. ASSUME NEW s \in Claims, Acquire(s)
      PROVE  Lock!Next
  BY <1>3, AskingRefines DEF Lock!Next
<1>4. ASSUME NEW s \in Claims, \/ Mkdir(s) \/ MkdirExists(s) \/ Create(s) \/ CreateExists(s)
                               \/ CreateFails(s) \/ Poll(s)
      PROVE  UNCHANGED Lock!vars
  BY <1>4, TryingStutters, PidOf
<1>5. ASSUME NEW s \in Claims, Fill(s)
      PROVE  Lock!Next
  <2>1. s \notin Heirs
    BY <1>2, <1>5 DEF Fill, At
  <2> QED BY <1>1, <1>5, <2>1, GrantRefines DEF Lock!Next
<1>6. ASSUME NEW s \in Claims, GiveUp(s) \/ Rollback(s)
      PROVE  Lock!Next
  <2>1. s \notin Heirs
    BY <1>2, <1>6 DEF GiveUp, Rollback, At
  <2>2. {s} \in SUBSET Claims
    OBVIOUS
  <2> QED BY <1>6, <2>1, <2>2, RefusingRefines DEF Lock!Next
<1>7. ASSUME NEW s \in Claims, Release(s)
      PROVE  UNCHANGED Lock!vars
  <2>1. pc[s] = "held" /\ pc' = [pc EXCEPT ![s] = "unread"] /\ heir' = heir
    BY <1>7 DEF Release, At, Goto
  <2> QED BY <2>1, Stutters, PidOf DEF IndInv, TypeOK, Trying, Acquiring, Using
<1>8. ASSUME NEW s \in Claims, ReleaseRead(s)
      PROVE  UNCHANGED Lock!vars
  <2>1. pc[s] = "unread" /\ heir' = heir
    BY <1>8 DEF ReleaseRead, At
  <2>2. Readable /\ file = s
    BY <1>1, <2>1, PidOf
       DEF Owned, Owning, Using, Contents, Readable, IndInv, DirectoryOrNothing
  <2>3. pc' = [pc EXCEPT ![s] = "unlink"]
    BY <1>8, <2>2 DEF ReleaseRead, Goto
  <2> QED BY <2>1, <2>3, Stutters, PidOf DEF IndInv, TypeOK, Trying, Acquiring, Using
<1>9. ASSUME NEW s \in Claims, Unlink(s)
      PROVE  Lock!Next
  BY <1>1, <1>9, ReleaseRefines DEF Lock!Next
<1>10. ASSUME NEW s \in Claims, Rewrite(s)
       PROVE  Lock!Next
  <2>1. heir[s] \in Claims
    BY <1>1, <1>10 DEF Rewrite, At, HeirsWait
  <2> QED BY <1>1, <1>10, <2>1, PassRefines DEF Lock!Next
<1>11. ASSUME NEW s \in Claims, NEW t \in Claims, Truncate(s, t)
       PROVE  Lock!Next
  BY <1>1, <1>11, TruncateRefines DEF Lock!Next
<1>12. ASSUME NEW s \in Claims, NEW t \in Claims, TruncateFails(s, t)
       PROVE  FALSE
  BY <1>1, <1>12, PidOf DEF TruncateFails, At, Owned, Owning, Using, IndInv, DirectoryOrNothing
<1>13. ASSUME NEW a \in Actors, StaleCheck(a)
       PROVE  UNCHANGED Lock!vars
  BY <1>13, TryingStutters
<1>14. ASSUME NEW p \in Processes, Crash(p)
       PROVE  FALSE
  BY <1>14 DEF Crash, IndInv, TypeOK
<1>15. ASSUME NEW p \in Processes, Restart(p)
       PROVE  UNCHANGED Lock!vars
  <2>1. pc' = [pc EXCEPT ![p] = "read"] /\ heir' = heir
    BY <1>15 DEF Restart, Goto
  <2>2. \A s \in Claims : pc'[s] = pc[s]
    BY <2>1, PidOf DEF IndInv, TypeOK
  <2> QED BY <2>1, <2>2, Stutters
<1>16. CASE Age \/ UNCHANGED vars \/ \E p \in Processes : Reuse(p)
  <2>1. pc' = pc /\ heir' = heir
    BY <1>16 DEF Age, Reuse, vars
  <2> QED BY <2>1, Stutters
<1>17. ASSUME NEW s \in Claims, RewriteFails(s)
       PROVE  FALSE
  BY <1>17 DEF RewriteFails
<1> QED BY <1>3, <1>4, <1>5, <1>6, <1>7, <1>8, <1>9, <1>10, <1>11, <1>12, <1>13, <1>14, <1>15,
    <1>16, <1>17 DEF Next, Acquisition, Releasing

LEMMA BeginsAsLock == Init => Lock!Init /\ HeirsWait
<1> SUFFICES ASSUME Init
             PROVE  Lock!Init /\ HeirsWait
  OBVIOUS
<1>1. \A s \in Claims : pc[s] = "idle"
  BY PersistentAssumption DEF PersistentAssumption, Init, Actors
<1> QED BY <1>1 DEF Lock!Init, HeirsWait, Owner, Owners, Using, Asking, Heirs, Answered, Trying,
    Acquiring

LEMMA HeirsAlwaysWait == Spec => []HeirsWait
<1>1. IndInv /\ HeirsWait /\ [Next]_vars => HeirsWait'
  BY HeirsWaitStep
<1> QED BY InitIndInv, StepIndInv, BeginsAsLock, <1>1, PTL DEF Spec

\* Processes that share nothing but a directory and its owner.json, with their stale checks,
\* polls, handoffs and restarts, are a lock, until a removal or a torn read goes wrong: the
\* target is granted when nobody owns it, or passed to a claim that was asked to wait for it.
THEOREM DirectoryIsLock == Spec => LockBetweenCrashes
<1>1. IndInv /\ IndInv' /\ HeirsWait /\ [Next]_vars =>
        [lapses' = {} /\ crashes' = crashes => [Lock!Next]_(Lock!vars)]_vars
  BY StepRefinesLock
<1> QED BY InitIndInv, StepIndInv, HeirsAlwaysWait, <1>1, PTL DEF Spec, LockBetweenCrashes

\* Without crashes and handoffs there is no lapse, and nothing to except: the directory
\* implements the specification of the lock.
THEOREM ImplementsWithoutCrash ==
  ASSUME Handoffs = {}, MaxCrashes = 0
  PROVE  Spec => Lock!Spec
<1> DEFINE Spared  == crashes = 0
           NoLapse == lapses = {}
<1>1. Init => Spared
  BY DEF Init
<1>2. Spared /\ [Next]_vars => Spared'
  BY DEF Next, Acquisition, Releasing, StaleCheck, Acquire, Mkdir, MkdirExists, Create,
     CreateExists, CreateFails, Fill, Rollback, Poll, GiveUp, Release, ReleaseRead, Unlink,
     Rewrite, RewriteFails, Truncate, TruncateFails, ReadOwner, ReadNothing, StatFresh, StatOld,
     Remove, Crash, Restart, Reuse, Age, vars, processVars, dirVars
<1>3. Spared /\ CauseInv => NoLapse
  BY DEF CauseInv, LapsesHaveCauses
<1>4. IndInv /\ IndInv' /\ HeirsWait /\ [Next]_vars /\ NoLapse' /\ Spared /\ Spared'
        => [Lock!Next]_(Lock!vars)
  BY StepRefinesLock
<1> HIDE DEF Spared, NoLapse
<1> QED BY InitIndInv, StepIndInv, BeginsAsLock, HeirsAlwaysWait, CauseInductive, <1>1, <1>2,
    <1>3, <1>4, PTL DEF Spec, Lock!Spec
===============================================================================
