---------------------------- MODULE PersistentLock ----------------------------
(***************************************************************************)
(* PersistentTargetLock (src/src/automation/target-lock-manager.ts, lines  *)
(* 39-194): the lock directory of one target, shared by every Testbench    *)
(* process of the computer.  A claim is one acquire()..release() of a      *)
(* session; a process that starts runs cleanup() before its claims.  Every *)
(* awaited file operation is a step of its own, so that the processes      *)
(* interleave, and a process may die between any two of them.              *)
(*                                                                         *)
(* A process is identified by its pid; one that is started again under the *)
(* same pid differs in processStartedAt only.  The pid of a dead process   *)
(* may also go to a program that is no Testbench: it exists, and knows     *)
(* nothing of locks.  rm of a directory with one file in it is a single    *)
(* step.                                                                   *)
(***************************************************************************)
EXTENDS Naturals

CONSTANTS
  Processes,   \* the pids
  Claims,      \* the sessions that want the target
  HomeOf,      \* the process of each claim
  Patient,     \* the claims whose timeout is never reached
  Handoffs,    \* the pairs <<s, t>> where s may hand the lock on to t
  None,
  MaxCrashes   \* bound on dying processes

ASSUME PersistentAssumption ==
  /\ HomeOf \in [Claims -> Processes]
  /\ Claims \intersect Processes = {}
  /\ Patient \subseteq Claims
  /\ Handoffs \subseteq {st \in Claims \X Claims : HomeOf[st[1]] = HomeOf[st[2]]}
  /\ None \notin Claims /\ {"absent", "empty"} \intersect Claims = {}
  /\ MaxCrashes \in Nat

VARIABLES
  up,       \* is there a Testbench process with this pid?
  reused,   \* does an unrelated program have this pid?
  started,  \* processStartedAt of the process that has, or last had, the pid
  exists,   \* does the lock directory exist?
  old,      \* was it modified 5 seconds ago or earlier?
  file,     \* owner.json: "absent", "empty" or the claim it names
  stamp,    \* processStartedAt in owner.json
  pc,       \* where each claim, and each process's cleanup(), is suspended
  same,     \* is the directory the actor last made or judged still in place?
  heir,     \* the claim a handoff is writing
  crashes,
  lapses    \* history: the ways a directory in use was lost or lost its name

vars ==
  <<up, reused, started, exists, old, file, stamp, pc, same, heir, crashes, lapses>>
processVars == <<up, reused, started>>
dirVars == <<exists, old, file, stamp>>

Actors == Claims \union Processes
Pid(a) == IF a \in Processes THEN a ELSE HomeOf[a]

Status ==
  {"idle", "mkdir", "create", "fill", "rollback", "read", "stat", "remove",
   "wait", "held", "rewrite", "unread", "unlink", "done", "failed", "dead",
   "ready"}

Using == {"held", "rewrite", "unread", "unlink"}
Acquiring == {"mkdir", "create", "fill", "read", "stat", "remove", "wait"}

TypeOK ==
  /\ up \in [Processes -> BOOLEAN]
  /\ reused \in [Processes -> BOOLEAN]
  /\ started \in [Processes -> Nat]
  /\ exists \in BOOLEAN
  /\ old \in BOOLEAN
  /\ file \in Claims \union {"absent", "empty"}
  /\ stamp \in Nat
  /\ pc \in [Actors -> Status]
  /\ same \in [Actors -> BOOLEAN]
  /\ heir \in [Claims -> Claims \union {None}]
  /\ crashes \in Nat
  /\ lapses \subseteq {"lateRemoval", "tornRead", "lostName"}

Init ==
  /\ up = [p \in Processes |-> TRUE]
  /\ reused = [p \in Processes |-> FALSE]
  /\ started = [p \in Processes |-> 0]
  /\ exists = FALSE
  /\ old = FALSE
  /\ file = "absent"
  /\ stamp = 0
  /\ pc = [a \in Actors |-> IF a \in Processes THEN "read" ELSE "idle"]
  /\ same = [a \in Actors |-> FALSE]
  /\ heir = [s \in Claims |-> None]
  /\ crashes = 0
  /\ lapses = {}

At(a, where) == up[Pid(a)] /\ pc[a] = where
Goto(a, where) == pc' = [pc EXCEPT ![a] = where]

\* rm -rf of whatever directory is at the path by now.
RemoveDirectory ==
  /\ exists' = FALSE
  /\ old' = FALSE
  /\ file' = "absent"
  /\ stamp' = 0
  /\ same' = [a \in Actors |-> FALSE]

\* The directory removed is not the one that was judged or made.
NoteLateRemoval(a) ==
  lapses' = IF exists /\ ~same[a] THEN lapses \union {"lateRemoval"} ELSE lapses

-------------------------------------------------------------------------------
(* acquire()                                                               *)

\* The claims that handoffs in progress are for.
Heirs == {heir[s] : s \in {h \in Claims : pc[h] = "rewrite"}}

\* Mutant: a request that waits in the queue of its process polls as well.
AcquireAsWell(s) ==
  /\ At(s, "idle")
  /\ pc[Pid(s)] = "ready"
  /\ Goto(s, "mkdir")
  /\ UNCHANGED <<processVars, dirVars, same, heir, crashes, lapses>>

\* The process's managers let nobody in before cleanup() is through.  An heir
\* waits in the queue of its process instead.
Acquire(s) ==
  /\ At(s, "idle")
  /\ pc[Pid(s)] = "ready"
  /\ s \notin Heirs
  /\ Goto(s, "mkdir")
  /\ UNCHANGED <<processVars, dirVars, same, heir, crashes, lapses>>

Mkdir(s) ==
  /\ At(s, "mkdir")
  /\ ~exists
  /\ exists' = TRUE
  /\ old' = FALSE
  /\ same' = [same EXCEPT ![s] = TRUE]
  /\ Goto(s, "create")
  /\ UNCHANGED <<processVars, file, stamp, heir, crashes, lapses>>

MkdirExists(s) ==
  /\ At(s, "mkdir")
  /\ exists
  /\ Goto(s, "read")
  /\ UNCHANGED <<processVars, dirVars, same, heir, crashes, lapses>>

\* writeFile with flag 'wx' opens the file exclusively, then writes it.
Create(s) ==
  /\ At(s, "create")
  /\ exists
  /\ file = "absent"
  /\ file' = "empty"
  /\ same' = [same EXCEPT ![s] = TRUE]
  /\ Goto(s, "fill")
  /\ UNCHANGED <<processVars, exists, old, stamp, heir, crashes, lapses>>

\* EEXIST: another claim has written owner.json into the directory meanwhile.
CreateExists(s) ==
  /\ At(s, "create")
  /\ exists
  /\ file # "absent"
  /\ Goto(s, "read")
  /\ UNCHANGED <<processVars, dirVars, same, heir, crashes, lapses>>

\* ENOENT: the directory is gone.
CreateFails(s) ==
  /\ At(s, "create")
  /\ ~exists
  /\ Goto(s, "rollback")
  /\ UNCHANGED <<processVars, dirVars, same, heir, crashes, lapses>>

\* Mutant: the metadata names the process instead of the session.
WriteProcess(s, t) ==
  IF same[s]
  THEN file' = Pid(t) /\ stamp' = started[Pid(s)]
  ELSE UNCHANGED <<file, stamp>>

\* The content goes to the file that was opened, even if it was unlinked since.
WriteOwner(s, t) ==
  IF same[s]
  THEN file' = t /\ stamp' = started[Pid(s)]
  ELSE UNCHANGED <<file, stamp>>

Fill(s) ==
  /\ At(s, "fill")
  /\ WriteOwner(s, s)
  /\ Goto(s, "held")
  /\ UNCHANGED <<processVars, exists, old, same, heir, crashes, lapses>>

\* Not EEXIST: rm the path and throw.
Rollback(s) ==
  /\ At(s, "rollback")
  /\ RemoveDirectory
  /\ NoteLateRemoval(s)
  /\ Goto(s, "failed")
  /\ UNCHANGED <<processVars, heir, crashes>>

Poll(s) ==
  /\ At(s, "wait")
  /\ Goto(s, "mkdir")
  /\ UNCHANGED <<processVars, dirVars, same, heir, crashes, lapses>>

GiveUp(s) ==
  /\ At(s, "wait")
  /\ s \notin Patient
  /\ Goto(s, "failed")
  /\ UNCHANGED <<processVars, dirVars, same, heir, crashes, lapses>>

-------------------------------------------------------------------------------
(* removeIfStale(), called by acquire() and by cleanup().                  *)

NotStale(a) == IF a \in Processes THEN "ready" ELSE "wait"
Removed(a)  == IF a \in Processes THEN "ready" ELSE "mkdir"

\* read() gets no metadata from a file that is missing or still empty.
Readable == exists /\ file \in Claims

\* Mutants: a lock of another process is never believed; a lock of the own pid
\* always is.
OwnerMatchesOwnOnly(a) == Pid(file) = Pid(a) /\ stamp = started[Pid(a)]
OwnerMatchesPidOnly(a) == up[Pid(file)] \/ reused[Pid(file)]

\* processMatches(): another pid only has to exist, whoever has it.
OwnerMatches(a) ==
  IF Pid(file) # Pid(a) THEN up[Pid(file)] \/ reused[Pid(file)]
  ELSE stamp = started[Pid(a)]

ReadOwner(a) ==
  /\ At(a, "read")
  /\ Readable
  /\ Goto(a, IF OwnerMatches(a) THEN NotStale(a) ELSE "remove")
  /\ same' = [same EXCEPT ![a] = TRUE]
  /\ UNCHANGED <<processVars, dirVars, heir, crashes, lapses>>

ReadNothing(a) ==
  /\ At(a, "read")
  /\ ~Readable
  /\ Goto(a, "stat")
  /\ same' = [same EXCEPT ![a] = exists]
  /\ UNCHANGED <<processVars, dirVars, heir, crashes, lapses>>

\* A directory without metadata is stale once it is 5 seconds old.
StatFresh(a) ==
  /\ At(a, "stat")
  /\ ~exists \/ ~old
  /\ Goto(a, NotStale(a))
  /\ UNCHANGED <<processVars, dirVars, same, heir, crashes, lapses>>

StatOld(a) ==
  /\ At(a, "stat")
  /\ exists
  /\ old
  /\ Goto(a, "remove")
  /\ lapses' = IF same[a] /\ \E s \in Claims : pc[s] \in Using /\ same[s]
               THEN lapses \union {"tornRead"} ELSE lapses
  /\ UNCHANGED <<processVars, dirVars, same, heir, crashes>>

Remove(a) ==
  /\ At(a, "remove")
  /\ RemoveDirectory
  /\ NoteLateRemoval(a)
  /\ Goto(a, Removed(a))
  /\ UNCHANGED <<processVars, heir, crashes>>

-------------------------------------------------------------------------------
(* handoff() and release()                                                 *)

\* writeFile without a flag truncates owner.json, then writes it.
Truncate(s, t) ==
  /\ At(s, "held")
  /\ <<s, t>> \in Handoffs
  /\ pc[t] = "idle"
  /\ exists
  /\ file' = "empty"
  /\ same' = [same EXCEPT ![s] = TRUE]
  /\ heir' = [heir EXCEPT ![s] = t]
  /\ Goto(s, "rewrite")
  /\ UNCHANGED <<processVars, exists, old, stamp, crashes, lapses>>

\* ENOENT: the heir's request is rejected, the holder may release again.
TruncateFails(s, t) ==
  /\ At(s, "held")
  /\ <<s, t>> \in Handoffs
  /\ pc[t] = "idle"
  /\ ~exists
  /\ Goto(t, "failed")
  /\ UNCHANGED <<processVars, dirVars, same, heir, crashes, lapses>>

Rewrite(s) ==
  /\ At(s, "rewrite")
  /\ WriteOwner(s, heir[s])
  /\ pc' = [pc EXCEPT ![s] = "done", ![heir[s]] = "held"]
  /\ same' = [same EXCEPT ![heir[s]] = same[s]]
  /\ heir' = [heir EXCEPT ![s] = None]
  /\ UNCHANGED <<processVars, exists, old, crashes, lapses>>

\* The write fails after the truncation: owner.json stays empty, the heir's request is
\* rejected, and the holder may release again.
RewriteFails(s) ==
  /\ At(s, "rewrite")
  /\ pc' = [pc EXCEPT ![s] = "held", ![heir[s]] = "failed"]
  /\ heir' = [heir EXCEPT ![s] = None]
  /\ lapses' = lapses \union {"lostName"}
  /\ UNCHANGED <<processVars, dirVars, same, crashes>>

Release(s) ==
  /\ At(s, "held")
  /\ Goto(s, "unread")
  /\ UNCHANGED <<processVars, dirVars, same, heir, crashes, lapses>>

\* Nothing to release unless the metadata names this session of this process.
ReleaseRead(s) ==
  /\ At(s, "unread")
  /\ Goto(s, IF Readable /\ file = s THEN "unlink" ELSE "done")
  /\ same' = [same EXCEPT ![s] = exists]
  /\ UNCHANGED <<processVars, dirVars, heir, crashes, lapses>>

Unlink(s) ==
  /\ At(s, "unlink")
  /\ RemoveDirectory
  /\ NoteLateRemoval(s)
  /\ Goto(s, "done")
  /\ UNCHANGED <<processVars, heir, crashes>>

-------------------------------------------------------------------------------
(* The processes and the clock.                                            *)

\* SIGKILL, power loss: the directory stays as it is.
Crash(p) ==
  /\ up[p]
  /\ crashes < MaxCrashes
  /\ crashes' = crashes + 1
  /\ up' = [up EXCEPT ![p] = FALSE]
  /\ pc' = [a \in Actors |->
              IF Pid(a) = p /\ pc[a] \notin {"idle", "done", "failed"}
              THEN "dead" ELSE pc[a]]
  /\ UNCHANGED <<reused, started, dirVars, same, heir, lapses>>

\* A Testbench process with this pid again: its constructor runs cleanup().
Restart(p) ==
  /\ ~up[p]
  /\ ~reused[p]
  /\ up' = [up EXCEPT ![p] = TRUE]
  /\ started' = [started EXCEPT ![p] = @ + 1]
  /\ Goto(p, "read")
  /\ UNCHANGED <<reused, dirVars, same, heir, crashes, lapses>>

\* Some other program gets the pid, runs for as long as it likes, and ends.
Reuse(p) ==
  /\ ~up[p]
  /\ reused' = [reused EXCEPT ![p] = ~@]
  /\ UNCHANGED <<up, started, dirVars, pc, same, heir, crashes, lapses>>

\* The directory turns 5 seconds old.  A live process is assumed to get from
\* mkdir to a written owner.json, through a handoff, and from a read that came
\* before that to the stat that follows it, in much less, which is what the grace
\* period is for.
Age ==
  /\ exists
  /\ ~old
  /\ \A s \in Claims : pc[s] \in {"create", "fill", "rewrite"} => ~same[s]
  /\ \A a \in Actors : pc[a] = "stat" => ~Readable
  /\ old' = TRUE
  /\ UNCHANGED <<processVars, exists, file, stamp, pc, same, heir, crashes, lapses>>

Acquisition(s) ==
  \/ Mkdir(s) \/ MkdirExists(s)
  \/ Create(s) \/ CreateExists(s) \/ CreateFails(s)
  \/ Fill(s) \/ Rollback(s)

StaleCheck(a) ==
  ReadOwner(a) \/ ReadNothing(a) \/ StatFresh(a) \/ StatOld(a) \/ Remove(a)

Releasing(s) ==
  Release(s) \/ ReleaseRead(s) \/ Unlink(s) \/ Rewrite(s) \/ RewriteFails(s)

Next ==
  \/ \E s \in Claims :
       \/ Acquire(s) \/ Acquisition(s) \/ Poll(s) \/ GiveUp(s)
       \/ Releasing(s)
       \/ \E t \in Claims : Truncate(s, t) \/ TruncateFails(s, t)
  \/ \E a \in Actors : StaleCheck(a)
  \/ \E p \in Processes : Crash(p) \/ Restart(p) \/ Reuse(p)
  \/ Age

Spec == Init /\ [][Next]_vars

(***************************************************************************)
(* Fairness: file operations complete, a claim that waits polls again,     *)
(* sessions end, and time passes.  Nobody has to start a claim, to die or  *)
(* to be started again, and a program that got the pid of a dead process   *)
(* may run for ever.                                                       *)
(***************************************************************************)
Fairness ==
  /\ \A s \in Claims :
       WF_vars(Acquisition(s)) /\ WF_vars(Poll(s)) /\ WF_vars(Releasing(s))
  /\ \A a \in Actors : WF_vars(StaleCheck(a))
  /\ WF_vars(Age)

FairSpec == Spec /\ Fairness

-------------------------------------------------------------------------------
(* Properties.                                                             *)

Users == {s \in Claims : pc[s] \in Using /\ up[HomeOf[s]]}

\* One claim of one process uses the target at a time (unit test
\* target-lock-manager.test.ts:54, "keeps a live process lock across managers").
AtMostOneUser == \A s, t \in Users : s = t

\* There are three ways only to lose that: a removal decided on one directory
\* that reaches a newer one, a read between the truncation and the rewriting of
\* owner.json, and a rewriting that fails in between and leaves it empty.
\* Short of those, a live claim that uses the target finds its own name in
\* owner.json, or is the one rewriting it.
ExclusiveUnlessLapse ==
  lapses = {} =>
    /\ AtMostOneUser
    /\ \A s \in Users : exists /\ (file = s \/ pc[s] = "rewrite")

\* The lock as the sessions of all processes see it: its owner is the claim that
\* uses the target, and the claims that ask are those in acquire() and the heir
\* of a handoff.
Trying   == Acquiring \union {"rollback"}
Owners   == {s \in Claims : pc[s] \in Using}
Owner    == IF Owners = {} THEN None ELSE CHOOSE s \in Owners : TRUE
Asking   == {s \in Claims : pc[s] \in Trying} \union Heirs
Answered == {s \in Claims : pc[s] \notin Trying \union {"idle"}}

Lock == INSTANCE ExclusiveLock WITH
  Requests <- Claims, owner <- Owner, asking <- Asking, answered <- Answered

\* As long as there was no lapse, whatever the processes do to the directory is
\* what a lock over the target does, crashes excepted: a crash answers several
\* claims at once, which ExclusiveLock has no step for.
LockBetweenCrashes ==
  [][lapses' = {} /\ crashes' = crashes => [Lock!Next]_(Lock!vars)]_vars

\* owner.json names a pid that an unrelated program has by now.
BelievedForeign == Readable /\ reused[Pid(file)]

\* What a dead process leaves behind, in whatever state, does not keep the
\* target from a claim that waits long enough, unless unrelated programs go on
\* having the pid that owner.json names: processMatches() believes them
\* (target-lock-manager.ts:178-181).
LeftoverIsReclaimed ==
  <>[]~BelievedForeign =>
    \A s \in Patient : pc[s] = "mkdir" ~> pc[s] \notin Acquiring
===============================================================================
