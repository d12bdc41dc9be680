--------------------------- MODULE RecordingTransfer ---------------------------
(***************************************************************************)
(* The recordings of one session from start() to the file at the client:   *)
(* RemoteRecording and downloadRecording() of the client library           *)
(* (testbench-client.ts), the routes of api-server.ts, and                 *)
(* RecordingArtifacts (recording/artifacts.ts), which keeps a directory    *)
(* per recording.  The recorder is seen through its life: Controller has   *)
(* its steps.  Recordings are numbered in the order of the calls of start; *)
(* each names an output path of its own.                                   *)
(***************************************************************************)
EXTENDS Naturals

CONSTANTS
  MaxRecordings,  \* bound on the calls of start()
  MaxFaults       \* bound on failing steps and lost answers

ASSUME TransferAssumption == MaxRecordings \in Nat /\ MaxFaults \in Nat

Recordings == 1..MaxRecordings
None == 0

VARIABLES
  session,    \* the session at the testbench; "expiring": its lease has run out
  rec,        \* InteractiveController: "running" to "broken" is this.video
  last,       \* InteractiveController.lastRecording
  directory,  \* RecordingArtifacts.recordingDirectories of the session
  artifacts,  \* RecordingArtifacts.recordingArtifacts of the session
  disk,       \* the temporary directories that exist
  client,     \* where the client's call is suspended
  output,     \* RemoteRecording.outputPath: the recording that named it
  memo,       \* RemoteRecording.stopResult, when it has resolved: whose result it is
  pending,    \* RemoteRecording.pendingArtifact
  file,       \* the recording whose data is at each output path
  claimed,    \* history: recordings for whose path stop() has resolved
  faults, interrupted, lost, late, spoiled
              \* history: failures; whether a call was given up or failed; directories whose
              \* entry the next start overwrote; directories that a start registered or
              \* overwrote after the session's end; recordings that ended in a stop() which
              \* failed over the geometry

host    == <<session, rec, last, directory, artifacts, disk>>
library == <<client, output, memo, pending, file>>
history == <<claimed, faults, interrupted, lost, late, spoiled>>
vars == <<host, library, history>>

Active == {"running", "finalizing", "final", "broken"}

TypeOK ==
  /\ session \in {"live", "closing", "expiring", "over", "gone"}
  /\ rec \in [Recordings -> {"none", "starting", "ended"} \union Active]
  /\ directory \in Recordings \union {None} /\ last \in Recordings \union {None}
  /\ artifacts \subseteq Recordings /\ disk \subseteq Recordings
  /\ client \in {"idle", "starting", "stopping", "waiting", "downloading"}
  /\ output \in Recordings \union {None}
  /\ memo \in Recordings \union {None}
  /\ pending \in Recordings \union {None}
  /\ file \in [Recordings -> Recordings \union {None}]
  /\ claimed \subseteq Recordings /\ spoiled \subseteq Recordings
  /\ lost \subseteq Recordings /\ late \subseteq Recordings
  /\ faults \in 0..MaxFaults
  /\ interrupted \in BOOLEAN

Init ==
  /\ session = "live"
  /\ rec = [r \in Recordings |-> "none"]
  /\ last = None /\ directory = None /\ artifacts = {} /\ disk = {}
  /\ client = "idle" /\ output = None /\ memo = None /\ pending = None
  /\ file = [r \in Recordings |-> None]
  /\ claimed = {} /\ lost = {} /\ late = {} /\ spoiled = {}
  /\ faults = 0 /\ interrupted = FALSE

Fault == faults < MaxFaults /\ faults' = faults + 1 /\ interrupted' = TRUE

NoActiveVideo == \A r \in Recordings : rec[r] \notin Active

-------------------------------------------------------------------------------
(* start()                                                                 *)

\* The route makes the directory and calls SessionManager.startRecording().
Start(r) ==
  /\ client = "idle"
  /\ rec[r] = "none" /\ \A q \in Recordings : q < r => rec[q] # "none"
  /\ client' = "starting"
  /\ rec' = [rec EXCEPT ![r] = "starting"]
  /\ disk' = disk \union {r}
  /\ UNCHANGED <<session, last, directory, artifacts, output, memo, pending, file, history>>

\* Refused at once because a recording is active or the session gone, or failed later:
\* the directory is removed again.
NotStarted(r) ==
  /\ rec[r] = "starting"
  /\ \/ (session # "live" \/ ~NoActiveVideo) /\ interrupted' = TRUE /\ UNCHANGED faults
     \/ session = "live" /\ NoActiveVideo /\ Fault
  /\ rec' = [rec EXCEPT ![r] = "ended"]
  /\ disk' = disk \ {r}
  /\ client' = IF client = "starting" THEN "idle" ELSE client
  /\ UNCHANGED <<session, last, directory, artifacts, output, memo, pending, file, claimed,
                 lost, late, spoiled>>

\* The session's end has overtaken the start of a recording.
Outlived == session \in {"over", "gone"}

\* The recorder runs, whatever has become of the session meanwhile (see Controller).  What
\* the session's entry said before is forgotten.
Registered(r) ==
  LET overwritten == {directory} \ {None}
  IN  /\ directory' = r
      /\ last' = None
      /\ lost' = IF Outlived THEN lost ELSE lost \union overwritten
      /\ late' = IF Outlived THEN late \union overwritten \union {r} ELSE late

\* Mutant: start() does not forget the result of the last stop().
AcknowledgedOnly(r) == output' = r /\ UNCHANGED memo

\* RemoteRecording.start() has its answer.
Acknowledged(r) == output' = r /\ memo' = None

HostStarts(r) ==
  /\ rec[r] = "starting" /\ NoActiveVideo
  /\ rec' = [rec EXCEPT ![r] = "running"]
  /\ Registered(r)
  /\ \/ /\ client = "starting"
        /\ Acknowledged(r)
        /\ UNCHANGED <<faults, interrupted>>
     \/ \* the answer is lost, or nobody waits for it any more
        /\ IF client = "starting" THEN Fault ELSE UNCHANGED <<faults, interrupted>>
        /\ UNCHANGED <<output, memo>>
  /\ client' = IF client = "starting" THEN "idle" ELSE client
  /\ UNCHANGED <<session, artifacts, disk, pending, file, claimed, spoiled>>

-------------------------------------------------------------------------------
(* stop()                                                                  *)

\* A result that is there is returned again; an artifact that could not be transferred is
\* not asked for again, only downloaded.
Stop ==
  /\ client = "idle" /\ memo = None
  /\ client' = IF pending # None THEN "downloading" ELSE "stopping"
  /\ UNCHANGED <<host, output, memo, pending, file, history>>

StopAgain ==
  /\ client = "idle" /\ memo # None /\ output # None
  /\ claimed' = claimed \union {output}
  /\ UNCHANGED <<host, library, faults, interrupted, lost, late, spoiled>>

\* The client has the metadata of artifact r, and downloads it unless the answer is lost.
Answered(r) ==
  \/ /\ pending' = r /\ output # None
     /\ client' = "downloading"
     /\ UNCHANGED <<faults, interrupted>>
  \/ \* no output path: start() was never answered
     /\ output = None /\ interrupted' = TRUE
     /\ client' = "idle"
     /\ UNCHANGED <<pending, faults>>
  \/ /\ Fault
     /\ client' = "idle"
     /\ UNCHANGED pending

\* finish(): the first artifact the session has is the answer, whichever it is of.
FinishExisting ==
  /\ client = "stopping"
  /\ \E r \in artifacts : (\A q \in artifacts : r <= q) /\ Answered(r)
  /\ UNCHANGED <<host, output, memo, file, claimed, lost, late, spoiled>>

\* The client has the metadata of a recording without an artifact: its stop() resolves, with
\* no file; unless the answer is lost.
AnsweredWithout(r) ==
  /\ client' = "idle"
  /\ \/ /\ memo' = r /\ claimed' = claimed \union ({output} \ {None})
        /\ UNCHANGED <<faults, interrupted>>
     \/ Fault /\ UNCHANGED <<memo, claimed>>
  /\ UNCHANGED pending

\* SessionManager.stopRecording(): the recorder is asked to stop, once.
FinishStops ==
  /\ client = "stopping" /\ artifacts = {}
  /\ session = "live" /\ ~NoActiveVideo
  /\ client' = "waiting"
  /\ rec' = [r \in Recordings |-> IF rec[r] = "running" THEN "finalizing" ELSE rec[r]]
  /\ UNCHANGED <<session, last, directory, artifacts, disk, output, memo, pending, file,
                 history>>

\* The geometry cannot be measured: the recorder is not even asked, and goes on.
FinishMeasureFails ==
  /\ client = "stopping" /\ artifacts = {}
  /\ session = "live" /\ ~NoActiveVideo
  /\ Fault
  /\ client' = "idle"
  /\ UNCHANGED <<host, output, memo, pending, file, claimed, lost, late, spoiled>>

\* No recording is active; the last one was stopped, and is the answer once more.  Its
\* directory has been taken out of the map by then.
FinishLast ==
  /\ client = "stopping" /\ artifacts = {}
  /\ session = "live" /\ NoActiveVideo /\ last # None
  /\ AnsweredWithout(last)
  /\ UNCHANGED <<host, output, file, lost, late, spoiled>>

\* No recording is or was active, or the session is over.
FinishRefused ==
  /\ client = "stopping" /\ artifacts = {}
  /\ session # "live" \/ (NoActiveVideo /\ last = None)
  /\ client' = "idle"
  /\ interrupted' = TRUE
  /\ UNCHANGED <<host, output, memo, pending, file, claimed, faults, lost, late, spoiled>>

\* VideoRecorder.finalize() settles for all who wait for it, now or later.
Finalize(r) ==
  /\ rec[r] = "finalizing"
  /\ \/ r \in disk /\ rec' = [rec EXCEPT ![r] = "final"] /\ UNCHANGED <<faults, interrupted>>
     \/ r \in disk /\ rec' = [rec EXCEPT ![r] = "broken"] /\ Fault
     \/ \* there is no directory to write to any more
        r \notin disk /\ rec' = [rec EXCEPT ![r] = "broken"] /\ UNCHANGED <<faults, interrupted>>
  /\ UNCHANGED <<session, last, directory, artifacts, disk, library, claimed, lost, late, spoiled>>

\* stopRecording() returns, the directory becomes an artifact if it is still registered.
FinishDone(r) ==
  /\ client = "waiting" /\ rec[r] = "final"
  /\ rec' = [rec EXCEPT ![r] = "ended"]
  /\ last' = r
  /\ directory' = None
  /\ artifacts' = artifacts \union ({directory} \ {None})
  /\ \/ directory # None /\ Answered(directory) /\ UNCHANGED <<memo, claimed>>
     \/ directory = None /\ AnsweredWithout(r)
  /\ UNCHANGED <<session, disk, output, file, lost, late, spoiled>>

\* The recorder could not finalize: so it answers for ever. Or the geometry has changed:
\* the recording is over, its directory is still registered.
FinishFails(r) ==
  /\ client = "waiting"
  /\ \/ rec[r] = "broken" /\ interrupted' = TRUE /\ UNCHANGED <<rec, faults, spoiled>>
     \/ /\ rec[r] = "final" /\ rec' = [rec EXCEPT ![r] = "ended"] /\ Fault
        /\ spoiled' = spoiled \union {r}
  /\ client' = "idle"
  /\ UNCHANGED <<session, last, directory, artifacts, disk, output, memo, pending, file, claimed,
                 lost, late>>

\* The caller's signal or the timeout of the request; the handler at the testbench goes on,
\* and finds that its answer is no longer wanted only when the recorder is final.
Abort ==
  /\ client \in {"starting", "waiting", "downloading"}
  /\ client' = "idle"
  /\ interrupted' = TRUE
  /\ UNCHANGED <<host, output, memo, pending, file, claimed, faults, lost, late, spoiled>>

\* downloadRecording(): sent, verified, renamed; the testbench discards what it has sent.
Download ==
  /\ client = "downloading" /\ pending \in artifacts
  /\ artifacts' = artifacts \ {pending}
  /\ disk' = disk \ {pending}
  /\ file' = [file EXCEPT ![output] = pending]
  /\ memo' = pending /\ pending' = None
  /\ claimed' = claimed \union {output}
  /\ client' = "idle"
  /\ UNCHANGED <<session, rec, last, directory, output, faults, interrupted, lost, late, spoiled>>

\* The artifact is no longer there; or it cannot be stored, before or after it was sent.
DownloadFails ==
  /\ client = "downloading"
  /\ client' = "idle"
  /\ \/ /\ pending \notin artifacts
        /\ interrupted' = TRUE
        /\ UNCHANGED <<artifacts, disk, faults>>
     \/ /\ pending \in artifacts /\ Fault
        /\ \/ UNCHANGED <<artifacts, disk>>
           \/ artifacts' = artifacts \ {pending} /\ disk' = disk \ {pending}
  /\ UNCHANGED <<session, rec, last, directory, output, memo, pending, file, claimed, lost, late,
                 spoiled>>

-------------------------------------------------------------------------------
(* The end of the session.                                                 *)

\* SessionManager.close(), by the client or as its lease runs out: the recorder is stopped.
Close ==
  /\ session = "live"
  /\ session' \in {"closing", "expiring"}
  /\ rec' = [r \in Recordings |-> IF rec[r] = "running" THEN "finalizing" ELSE rec[r]]
  /\ UNCHANGED <<last, directory, artifacts, disk, library, history>>

\* Mutant: only the recording that has not been stopped is removed.
CleanUpActive ==
  /\ directory' = None /\ artifacts' = {}
  /\ disk' = disk \ {directory}

\* cleanupSession(): whatever is registered is removed.
CleanUp ==
  /\ directory' = None /\ artifacts' = {}
  /\ disk' = disk \ (artifacts \union {directory})

\* The controller is closed, long after a stop() that waited for the recorder was answered.
\* DELETE and the disconnect of a client go on with the files, also if the close failed; the
\* lease's timer does not.
Closed ==
  /\ session \in {"closing", "expiring"}
  /\ \A r \in Recordings : rec[r] # "finalizing"
  /\ client = "waiting" => NoActiveVideo
  /\ rec' = [r \in Recordings |-> IF rec[r] \in Active THEN "ended" ELSE rec[r]]
  /\ last' = None
  /\ \/ session = "closing" /\ session' = "gone" /\ CleanUp
     \/ session = "expiring" /\ session' = "over" /\ UNCHANGED <<directory, artifacts, disk>>
  /\ UNCHANGED <<library, history>>

\* A close asked for after the lease has ended gets the recorded result, and cleans up.
CloseAgain ==
  /\ session = "over"
  /\ session' = "gone"
  /\ CleanUp
  /\ UNCHANGED <<rec, last, library, history>>

\* DELETE by another client: it is told that there is no such session, and the handler goes on
\* with the files all the same (api-server.ts:721-731).
ForeignDelete ==
  /\ session # "gone"
  /\ CleanUp
  /\ Fault
  /\ UNCHANGED <<session, rec, last, library, claimed, lost, late, spoiled>>

Next ==
  \/ \E r \in Recordings : \/ Start(r) \/ NotStarted(r) \/ HostStarts(r)
                           \/ Finalize(r) \/ FinishDone(r) \/ FinishFails(r)
  \/ Stop \/ StopAgain \/ FinishExisting \/ FinishStops \/ FinishMeasureFails
  \/ FinishLast \/ FinishRefused
  \/ Abort \/ Download \/ DownloadFails
  \/ Close \/ Closed \/ CloseAgain \/ ForeignDelete

Spec == Init /\ [][Next]_vars

-------------------------------------------------------------------------------
\* Every directory is one the testbench can still find and remove, at the latest when it
\* stops, or a later start has taken its place in the map (artifacts.ts:36): in the session's
\* time only that of a recording the stop of which failed over the geometry.
DirectoriesAreKnown ==
  /\ disk \subseteq artifacts \union {directory} \union lost \union late
                    \union {r \in Recordings : rec[r] = "starting"}
  /\ lost \subseteq spoiled

\* When a client has closed its session, none of its recordings stays on the disk, whether it
\* was stopped, downloaded or is still being made, but for two kinds.  A start that the end of
\* the session overtakes still registers its directory, in place of what a session that lost
\* its lease had there.  And a recording that stop() gave up because the geometry had changed
\* (interactive-controller.ts:625-657) keeps its entry, until the next start overwrites it:
\* that directory leaks, see the known divergences in the README.
NoRecordingOutlivesSession ==
  session = "gone" => disk \subseteq late \union (lost \intersect spoiled)
                                     \union {r \in Recordings : rec[r] = "starting"}

\* As long as no call is refused, given up or fails, a stop() that resolves has ended the last
\* recording that was started, and its data is at the path that start() was given; for any
\* number of recordings after each other.
UndisturbedStopDelivers ==
  ~interrupted => \A r \in claimed : rec[r] = "ended" /\ file[r] = r

\* "stop() stops the native recorder before browser teardown ... transfers it atomically"
\* (docs/releases/0.5.0.md:65), also after an earlier stop() that failed. The code does not:
\* start() forgets the result of the last stop(), but not the artifact that was still to be
\* downloaded (testbench-client.ts:1294-1295), and the testbench answers with the first
\* artifact the session has; see the known divergences in the README.
StopStopsRecording ==
  \A r \in claimed : rec[r] = "ended"
===============================================================================
