------------------------------- MODULE Controller -------------------------------
(***************************************************************************)
(* InteractiveController of one session                                    *)
(* (src/src/automation/interactive-controller.ts): start(), the recording  *)
(* calls and close(), with the parts of BrowserSession, SessionPermissions,*)
(* VideoRecorder, ObsRecorder and ObsWorkspace they are made of.           *)
(*                                                                         *)
(* The variables come in two groups: what the controller knows (its        *)
(* fields), and what is the case on the device and in OBS.  SessionManager *)
(* calls start() once and then close(), again and again while it rejects;  *)
(* clients call the recording routes while the session is listed, and such *)
(* a call may still be running when close() begins.                        *)
(***************************************************************************)
EXTENDS Naturals

CONSTANTS
  Recordings,  \* the calls of startRecording()
  Stoppers,    \* the calls of stopRecording() that may run at the same time
  None,
  Prepared,    \* the OBS workspace that start() opens for a physical iPhone
  MaxFaults    \* bound on failing operations

ASSUME ControllerAssumption ==
  /\ None \notin Recordings \union {Prepared}
  /\ Prepared \notin Recordings
  /\ MaxFaults \in Nat

VARIABLES
  \* what start() and close() are doing
  kind,       \* the target: "desktop", "android" or "iphone"
  start,      \* where start() is suspended
  attempt,    \* the attempt start() is in
  closing,    \* where close() is suspended
  ending,     \* the recorder close() waits for
  failures,   \* the array `failures` of the running close()
  outcome,    \* what the last close() called by SessionManager did
  \* the fields
  target,     \* this.target is set
  handle,     \* this.session.browser is set
  pending,    \* this.pendingBrowserClose, and what became of it
  origins,    \* this.permissions has origins to reset
  native,     \* this.permissions has native permissions to revoke
  appium,     \* this.appium: "none", "up" or "down"
  prepared,   \* this.preparedCapture is set
  video,      \* this.video: the recording, or None
  \* the recording calls
  rec,        \* how far each recording is
  stopper,    \* where each stopRecording() is suspended
  seen,       \* the recording it read from this.video
  marks,      \* the recordings whose title or marker is on the page
  \* the device and OBS
  alive,      \* a browser session exists
  granted,    \* the browser app has a native permission it had not before
  taping,     \* the recording OBS is making, or None
  workspace,  \* who holds the OBS lock: a recording, Prepared or None
  faults,
  lapses      \* history: a close() rejected ("retry"), a start of a recording overlapped
              \* its end ("race"), OBS did not stop ("obs"), the page did not answer ("page")

starting == <<kind, start, attempt>>
permits  == <<origins, native, granted>>
browser  == <<target, handle, pending, appium, alive, permits>>
obs      == <<prepared, taping, workspace>>
calls    == <<rec, stopper, seen, video, marks>>
close    == <<closing, ending, failures, outcome>>
history  == <<faults, lapses>>
vars == <<starting, browser, obs, calls, close, history>>

Starting == {"new", "capturing", "booting", "opening", "granting", "recording",
             "visiting"}
InFlight == {"measuring", "opened", "staged", "marked", "arming", "warming"}
Steps    == {"video", "origins", "native", "browser", "appium", "late", "device",
             "capture", "result"}

TypeOK ==
  /\ kind \in {"desktop", "android", "iphone"}
  /\ start \in Starting \union {"undo", "retry", "started", "failed"}
  /\ attempt \in {1, 2}
  /\ closing \in Steps \union {"no"}
  /\ ending \in Recordings \union {None}
  /\ failures \subseteq Steps \union {"crash"}
  /\ outcome \in {"none", "resolved", "rejected"}
  /\ pending \in {"none", "running", "done", "error", "crash"}
  /\ appium \in {"none", "up", "down"}
  /\ target \in BOOLEAN /\ handle \in BOOLEAN
  /\ origins \in BOOLEAN /\ native \in BOOLEAN
  /\ prepared \in BOOLEAN /\ alive \in BOOLEAN /\ granted \in BOOLEAN
  /\ video \in Recordings \union {None}
  /\ rec \in [Recordings -> InFlight \union {"idle", "active", "finalizing", "saved",
                                             "broken", "failed"}]
  /\ stopper \in [Stoppers -> {"idle", "measuring", "awaiting"}]
  /\ seen \in [Stoppers -> Recordings \union {None}]
  /\ taping \in Recordings \union {None}
  /\ workspace \in Recordings \union {None, Prepared}
  /\ faults \in 0..MaxFaults
  /\ lapses \subseteq {"retry", "race", "obs", "page"}
  /\ marks \subseteq Recordings

Init ==
  /\ kind \in {"desktop", "android", "iphone"}
  /\ start = "new" /\ attempt = 1
  /\ closing = "no" /\ ending = None /\ failures = {} /\ outcome = "none"
  /\ target = FALSE /\ handle = FALSE /\ pending = "none"
  /\ appium = "none" /\ prepared = FALSE /\ video = None
  /\ rec = [r \in Recordings |-> "idle"]
  /\ stopper = [c \in Stoppers |-> "idle"]
  /\ seen = [c \in Stoppers |-> None]
  /\ marks = {}
  /\ origins = FALSE /\ native = FALSE
  /\ alive = FALSE /\ granted = FALSE /\ taping = None /\ workspace = None
  /\ faults = 0 /\ lapses = {}

MayFail == faults < MaxFaults /\ faults' = faults + 1

-------------------------------------------------------------------------------
(* start(): the close() it begins with finds nothing to do.                *)

Begin ==
  /\ start = "new"
  /\ target' = TRUE
  /\ start' \in CASE kind = "desktop" -> {"opening"}
                  [] kind = "android" -> {"booting"}
                  [] kind = "iphone"  -> {"capturing", "booting"}
  /\ UNCHANGED <<kind, attempt, handle, pending, appium, alive, permits,
                 obs, calls, close, history>>

\* ObsCapture.prepareIosSession(), when the session is to be recorded.
PrepareCapture ==
  /\ start = "capturing"
  /\ workspace = None
  /\ workspace' = Prepared
  /\ prepared' = TRUE
  /\ start' = "booting"
  /\ UNCHANGED <<kind, attempt, browser, taping, calls, close, history>>

StartAppium ==
  /\ start = "booting"
  /\ appium' = "up"
  /\ start' = "opening"
  /\ UNCHANGED <<kind, attempt, target, handle, pending, alive, permits,
                 obs, calls, close, history>>

OpenBrowser ==
  /\ start = "opening"
  /\ handle' = TRUE
  /\ alive' = TRUE
  /\ start' = "granting"
  /\ UNCHANGED <<kind, attempt, target, pending, appium, permits,
                 obs, calls, close, history>>

\* AndroidCameraUtilities.grant(): each permission is listed for restore() before
\* it is granted.
GrantNative(complete) ==
  \E asked \in IF kind = "android" THEN BOOLEAN ELSE {FALSE} :
    /\ native' = asked
    /\ granted' \in IF complete THEN {asked} ELSE {asked, FALSE}

\* The permissions the session asks for, if any; then its videoPath, if any.
Grant ==
  /\ start = "granting"
  /\ GrantNative(TRUE)
  /\ origins' \in BOOLEAN
  /\ start' \in {"visiting"} \union (IF kind = "iphone" => prepared THEN {"recording"}
                                      ELSE {})
  /\ UNCHANGED <<kind, attempt, target, handle, pending, appium, alive,
                 obs, calls, close, history>>

\* await this.startRecording({ outputPath: options.videoPath }).
RecordingBegun ==
  /\ start = "recording"
  /\ video # None
  /\ start' = "visiting"
  /\ UNCHANGED <<kind, attempt, browser, obs, calls, close, history>>

StartReturns ==
  /\ start = "visiting"
  /\ start' = "started"
  /\ UNCHANGED <<kind, attempt, browser, obs, calls, close, history>>

\* The body of close() up to its first await.
EnterClose ==
  /\ closing' = "video"
  /\ failures' = {}
  /\ ending' = video
  /\ rec' = [r \in Recordings |->
               IF r = video /\ rec[r] = "active" THEN "finalizing" ELSE rec[r]]

\* Safari's debugger timed out while the session of an iPhone was created.
MayRetry == start = "opening" /\ kind = "iphone" /\ attempt = 1

\* A step of start() rejects, the granting of permissions perhaps half-way: its
\* catch closes what there is.
StartStepFails ==
  /\ start \in Starting \ {"new"}
  /\ \/ start = "recording" /\ \E r \in Recordings : rec[r] = "failed" /\ UNCHANGED faults
     \/ start # "recording" /\ MayFail
  /\ start' \in {"undo"} \union (IF MayRetry THEN {"retry"} ELSE {})
  /\ IF start = "granting" THEN GrantNative(FALSE) /\ origins' \in BOOLEAN
     ELSE UNCHANGED permits
  /\ EnterClose
  /\ UNCHANGED <<kind, attempt, target, handle, pending, appium, alive, obs, marks, stopper,
                 seen, video, outcome, lapses>>

-------------------------------------------------------------------------------
(* startRecording(), VideoRecorder.start(), ObsRecorder.start().           *)

\* The session is listed: SessionManager hands the controller out.
Listed == start = "started" /\ closing = "no" /\ outcome = "none"

BeginRecording(r) ==
  /\ rec[r] = "idle"
  /\ \/ Listed
     \/ start = "recording" /\ \A q \in Recordings : rec[q] = "idle"
  /\ video = None
  /\ kind = "iphone" => prepared
  /\ rec' = [rec EXCEPT ![r] = "measuring"]
  /\ UNCHANGED <<starting, browser, obs, marks, stopper, seen, video, close, history>>

(* Mutant: the OBS workspace is opened without its lock. *)
OpenWorkspaceUnlocked(r) ==
  /\ rec[r] = "measuring"
  /\ handle
  /\ IF prepared THEN UNCHANGED workspace ELSE workspace' = r
  /\ rec' = [rec EXCEPT ![r] = "opened"]
  /\ UNCHANGED <<starting, browser, prepared, taping, marks, stopper, seen, video, close,
                 history>>

\* The geometry is known: open the OBS workspace, unless start() did.
OpenWorkspace(r) ==
  /\ rec[r] = "measuring"
  /\ handle
  /\ IF prepared THEN UNCHANGED workspace
     ELSE workspace = None /\ taping = None /\ workspace' = r
  /\ rec' = [rec EXCEPT ![r] = "opened"]
  /\ UNCHANGED <<starting, browser, prepared, taping, marks, stopper, seen, video, close,
                 history>>

\* The workspace a recording works in is still connected.
Connected(r) == workspace = IF kind = "iphone" THEN Prepared ELSE r

\* ObsCapture.prepare(): OBS looks for the window, for which a desktop page shows a title
\* of Testbench's and a phone is mirrored; a prepared capture has been through this.
StageCapture(r) ==
  /\ rec[r] = "opened" /\ ~prepared
  /\ alive /\ Connected(r)
  /\ rec' = [rec EXCEPT ![r] = "staged"]
  /\ marks' = IF kind = "desktop" THEN marks \union {r} ELSE marks
  /\ UNCHANGED <<starting, browser, obs, stopper, seen, video, close, history>>

\* ObsViewport.measure(), after the title was put back: a marker covers the page.
MarkViewport(r) ==
  /\ rec[r] = IF prepared THEN "opened" ELSE "staged"
  /\ alive /\ Connected(r)
  /\ rec' = [rec EXCEPT ![r] = "marked"]
  /\ marks' = marks \union {r}
  /\ UNCHANGED <<starting, browser, obs, stopper, seen, video, close, history>>

(* Mutant: the marker is seen and stays. *)
PrepareSceneMarked(r) ==
  /\ rec[r] = "marked"
  /\ alive /\ Connected(r)
  /\ rec' = [rec EXCEPT ![r] = "arming"]
  /\ UNCHANGED <<starting, browser, obs, marks, stopper, seen, video, close, history>>

\* The marker is seen and removed; ObsRecorder.prepare() sets the picture and the profile.
PrepareScene(r) ==
  /\ rec[r] = "marked"
  /\ alive /\ Connected(r)
  /\ rec' = [rec EXCEPT ![r] = "arming"]
  /\ marks' = marks \ {r}
  /\ UNCHANGED <<starting, browser, obs, stopper, seen, video, close, history>>

\* The page shows the title or the marker of r, perhaps because the script that puts it there
\* did its work and its answer was lost.
Shows(r) == \/ r \in marks
            \/ rec[r] = "opened" /\ (prepared \/ kind = "desktop")
            \/ rec[r] = "staged"

\* The `finally` that takes title and marker off the page, if the page still answers; the
\* script that places the marker runs before that `try`.
Unmark(r) ==
  marks' \in {marks \ {r}} \union (IF alive /\ Shows(r) THEN {marks \union {r}} ELSE {})

StartTape(r) ==
  /\ rec[r] = "arming"
  /\ Connected(r)
  /\ taping = None
  /\ taping' = r
  /\ rec' = [rec EXCEPT ![r] = "warming"]
  /\ UNCHANGED <<starting, browser, prepared, workspace, marks, stopper, seen, video, close,
                 history>>

\* OBS has written something: this.video is set, whatever happened meanwhile.
RecordingStarts(r) ==
  /\ rec[r] = "warming"
  /\ Connected(r)
  /\ rec' = [rec EXCEPT ![r] = "active"]
  /\ video' = r
  /\ UNCHANGED <<starting, browser, obs, marks, stopper, seen, close, history>>

\* The recorder gives up its own workspace; a prepared one stays with the session.
LeaveWorkspace(r) == workspace' = IF workspace = r THEN None ELSE workspace

\* OBS is told to stop, and may not obey; without a connection it is not told.
StopTape(r) == taping' \in {taping} \union (IF Connected(r) THEN {None} ELSE {})

\* A recording that OBS goes on with although it was told to stop.
Runaway == IF taping' = None THEN {} ELSE {"obs"}

\* Without a browser, a connection or OBS to itself a recording cannot start.
RecordingStartFails(r) ==
  /\ rec[r] \in InFlight
  /\ \/ MayFail
     \/ /\ \/ rec[r] = "measuring" /\ (handle => ~prepared /\ (workspace # None
                                                             \/ taping # None))
           \/ rec[r] \in {"opened", "staged", "marked"} /\ ~(alive /\ Connected(r))
           \/ rec[r] = "arming" /\ (~Connected(r) \/ taping # None)
           \/ rec[r] = "warming" /\ ~Connected(r)
        /\ UNCHANGED faults
  /\ rec' = [rec EXCEPT ![r] = "failed"]
  /\ Unmark(r)
  /\ IF taping = r THEN StopTape(r) ELSE UNCHANGED taping
  /\ lapses' = lapses \union (IF taping = r THEN Runaway ELSE {})
                      \union (IF r \in marks' THEN {"page"} ELSE {})
  /\ LeaveWorkspace(r)
  /\ UNCHANGED <<starting, browser, prepared, stopper, seen, video, close>>

-------------------------------------------------------------------------------
(* stopRecording() and VideoRecorder.stop(), which finalizes once.         *)

BeginStop(c) ==
  /\ Listed
  /\ stopper[c] = "idle"
  /\ video # None
  /\ seen' = [seen EXCEPT ![c] = video]
  /\ stopper' = [stopper EXCEPT ![c] = "measuring"]
  /\ UNCHANGED <<starting, browser, obs, rec, marks, video, close, history>>

(* Mutants: this.video is given up when the geometry cannot be measured, or before
   the recorder has stopped. *)
StopMeasureFailsForgetting(c) ==
  /\ stopper[c] = "measuring"
  /\ IF handle THEN MayFail ELSE UNCHANGED faults
  /\ stopper' = [stopper EXCEPT ![c] = "idle"]
  /\ video' = None
  /\ UNCHANGED <<starting, browser, obs, rec, marks, seen, close, lapses>>

StopMeasuredEarly(c) ==
  /\ stopper[c] = "measuring"
  /\ stopper' = [stopper EXCEPT ![c] = "awaiting"]
  /\ rec' = [r \in Recordings |->
               IF r = seen[c] /\ rec[r] = "active" THEN "finalizing" ELSE rec[r]]
  /\ video' = None
  /\ UNCHANGED <<starting, browser, obs, marks, seen, close, history>>

StopMeasured(c) ==
  /\ stopper[c] = "measuring"
  /\ stopper' = [stopper EXCEPT ![c] = "awaiting"]
  /\ rec' = [r \in Recordings |->
               IF r = seen[c] /\ rec[r] = "active" THEN "finalizing" ELSE rec[r]]
  /\ UNCHANGED <<starting, browser, obs, marks, seen, video, close, history>>

StopMeasureFails(c) ==
  /\ stopper[c] = "measuring"
  /\ IF handle THEN MayFail ELSE UNCHANGED faults
  /\ stopper' = [stopper EXCEPT ![c] = "idle"]
  /\ UNCHANGED <<starting, browser, obs, rec, marks, seen, video, close, lapses>>

\* The second half of ObsRecorder.stop() and the probe of the file.
Saved(r) ==
  /\ rec[r] = "finalizing"
  /\ Connected(r)
  /\ rec' = [rec EXCEPT ![r] = "saved"]
  /\ taping' = None
  /\ LeaveWorkspace(r)
  /\ UNCHANGED <<starting, browser, prepared, marks, stopper, seen, video, close, history>>

\* OBS cannot be told to stop, or the file cannot be remuxed or probed.
FinalizeFails(r) ==
  /\ rec[r] = "finalizing"
  /\ IF Connected(r) THEN MayFail ELSE UNCHANGED faults
  /\ rec' = [rec EXCEPT ![r] = "broken"]
  /\ StopTape(r)
  /\ lapses' = lapses \union Runaway
  /\ LeaveWorkspace(r)
  /\ UNCHANGED <<starting, browser, prepared, marks, stopper, seen, video, close>>

\* The finalized recording clears this.video, even if another has begun since.
StopReturns(c) ==
  /\ stopper[c] = "awaiting"
  /\ rec[seen[c]] = "saved"
  /\ stopper' = [stopper EXCEPT ![c] = "idle"]
  /\ video' = None
  /\ lapses' = IF video \in {None, seen[c]} THEN lapses ELSE lapses \union {"race"}
  /\ UNCHANGED <<starting, browser, obs, rec, marks, seen, close, faults>>

\* The recorder rejects, or the caller has gone: this.video stays.
StopRejects(c) ==
  /\ stopper[c] = "awaiting"
  /\ rec[seen[c]] \in {"saved", "broken"}
  /\ stopper' = [stopper EXCEPT ![c] = "idle"]
  /\ UNCHANGED <<starting, browser, obs, rec, marks, seen, video, close, history>>

-------------------------------------------------------------------------------
(* close()                                                                 *)

\* From SessionManager: once start() is over, and again until it resolves.
Close ==
  /\ start \in {"started", "failed"}
  /\ closing = "no"
  /\ outcome # "resolved"
  /\ EnterClose
  /\ lapses' = IF \E r \in Recordings : rec[r] \in InFlight
               THEN lapses \union {"race"} ELSE lapses
  /\ UNCHANGED <<starting, browser, obs, marks, stopper, seen, video, outcome, faults>>

CloseStep(step, next) == closing = step /\ closing' = next

Fail(step) == failures' = failures \union {step}

CloseVideo ==
  /\ CloseStep("video", "origins")
  /\ \/ ending = None /\ UNCHANGED <<video, failures>>
     \/ ending # None /\ rec[ending] = "saved" /\ video' = None /\ UNCHANGED failures
     \/ ending # None /\ rec[ending] = "broken" /\ UNCHANGED video /\ Fail("video")
  /\ lapses' = IF ending # None /\ video' # video /\ video # ending
               THEN lapses \union {"race"} ELSE lapses
  /\ ending' = None
  /\ UNCHANGED <<starting, browser, obs, rec, marks, stopper, seen, outcome, faults>>

\* SessionPermissions.resetOrigins() empties its list before it resets anything.
ResetOrigins ==
  /\ CloseStep("origins", "native")
  /\ origins' = FALSE
  /\ \/ UNCHANGED <<failures, faults>>
     \/ origins /\ MayFail /\ Fail("origins")
  /\ UNCHANGED <<starting, target, handle, pending, appium, alive, native, granted, obs,
                 calls, ending, outcome, lapses>>

\* session.close() is called, unless a call of it is pending: the handle is gone
\* before the deletion is done.
CallSessionClose ==
  /\ handle' = FALSE
  /\ pending' = IF pending = "none" /\ handle THEN "running" ELSE pending

\* AndroidCameraUtilities.restore() empties its list whatever became of it.
RestoreNative ==
  /\ CloseStep("native", "browser")
  /\ native' = FALSE
  /\ \/ granted' = (granted /\ ~native) /\ UNCHANGED <<failures, faults>>
     \/ native /\ MayFail /\ Fail("native") /\ UNCHANGED granted
  /\ CallSessionClose
  /\ UNCHANGED <<starting, target, appium, alive, origins, obs, calls, ending, outcome,
                 lapses>>

\* What deleteSession() comes to, however late.
DeleteDone ==
  /\ pending = "running"
  /\ pending' = "done"
  /\ alive' = FALSE
  /\ UNCHANGED <<starting, target, handle, appium, permits, obs, calls, close, history>>

DeleteFails ==
  /\ pending = "running"
  /\ MayFail
  /\ pending' \in {"error"} \union (IF kind = "android" THEN {"crash"} ELSE {})
  /\ UNCHANGED <<starting, target, handle, appium, alive, permits, obs, calls, close,
                 lapses>>

FailAs == IF pending = "crash" THEN "crash" ELSE "browser"

\* After ten seconds the Appium server is stopped first.
CloseBrowser ==
  /\ CloseStep("browser", "appium")
  /\ IF pending \in {"error", "crash"} THEN Fail(FailAs) ELSE UNCHANGED failures
  /\ pending' = IF pending = "running" THEN "running" ELSE "none"
  /\ UNCHANGED <<starting, target, handle, appium, alive, permits, obs, calls, ending,
                 outcome, history>>

\* The browser session of a mobile target ends with its Appium server.
StopAppium ==
  /\ CloseStep("appium", IF pending = "none" THEN "device" ELSE "late")
  /\ \/ /\ appium # "none"
        /\ appium' = "down"
        /\ alive' = FALSE
        /\ UNCHANGED <<failures, faults>>
     \/ appium # "none" /\ MayFail /\ Fail("appium") /\ UNCHANGED <<appium, alive>>
     \/ appium = "none" /\ UNCHANGED <<appium, alive, failures, faults>>
  /\ UNCHANGED <<starting, target, handle, pending, permits, obs, calls, ending, outcome,
                 lapses>>

(* Mutants: the second timeout is forgiven, or there is none. *)
CloseLateForgives ==
  /\ CloseStep("late", "device")
  /\ IF pending \in {"done", "running"} THEN UNCHANGED failures ELSE Fail(FailAs)
  /\ pending' = IF pending = "done" THEN "none" ELSE pending
  /\ UNCHANGED <<starting, target, handle, appium, alive, permits, obs, calls, ending,
                 outcome, history>>

CloseLateWaits ==
  /\ CloseStep("late", "device")
  /\ pending # "running"
  /\ IF pending = "done" THEN UNCHANGED failures ELSE Fail(FailAs)
  /\ pending' = IF pending = "done" THEN "none" ELSE pending
  /\ UNCHANGED <<starting, target, handle, appium, alive, permits, obs, calls, ending,
                 outcome, history>>

\* The second wait of ten seconds, if the first was in vain.
CloseLate ==
  /\ CloseStep("late", "device")
  /\ IF pending = "done" THEN UNCHANGED failures ELSE Fail(FailAs)
  /\ pending' = IF pending = "done" THEN "none" ELSE pending
  /\ UNCHANGED <<starting, target, handle, appium, alive, permits, obs, calls, ending,
                 outcome, history>>

\* IosSessionCleanup.run().
CloseDevice ==
  /\ CloseStep("device", "capture")
  /\ \/ UNCHANGED <<failures, faults>>
     \/ kind = "iphone" /\ MayFail /\ Fail("device")
  /\ UNCHANGED <<starting, browser, obs, calls, ending, outcome, lapses>>

\* ObsWorkspace.close() releases its lock whether or not it restores OBS.
CloseCapture ==
  /\ CloseStep("capture", "result")
  /\ workspace' = IF prepared THEN None ELSE workspace
  /\ \/ UNCHANGED <<failures, faults>>
     \/ prepared /\ MayFail /\ Fail("capture")
  /\ prepared' = FALSE
  /\ UNCHANGED <<starting, browser, taping, calls, ending, outcome, lapses>>

\* A crashed tab is excused once Appium is stopped.
Excused == IF kind = "android" /\ appium = "down" THEN {"crash"} ELSE {}

\* The caller goes on: start() rejects or tries once more, SessionManager takes
\* note.
AfterClose(ok) ==
  /\ start' = CASE start = "retry" /\ ok -> "new"
                [] start \in {"undo", "retry"} -> "failed"
                [] OTHER -> start
  /\ attempt' = IF start = "retry" THEN 2 ELSE attempt
  /\ outcome' = IF start \in {"undo", "retry"} THEN outcome
                ELSE IF ok THEN "resolved" ELSE "rejected"
  /\ UNCHANGED kind

CloseResolves ==
  /\ CloseStep("result", "no")
  /\ failures \subseteq Excused
  /\ target' = FALSE /\ pending' = "none" /\ origins' = FALSE /\ native' = FALSE
  /\ appium' = "none" /\ video' = None
  /\ AfterClose(TRUE)
  /\ UNCHANGED <<handle, alive, granted, obs, rec, marks, stopper, seen, ending, failures,
                 history>>

CloseRejects ==
  /\ CloseStep("result", "no")
  /\ ~(failures \subseteq Excused)
  /\ lapses' = lapses \union {"retry"}
  /\ AfterClose(FALSE)
  /\ UNCHANGED <<browser, obs, calls, ending, failures, faults>>

StartStep == Begin \/ PrepareCapture \/ StartAppium \/ OpenBrowser \/ Grant
             \/ RecordingBegun \/ StartReturns
TapeStep(r) == OpenWorkspace(r) \/ StageCapture(r) \/ MarkViewport(r) \/ PrepareScene(r)
               \/ StartTape(r) \/ RecordingStarts(r)
               \/ RecordingStartFails(r) \/ Saved(r) \/ FinalizeFails(r)
StopStep(c) == StopMeasured(c) \/ StopMeasureFails(c) \/ StopReturns(c) \/ StopRejects(c)
CloseSteps  == CloseVideo \/ ResetOrigins \/ RestoreNative \/ CloseBrowser \/ StopAppium
               \/ CloseLate \/ CloseDevice \/ CloseCapture
               \/ CloseResolves \/ CloseRejects

Next ==
  \/ StartStep \/ StartStepFails
  \/ \E r \in Recordings : BeginRecording(r) \/ TapeStep(r)
  \/ \E c \in Stoppers : BeginStop(c) \/ StopStep(c)
  \/ Close \/ CloseSteps \/ DeleteDone \/ DeleteFails

Spec == Init /\ [][Next]_vars

(***************************************************************************)
(* Fairness: the code runs on, OBS answers one way or the other.  The      *)
(* deletion of a browser session may hang for ever.                        *)
(***************************************************************************)
Fairness ==
  /\ WF_vars(CloseSteps)
  /\ \A r \in Recordings : WF_vars(Saved(r) \/ FinalizeFails(r))

FairSpec == Spec /\ Fairness

-------------------------------------------------------------------------------
(* Properties.                                                             *)

\* A close() that succeeds at once, that no start of a recording overlaps, leaves
\* nothing behind on the device or in OBS, wherever start() got to: what is granted,
\* the browser session, the recording and the lock of OBS.
CleanAfterClose ==
  outcome = "resolved" /\ lapses = {} =>
    ~alive /\ ~granted /\ taping = None /\ workspace = None

\* What OBS records is known to somebody who will stop it: it is this.video, or
\* a call of start or stop is at it.
TapeIsTracked ==
  taping # None /\ lapses \subseteq {"retry"} =>
    video = taping \/ rec[taping] \in {"warming", "finalizing"}

\* OBS records under the lock that keeps other sessions and processes away from
\* it ("Owns the exclusive OBS session", obs-workspace.ts:9).
TapeIsExclusive == taping # None /\ lapses = {} => Connected(taping)

\* What a recording shows on the page while it is set up - its window title, the marker
\* that covers the page - is gone from a browser that lives on as soon as the start has
\* come to an end, however it ended (obs-viewport.ts, `finally`) - unless the page failed
\* to answer: the script that takes it off, or the one that places the marker, which
\* runs outside the `try` (obs-viewport.ts:25).
PageIsRestored ==
  alive /\ "page" \notin lapses =>
    \A r \in marks : rec[r] \in {"staged", "marked"}

\* The recorder is stopped before the browser is, so that the recording does not
\* end on a closed window (interactive-controller.test.ts:631).
RecorderStopsFirst ==
  [][handle /\ ~handle' =>
       taping = None \/ lapses \intersect {"race", "obs"} # {}]_vars

\* close() returns, even if the browser session never ends.
CloseReturns == closing # "no" ~> closing = "no"

\* A retry that succeeds proves that the cleanup of a serial target is complete
\* (docs/releases/0.5.0.md:83): an Android device, which keeps what was granted to
\* its browser, is in nobody's hands once close() has resolved.
RetryProvesCleanup == kind = "android" /\ outcome = "resolved" => ~alive /\ ~granted

\* Closing a session stops its recording (README.md:398: a recording is
\* finalized "when the session closes").
RecordingEndsWithSession ==
  outcome = "resolved" => \A r \in Recordings : rec[r] # "active"
=============================================================================
