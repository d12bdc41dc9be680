--------------------------- MODULE ControllerProofs ---------------------------
(***************************************************************************)
(* Controller for any number of recordings, of calls that stop one, and of *)
(* failures.                                                               *)
(***************************************************************************)
EXTENDS Controller, TLAPS

\* The type invariant by what the variables are about.
TypeStart ==
  /\ kind \in {"desktop", "android", "iphone"}
  /\ start \in Starting \union {"undo", "retry", "started", "failed"}
  /\ attempt \in {1, 2}
TypeBrowser ==
  /\ pending \in {"none", "running", "done", "error", "crash"}
  /\ appium \in {"none", "up", "down"}
  /\ target \in BOOLEAN /\ handle \in BOOLEAN /\ alive \in BOOLEAN
  /\ origins \in BOOLEAN /\ native \in BOOLEAN /\ granted \in BOOLEAN
TypeRecording ==
  /\ prepared \in BOOLEAN
  /\ taping \in Recordings \union {None}
  /\ workspace \in Recordings \union {None, Prepared}
  /\ rec \in [Recordings -> InFlight \union {"idle", "active", "finalizing", "saved",
                                             "broken", "failed"}]
  /\ stopper \in [Stoppers -> {"idle", "measuring", "awaiting"}]
  /\ seen \in [Stoppers -> Recordings \union {None}]
  /\ video \in Recordings \union {None}
  /\ marks \subseteq Recordings
TypeClose ==
  /\ closing \in Steps \union {"no"}
  /\ ending \in Recordings \union {None}
  /\ failures \subseteq Steps \union {"crash"}
  /\ outcome \in {"none", "resolved", "rejected"}
  /\ faults \in 0..MaxFaults
  /\ lapses \subseteq {"retry", "race", "obs", "page"}

LEMMA TypeParts == TypeOK <=> TypeStart /\ TypeBrowser /\ TypeRecording /\ TypeClose
BY DEF TypeOK, TypeStart, TypeBrowser, TypeRecording, TypeClose

LEMMA InitTypes == Init => TypeOK
<1> SUFFICES ASSUME Init
             PROVE  TypeOK
  OBVIOUS
<1>1. TypeStart /\ TypeBrowser
  BY DEF Init, TypeStart, TypeBrowser, Starting
<1>2. TypeRecording
  BY DEF Init, TypeRecording, InFlight
<1>3. TypeClose
  BY ControllerAssumption DEF ControllerAssumption, Init, TypeClose, Steps
<1> QED BY <1>1, <1>2, <1>3, TypeParts

\* A failure that is counted keeps to the bound.
LEMMA FaultCounts ==
  ASSUME TypeOK, MayFail
  PROVE  faults' \in 0..MaxFaults
BY ControllerAssumption DEF ControllerAssumption, TypeOK, MayFail

LEMMA StartTypes ==
  ASSUME TypeOK, Next
  PROVE  TypeStart'
<1> USE TypeParts DEF TypeStart, Starting, starting, permits, browser, obs, calls, close,
    history
<1>1. CASE Begin
  BY <1>1 DEF Begin
<1>2. CASE PrepareCapture
  BY <1>2 DEF PrepareCapture
<1>3. CASE StartAppium
  BY <1>3 DEF StartAppium
<1>4. CASE OpenBrowser
  BY <1>4 DEF OpenBrowser
<1>5. CASE Grant
  BY <1>5 DEF Grant, GrantNative
<1>6. CASE RecordingBegun
  BY <1>6 DEF RecordingBegun
<1>7. CASE StartReturns
  BY <1>7 DEF StartReturns
<1>8. CASE StartStepFails
  BY <1>8 DEF StartStepFails, GrantNative, EnterClose
<1>9. CASE CloseResolves
  BY <1>9 DEF CloseResolves, CloseStep, AfterClose
<1>10. CASE CloseRejects
  BY <1>10 DEF CloseRejects, CloseStep, AfterClose
<1>11. CASE UNCHANGED <<starting>>
  BY <1>11
<1> QED BY <1>1, <1>2, <1>3, <1>4, <1>5, <1>6, <1>7, <1>8, <1>9, <1>10, <1>11
     DEF Next, StartStep, TapeStep, StopStep, CloseSteps, Close, CloseVideo, ResetOrigins,
         RestoreNative, CloseBrowser, StopAppium, CloseLate, CloseDevice, CloseStep,
         CloseCapture, DeleteDone, DeleteFails, BeginRecording, OpenWorkspace,
         StageCapture, MarkViewport, PrepareScene, StartTape, RecordingStarts,
         RecordingStartFails, Saved, FinalizeFails, BeginStop, StopMeasured,
         StopMeasureFails, StopReturns, StopRejects

LEMMA BrowserTypes ==
  ASSUME TypeOK, Next
  PROVE  TypeBrowser'
<1> USE TypeParts DEF TypeBrowser, starting, permits, browser, obs, calls, close, history
<1>1. CASE Begin
  BY <1>1 DEF Begin
<1>2. CASE StartAppium
  BY <1>2 DEF StartAppium
<1>3. CASE OpenBrowser
  BY <1>3 DEF OpenBrowser
<1>4. CASE Grant
  BY <1>4 DEF Grant, GrantNative
<1>5. CASE StartStepFails
  BY <1>5 DEF StartStepFails, GrantNative, EnterClose
<1>6. CASE ResetOrigins
  BY <1>6 DEF ResetOrigins, CloseStep, Fail
<1>7. CASE RestoreNative
  BY <1>7 DEF RestoreNative, CloseStep, Fail, CallSessionClose
<1>8. CASE CloseBrowser
  BY <1>8 DEF CloseBrowser, CloseStep, Fail, FailAs
<1>9. CASE StopAppium
  BY <1>9 DEF StopAppium, CloseStep, Fail
<1>10. CASE CloseLate
  BY <1>10 DEF CloseLate, CloseStep, Fail, FailAs
<1>11. CASE CloseResolves
  BY <1>11 DEF CloseResolves, CloseStep, AfterClose
<1>12. CASE DeleteDone
  BY <1>12 DEF DeleteDone
<1>13. CASE DeleteFails
  BY <1>13 DEF DeleteFails
<1>14. CASE UNCHANGED <<browser>>
  BY <1>14
<1> QED BY <1>1, <1>2, <1>3, <1>4, <1>5, <1>6, <1>7, <1>8, <1>9, <1>10, <1>11, <1>12,
    <1>13, <1>14
     DEF Next, StartStep, TapeStep, StopStep, CloseSteps, PrepareCapture, RecordingBegun,
         StartReturns, Close, CloseVideo, CloseDevice, CloseStep, CloseCapture,
         CloseRejects, BeginRecording, OpenWorkspace, StageCapture, MarkViewport,
         PrepareScene, StartTape, RecordingStarts, RecordingStartFails, Saved,
         FinalizeFails, BeginStop, StopMeasured, StopMeasureFails, StopReturns, StopRejects

LEMMA RecordingTypes ==
  ASSUME TypeOK, Next
  PROVE  TypeRecording'
<1> USE TypeParts DEF TypeRecording, InFlight, starting, permits, browser, obs, calls,
    close, history
<1>1. CASE PrepareCapture
  BY <1>1 DEF PrepareCapture
<1>2. CASE StartStepFails
  BY <1>2 DEF StartStepFails, GrantNative, EnterClose
<1>3. CASE Close
  BY <1>3 DEF Close, EnterClose
<1>4. CASE CloseVideo
  BY <1>4 DEF CloseVideo, CloseStep, Fail
<1>5. CASE CloseCapture
  BY <1>5 DEF CloseCapture, CloseStep, Fail
<1>6. CASE CloseResolves
  BY <1>6 DEF CloseResolves, CloseStep, AfterClose
<1>7. ASSUME NEW r \in Recordings, BeginRecording(r)
      PROVE  TypeRecording'
  BY <1>7 DEF BeginRecording
<1>8. ASSUME NEW r \in Recordings, OpenWorkspace(r)
      PROVE  TypeRecording'
  BY <1>8 DEF OpenWorkspace
<1>9. ASSUME NEW r \in Recordings, StageCapture(r)
      PROVE  TypeRecording'
  BY <1>9 DEF StageCapture
<1>10. ASSUME NEW r \in Recordings, MarkViewport(r)
      PROVE  TypeRecording'
  BY <1>10 DEF MarkViewport
<1>11. ASSUME NEW r \in Recordings, PrepareScene(r)
      PROVE  TypeRecording'
  BY <1>11 DEF PrepareScene
<1>12. ASSUME NEW r \in Recordings, StartTape(r)
      PROVE  TypeRecording'
  BY <1>12 DEF StartTape
<1>13. ASSUME NEW r \in Recordings, RecordingStarts(r)
      PROVE  TypeRecording'
  BY <1>13 DEF RecordingStarts
<1>14. ASSUME NEW r \in Recordings, RecordingStartFails(r)
      PROVE  TypeRecording'
  BY <1>14 DEF RecordingStartFails, Unmark, Shows, StopTape, Runaway, LeaveWorkspace
<1>15. ASSUME NEW r \in Recordings, Saved(r)
      PROVE  TypeRecording'
  BY <1>15 DEF Saved, LeaveWorkspace
<1>16. ASSUME NEW r \in Recordings, FinalizeFails(r)
      PROVE  TypeRecording'
  BY <1>16 DEF FinalizeFails, StopTape, Runaway, LeaveWorkspace
<1>17. ASSUME NEW c \in Stoppers, BeginStop(c)
      PROVE  TypeRecording'
  BY <1>17 DEF BeginStop
<1>18. ASSUME NEW c \in Stoppers, StopMeasured(c)
      PROVE  TypeRecording'
  BY <1>18 DEF StopMeasured
<1>19. ASSUME NEW c \in Stoppers, StopMeasureFails(c)
      PROVE  TypeRecording'
  BY <1>19 DEF StopMeasureFails
<1>20. ASSUME NEW c \in Stoppers, StopReturns(c)
      PROVE  TypeRecording'
  BY <1>20 DEF StopReturns
<1>21. ASSUME NEW c \in Stoppers, StopRejects(c)
      PROVE  TypeRecording'
  BY <1>21 DEF StopRejects
<1>22. CASE UNCHANGED <<obs, calls>>
  BY <1>22
<1> QED BY <1>1, <1>2, <1>3, <1>4, <1>5, <1>6, <1>7, <1>8, <1>9, <1>10, <1>11, <1>12,
    <1>13, <1>14, <1>15, <1>16, <1>17, <1>18, <1>19, <1>20, <1>21, <1>22
     DEF Next, StartStep, TapeStep, StopStep, CloseSteps, Begin, StartAppium, OpenBrowser,
         Grant, RecordingBegun, StartReturns, ResetOrigins, RestoreNative, CloseBrowser,
         StopAppium, CloseLate, CloseDevice, CloseStep, CloseRejects, DeleteDone,
         DeleteFails

LEMMA CloseTypes ==
  ASSUME TypeOK, Next
  PROVE  TypeClose'
<1> USE TypeParts, FaultCounts DEF TypeClose, TypeRecording, Steps, MayFail, starting,
    permits, browser, obs, calls, close, history
<1>1. CASE StartStepFails
  BY <1>1 DEF StartStepFails, GrantNative, EnterClose
<1>2. CASE Close
  BY <1>2 DEF Close, EnterClose
<1>3. CASE CloseVideo
  BY <1>3 DEF CloseVideo, CloseStep, Fail
<1>4. CASE ResetOrigins
  BY <1>4 DEF ResetOrigins, CloseStep, Fail
<1>5. CASE RestoreNative
  BY <1>5 DEF RestoreNative, CloseStep, Fail, CallSessionClose
<1>6. CASE CloseBrowser
  BY <1>6 DEF CloseBrowser, CloseStep, Fail, FailAs
<1>7. CASE StopAppium
  BY <1>7 DEF StopAppium, CloseStep, Fail
<1>8. CASE CloseLate
  BY <1>8 DEF CloseLate, CloseStep, Fail, FailAs
<1>9. CASE CloseDevice
  BY <1>9 DEF CloseDevice, CloseStep, Fail
<1>10. CASE CloseCapture
  BY <1>10 DEF CloseCapture, CloseStep, Fail
<1>11. CASE CloseResolves
  BY <1>11 DEF CloseResolves, CloseStep, AfterClose
<1>12. CASE CloseRejects
  BY <1>12 DEF CloseRejects, CloseStep, AfterClose
<1>13. CASE DeleteFails
  BY <1>13 DEF DeleteFails
<1>14. ASSUME NEW r \in Recordings, RecordingStartFails(r)
      PROVE  TypeClose'
  BY <1>14 DEF RecordingStartFails, Unmark, Shows, StopTape, Runaway, LeaveWorkspace
<1>15. ASSUME NEW r \in Recordings, FinalizeFails(r)
      PROVE  TypeClose'
  BY <1>15 DEF FinalizeFails, StopTape, Runaway, LeaveWorkspace
<1>16. ASSUME NEW c \in Stoppers, StopMeasureFails(c)
      PROVE  TypeClose'
  BY <1>16 DEF StopMeasureFails
<1>17. ASSUME NEW c \in Stoppers, StopReturns(c)
      PROVE  TypeClose'
  BY <1>17 DEF StopReturns
<1>18. CASE UNCHANGED <<closing, ending, failures, outcome, faults, lapses>>
  BY <1>18
<1> QED BY <1>1, <1>2, <1>3, <1>4, <1>5, <1>6, <1>7, <1>8, <1>9, <1>10, <1>11, <1>12,
    <1>13, <1>14, <1>15, <1>16, <1>17, <1>18
     DEF Next, StartStep, TapeStep, StopStep, CloseSteps, Begin, PrepareCapture,
         StartAppium, OpenBrowser, Grant, RecordingBegun, StartReturns, DeleteDone,
         BeginRecording, OpenWorkspace, StageCapture, MarkViewport, PrepareScene,
         StartTape, RecordingStarts, Saved, BeginStop, StopMeasured, StopRejects

LEMMA TypeStep ==
  ASSUME TypeOK, Next
  PROVE  TypeOK'
<1>1. TypeParts'
  BY DEF TypeOK, TypeStart, TypeBrowser, TypeRecording, TypeClose
<1> QED BY <1>1, StartTypes, BrowserTypes, RecordingTypes, CloseTypes, TypeParts

-------------------------------------------------------------------------------
Race == "race" \in lapses

\* A recorder that is warming up, active or being finalized is the one OBS works for, and OBS
\* works for nobody else unless it did not obey.
TapeIsOfRecorder ==
  /\ \A r \in Recordings : rec[r] \in {"warming", "active", "finalizing"} => taping = r
  /\ taping # None /\ "obs" \notin lapses => rec[taping] \in {"warming", "active",
      "finalizing"}

\* this.video is a recorder that got OBS to record; and one that OBS records for is this.video.
RecorderIsVideo ==
  /\ \A r \in Recordings : rec[r] \in {"active", "finalizing"} => video = r \/ Race
  /\ video # None => rec[video] \in {"active", "finalizing", "saved", "broken"}

\* A stopRecording() waits for a recorder that was this.video.
SeenHasStarted ==
  \A c \in Stoppers : stopper[c] # "idle" =>
    seen[c] \in Recordings /\ rec[seen[c]] \in {"active", "finalizing", "saved", "broken"}

\* start() makes one recording at most, and waits for it.
StartingAlone ==
  /\ start \in {"new", "capturing", "booting", "opening", "granting", "retry"} =>
       \A r \in Recordings : rec[r] = "idle"
  /\ start = "recording" =>
       \A r, q \in Recordings : rec[r] # "idle" /\ rec[q] # "idle" => r = q
  /\ start = "visiting" => \A r \in Recordings : rec[r] \notin InFlight

\* Once the first close() has begun no recording begins or goes on, but for a race.
Retired == start \in {"undo", "retry", "failed"} \/ outcome # "none" \/ closing # "no"
NoneGoesOn ==
  /\ closing # "no" => start \notin Starting
  /\ start \in Starting \union {"undo", "retry"} => outcome = "none"
  /\ Retired /\ ~Race => \A r \in Recordings : rec[r] \notin InFlight \union {"active"}

\* The recorder that is being finalized is the one close() waits for before it does anything else.
EndIsAwaited ==
  (closing # "no" \/ outcome = "resolved") /\ ~Race =>
    \A r \in Recordings : rec[r] = "finalizing" => closing = "video" /\ ending = r

\* What is on the page belongs to a start that will take it off.
MarksInSetup ==
  "page" \notin lapses => \A r \in marks : rec[r] \in {"staged", "marked"}

\* The lock of OBS is held for the capture that start() prepared, or for a recording under way.
WorkspaceIsUsed ==
  /\ workspace = Prepared <=> prepared
  /\ \A r \in Recordings : workspace = r =>
       rec[r] \in (InFlight \ {"measuring"}) \union {"active", "finalizing"}

\* close() up to the call of session.close(), and after it.
Before == {"no", "video", "origins", "native"}
After  == {"browser", "appium", "late", "device", "capture", "result"}

\* What close() has seen to is gone from the fields.
FieldsCleared ==
  /\ closing \in After \/ outcome = "resolved" => ~handle /\ ~native
  /\ closing = "result" \/ outcome = "resolved" => ~prepared
  /\ outcome = "resolved" => closing = "no" /\ start \in {"started", "failed"}

\* Where a browser that lives on is still known: it has a handle, its deletion is waited for,
\* or a failure was noted.
BrowserIsKnown ==
  CASE closing \in Before -> handle
    [] closing = "browser" -> pending \in {"running", "error", "crash"}
    [] closing \in {"appium", "late"} -> \/ pending \in {"running", "error", "crash"}
                                        \/ failures \intersect {"browser", "crash"} # {}
    [] OTHER -> failures \intersect {"browser", "crash"} # {}

\* During the first close() everything that is still there is still known.
NothingForgotten ==
  "retry" \notin lapses =>
    /\ closing \in Before => pending = "none" /\ appium # "down"
    /\ appium = "down" => ~alive
    /\ granted => native \/ (closing \in After /\ "native" \in failures)
    /\ alive => BrowserIsKnown

IndInv == /\ TypeOK /\ TapeIsOfRecorder /\ RecorderIsVideo /\ SeenHasStarted /\ StartingAlone
          /\ NoneGoesOn /\ EndIsAwaited /\ MarksInSetup
          /\ WorkspaceIsUsed /\ FieldsCleared /\ NothingForgotten

LEMMA InitIndInv == Init => IndInv
<1> SUFFICES ASSUME Init
             PROVE  IndInv
  OBVIOUS
<1>1. TypeOK
  BY InitTypes
<1>2. WorkspaceIsUsed /\ FieldsCleared /\ NothingForgotten
  BY ControllerAssumption DEF ControllerAssumption, Init, WorkspaceIsUsed, FieldsCleared,
     NothingForgotten, Before, After
<1> QED BY <1>1, <1>2 DEF Init, IndInv, TapeIsOfRecorder, RecorderIsVideo, SeenHasStarted,
     StartingAlone, NoneGoesOn, EndIsAwaited, MarksInSetup, Race, Retired, InFlight,
         Starting

LEMMA TapeStepKeeps ==
  ASSUME IndInv, Next
  PROVE  (TapeIsOfRecorder /\ RecorderIsVideo /\ SeenHasStarted /\ MarksInSetup)'
<1> DEFINE Goal == TapeIsOfRecorder /\ RecorderIsVideo /\ SeenHasStarted /\ MarksInSetup
<1> SUFFICES Goal'
  OBVIOUS
<1>0. TypeStart /\ TypeRecording /\ TypeClose
  BY TypeParts DEF IndInv
<1> USE ControllerAssumption DEF ControllerAssumption, IndInv, TapeIsOfRecorder,
    RecorderIsVideo, SeenHasStarted,
    MarksInSetup, Race, StartingAlone,
    InFlight, starting, browser, obs, calls, close, history, MayFail
<1>1. CASE Begin
  BY <1>0, <1>1 DEF TypeStart, TypeRecording, Begin
<1>2. CASE PrepareCapture
  BY <1>0, <1>2 DEF TypeStart, TypeRecording, PrepareCapture
<1>3. CASE StartAppium
  BY <1>0, <1>3 DEF TypeStart, TypeRecording, StartAppium
<1>4. CASE OpenBrowser
  BY <1>0, <1>4 DEF TypeStart, TypeRecording, OpenBrowser
<1>5. CASE Grant
  BY <1>0, <1>5 DEF TypeStart, TypeRecording, Grant
<1>6. CASE RecordingBegun
  BY <1>0, <1>6 DEF TypeStart, TypeRecording, RecordingBegun
<1>7. CASE StartReturns
  BY <1>0, <1>7 DEF TypeStart, TypeRecording, StartReturns
<1>8. CASE StartStepFails
  BY <1>0, <1>8 DEF TypeStart, TypeRecording, StartStepFails, GrantNative, EnterClose
<1>9. CASE Close
  BY <1>0, <1>9 DEF TypeStart, TypeRecording, Close, EnterClose
<1>10. CASE CloseVideo
  BY <1>0, <1>10 DEF TypeStart, TypeRecording, CloseVideo, CloseStep, Fail
<1>11. CASE CloseResolves
  BY <1>0, <1>11 DEF TypeStart, TypeRecording, CloseResolves, CloseStep, AfterClose,
      NoneGoesOn,
     EndIsAwaited, Retired
<1>12. CASE CloseRejects
  BY <1>0, <1>12 DEF TypeStart, TypeRecording, CloseRejects, CloseStep, AfterClose
<1>13. CASE \E step, next : CloseStep(step, next) /\ step \notin {"no",
    "video"} /\ step # "result" /\ next # "no"
           /\ UNCHANGED <<start, outcome, ending, taping, rec, stopper, seen, video, marks,
               lapses>>
  BY <1>0, <1>13 DEF CloseStep
<1>14. CASE UNCHANGED <<start, outcome, closing, ending, taping, rec, stopper, seen, video,
    marks,
                     lapses>>
  BY <1>0, <1>14
<1>15. ASSUME NEW r \in Recordings, BeginRecording(r)
      PROVE  Goal'
  BY <1>0, <1>15 DEF TypeRecording, BeginRecording
<1>16. ASSUME NEW r \in Recordings, OpenWorkspace(r)
      PROVE  Goal'
  BY <1>0, <1>16 DEF TypeRecording, OpenWorkspace
<1>17. ASSUME NEW r \in Recordings, StageCapture(r)
      PROVE  Goal'
  BY <1>0, <1>17 DEF TypeRecording, StageCapture
<1>18. ASSUME NEW r \in Recordings, MarkViewport(r)
      PROVE  Goal'
  BY <1>0, <1>18 DEF TypeRecording, MarkViewport
<1>19. ASSUME NEW r \in Recordings, PrepareScene(r)
      PROVE  Goal'
  BY <1>0, <1>19 DEF TypeRecording, PrepareScene
<1>20. ASSUME NEW r \in Recordings, StartTape(r)
      PROVE  Goal'
  BY <1>0, <1>20 DEF TypeRecording, StartTape
<1>21. ASSUME NEW r \in Recordings, RecordingStarts(r)
      PROVE  Goal'
  BY <1>0, <1>21 DEF TypeRecording, RecordingStarts
<1>22. ASSUME NEW r \in Recordings, RecordingStartFails(r)
      PROVE  Goal'
  BY <1>0, <1>22 DEF TypeRecording, RecordingStartFails, Unmark, Shows, StopTape, Runaway,
      LeaveWorkspace
<1>23. ASSUME NEW r \in Recordings, Saved(r)
      PROVE  Goal'
  BY <1>0, <1>23 DEF TypeRecording, Saved, LeaveWorkspace
<1>24. ASSUME NEW r \in Recordings, FinalizeFails(r)
      PROVE  Goal'
  BY <1>0, <1>24 DEF TypeRecording, FinalizeFails, StopTape, Runaway, LeaveWorkspace
<1>25. ASSUME NEW c \in Stoppers, BeginStop(c)
      PROVE  Goal'
  BY <1>0, <1>25 DEF TypeRecording, BeginStop
<1>26. ASSUME NEW c \in Stoppers, StopMeasured(c)
      PROVE  Goal'
  BY <1>0, <1>26 DEF TypeRecording, StopMeasured
<1>27. ASSUME NEW c \in Stoppers, StopMeasureFails(c)
      PROVE  Goal'
  BY <1>0, <1>27 DEF TypeRecording, StopMeasureFails
<1>28. ASSUME NEW c \in Stoppers, StopReturns(c)
      PROVE  Goal'
  BY <1>0, <1>28 DEF TypeRecording, StopReturns
<1>29. ASSUME NEW c \in Stoppers, StopRejects(c)
      PROVE  Goal'
  BY <1>0, <1>29 DEF TypeRecording, StopRejects
<1> QED BY <1>1, <1>2, <1>3, <1>4, <1>5, <1>6, <1>7, <1>8, <1>9, <1>10, <1>11, <1>12,
    <1>13, <1>14, <1>15, <1>16, <1>17, <1>18, <1>19, <1>20, <1>21, <1>22, <1>23, <1>24,
    <1>25, <1>26, <1>27, <1>28, <1>29
     DEF Next, StartStep, TapeStep, StopStep, CloseSteps, ResetOrigins, RestoreNative,
         CloseBrowser, StopAppium,
         CloseLate, CloseDevice, CloseCapture, DeleteDone, DeleteFails

LEMMA PhaseKeeps ==
  ASSUME IndInv, Next
  PROVE  (StartingAlone /\ NoneGoesOn /\ EndIsAwaited)'
<1> DEFINE Goal == StartingAlone /\ NoneGoesOn /\ EndIsAwaited
<1> SUFFICES Goal'
  OBVIOUS
<1>0. TypeStart /\ TypeRecording /\ TypeClose
  BY TypeParts DEF IndInv
<1> USE ControllerAssumption DEF ControllerAssumption, IndInv, StartingAlone, NoneGoesOn,
    EndIsAwaited, Retired, Race, RecorderIsVideo, Starting,
    SeenHasStarted, Listed,
    InFlight, starting, browser, obs, calls, close, history, MayFail
<1>1. CASE Begin
  BY <1>0, <1>1 DEF TypeStart, TypeRecording, Begin
<1>2. CASE PrepareCapture
  BY <1>0, <1>2 DEF TypeStart, TypeRecording, PrepareCapture
<1>3. CASE StartAppium
  BY <1>0, <1>3 DEF TypeStart, TypeRecording, StartAppium
<1>4. CASE OpenBrowser
  BY <1>0, <1>4 DEF TypeStart, TypeRecording, OpenBrowser
<1>5. CASE Grant
  BY <1>0, <1>5 DEF TypeStart, TypeRecording, Grant
<1>6. CASE RecordingBegun
  BY <1>0, <1>6 DEF TypeStart, TypeRecording, RecordingBegun
<1>7. CASE StartReturns
  BY <1>0, <1>7 DEF TypeStart, TypeRecording, StartReturns
<1>8. CASE StartStepFails
  <2>1. /\ start \in Starting \ {"new"} /\ start' \in {"undo", "retry"}
        /\ start' = "retry" => start = "opening"
        /\ closing' = "video" /\ ending' = video
        /\ UNCHANGED <<outcome, video, lapses>>
    BY <1>8 DEF StartStepFails, EnterClose, MayRetry
  <2>2. \A r \in Recordings :
          rec'[r] = IF r = video /\ rec[r] = "active" THEN "finalizing" ELSE rec[r]
    BY <1>8 DEF StartStepFails, EnterClose
  <2>3. \A r \in Recordings : rec[r] \notin InFlight
    <3>1. start = "recording" => \E r \in Recordings : rec[r] = "failed"
      BY <1>8 DEF StartStepFails
    <3> QED BY <2>1, <3>1
  <2>4. StartingAlone'
    BY <1>0, <2>1, <2>2
  <2>5. NoneGoesOn'
    BY <1>0, <2>1, <2>2, <2>3
  <2>6. EndIsAwaited'
    BY <1>0, <2>1, <2>2
  <2> QED BY <2>4, <2>5, <2>6
<1>9. CASE Close
  BY <1>0, <1>9 DEF TypeStart, TypeRecording, Close, EnterClose
<1>10. CASE CloseVideo
  BY <1>0, <1>10 DEF TypeStart, TypeRecording, CloseVideo, CloseStep, Fail
<1>11. CASE CloseResolves
  BY <1>0, <1>11 DEF TypeStart, TypeRecording, CloseResolves, CloseStep, AfterClose
<1>12. CASE CloseRejects
  BY <1>0, <1>12 DEF TypeStart, TypeRecording, CloseRejects, CloseStep, AfterClose
<1>13. CASE \E step, next : CloseStep(step, next) /\ step \notin {"no",
    "video"} /\ step # "result" /\ next # "no"
           /\ UNCHANGED <<start, outcome, ending, taping, rec, stopper, seen, video, marks,
               lapses>>
  BY <1>0, <1>13 DEF CloseStep
<1>14. CASE UNCHANGED <<start, outcome, closing, ending, taping, rec, stopper, seen, video,
    marks,
                     lapses>>
  BY <1>0, <1>14
<1>15. ASSUME NEW r \in Recordings, BeginRecording(r)
      PROVE  Goal'
  BY <1>0, <1>15 DEF TypeRecording, BeginRecording
<1>16. ASSUME NEW r \in Recordings, OpenWorkspace(r)
      PROVE  Goal'
  BY <1>0, <1>16 DEF TypeRecording, OpenWorkspace
<1>17. ASSUME NEW r \in Recordings, StageCapture(r)
      PROVE  Goal'
  BY <1>0, <1>17 DEF TypeRecording, StageCapture
<1>18. ASSUME NEW r \in Recordings, MarkViewport(r)
      PROVE  Goal'
  BY <1>0, <1>18 DEF TypeRecording, MarkViewport
<1>19. ASSUME NEW r \in Recordings, PrepareScene(r)
      PROVE  Goal'
  BY <1>0, <1>19 DEF TypeRecording, PrepareScene
<1>20. ASSUME NEW r \in Recordings, StartTape(r)
      PROVE  Goal'
  BY <1>0, <1>20 DEF TypeRecording, StartTape
<1>21. ASSUME NEW r \in Recordings, RecordingStarts(r)
      PROVE  Goal'
  BY <1>0, <1>21 DEF TypeRecording, RecordingStarts
<1>22. ASSUME NEW r \in Recordings, RecordingStartFails(r)
      PROVE  Goal'
  BY <1>0, <1>22 DEF TypeRecording, RecordingStartFails, Unmark, Shows, StopTape, Runaway,
      LeaveWorkspace
<1>23. ASSUME NEW r \in Recordings, Saved(r)
      PROVE  Goal'
  BY <1>0, <1>23 DEF TypeRecording, Saved, LeaveWorkspace
<1>24. ASSUME NEW r \in Recordings, FinalizeFails(r)
      PROVE  Goal'
  BY <1>0, <1>24 DEF TypeRecording, FinalizeFails, StopTape, Runaway, LeaveWorkspace
<1>25. ASSUME NEW c \in Stoppers, BeginStop(c)
      PROVE  Goal'
  BY <1>0, <1>25 DEF TypeRecording, BeginStop
<1>26. ASSUME NEW c \in Stoppers, StopMeasured(c)
      PROVE  Goal'
  BY <1>0, <1>26 DEF TypeRecording, StopMeasured
<1>27. ASSUME NEW c \in Stoppers, StopMeasureFails(c)
      PROVE  Goal'
  BY <1>0, <1>27 DEF TypeRecording, StopMeasureFails
<1>28. ASSUME NEW c \in Stoppers, StopReturns(c)
      PROVE  Goal'
  BY <1>0, <1>28 DEF TypeRecording, StopReturns
<1>29. ASSUME NEW c \in Stoppers, StopRejects(c)
      PROVE  Goal'
  BY <1>0, <1>29 DEF TypeRecording, StopRejects
<1> QED BY <1>1, <1>2, <1>3, <1>4, <1>5, <1>6, <1>7, <1>8, <1>9, <1>10, <1>11, <1>12,
    <1>13, <1>14, <1>15, <1>16, <1>17, <1>18, <1>19, <1>20, <1>21, <1>22, <1>23, <1>24,
    <1>25, <1>26, <1>27, <1>28, <1>29
     DEF Next, StartStep, TapeStep, StopStep, CloseSteps, ResetOrigins, RestoreNative,
         CloseBrowser, StopAppium,
         CloseLate, CloseDevice, CloseCapture, DeleteDone, DeleteFails

LEMMA WorkspaceKeeps ==
  ASSUME IndInv, Next
  PROVE  WorkspaceIsUsed'
<1>0. TypeStart /\ TypeBrowser /\ TypeRecording /\ TypeClose
  BY TypeParts DEF IndInv
<1> USE ControllerAssumption DEF ControllerAssumption, IndInv, WorkspaceIsUsed, InFlight,
    starting, browser, permits, obs, calls, close, history, MayFail
<1>1. CASE PrepareCapture
  BY <1>0, <1>1 DEF TypeRecording, PrepareCapture
<1>2. CASE StartStepFails
  BY <1>0, <1>2 DEF TypeRecording, StartStepFails, GrantNative, EnterClose
<1>3. CASE Close
  BY <1>0, <1>3 DEF TypeRecording, Close, EnterClose
<1>4. CASE CloseCapture
  BY <1>0, <1>4 DEF TypeRecording, CloseCapture, CloseStep, Fail
<1>5. ASSUME NEW r \in Recordings, BeginRecording(r)
      PROVE  WorkspaceIsUsed'
  BY <1>0, <1>5 DEF TypeRecording, BeginRecording
<1>6. ASSUME NEW r \in Recordings, OpenWorkspace(r)
      PROVE  WorkspaceIsUsed'
  BY <1>0, <1>6 DEF TypeRecording, OpenWorkspace
<1>7. ASSUME NEW r \in Recordings, StageCapture(r)
      PROVE  WorkspaceIsUsed'
  BY <1>0, <1>7 DEF TypeRecording, StageCapture
<1>8. ASSUME NEW r \in Recordings, MarkViewport(r)
      PROVE  WorkspaceIsUsed'
  BY <1>0, <1>8 DEF TypeRecording, MarkViewport
<1>9. ASSUME NEW r \in Recordings, PrepareScene(r)
      PROVE  WorkspaceIsUsed'
  BY <1>0, <1>9 DEF TypeRecording, PrepareScene
<1>10. ASSUME NEW r \in Recordings, StartTape(r)
      PROVE  WorkspaceIsUsed'
  BY <1>0, <1>10 DEF TypeRecording, StartTape
<1>11. ASSUME NEW r \in Recordings, RecordingStarts(r)
      PROVE  WorkspaceIsUsed'
  BY <1>0, <1>11 DEF TypeRecording, RecordingStarts
<1>12. ASSUME NEW r \in Recordings, RecordingStartFails(r)
      PROVE  WorkspaceIsUsed'
  BY <1>0, <1>12 DEF TypeRecording, RecordingStartFails, Unmark, Shows, StopTape, Runaway,
      LeaveWorkspace
<1>13. ASSUME NEW r \in Recordings, Saved(r)
      PROVE  WorkspaceIsUsed'
  BY <1>0, <1>13 DEF TypeRecording, Saved, LeaveWorkspace
<1>14. ASSUME NEW r \in Recordings, FinalizeFails(r)
      PROVE  WorkspaceIsUsed'
  BY <1>0, <1>14 DEF TypeRecording, FinalizeFails, StopTape, Runaway, LeaveWorkspace
<1>15. ASSUME NEW c \in Stoppers, StopMeasured(c)
      PROVE  WorkspaceIsUsed'
  BY <1>0, <1>15 DEF TypeRecording, StopMeasured
<1>16. CASE UNCHANGED <<workspace, prepared, rec>>
  BY <1>0, <1>16
<1> QED BY <1>1, <1>2, <1>3, <1>4, <1>5, <1>6, <1>7, <1>8, <1>9, <1>10, <1>11, <1>12,
    <1>13, <1>14, <1>15, <1>16
     DEF Next, StartStep, TapeStep, StopStep, CloseSteps, Begin, StartAppium, OpenBrowser,
         Grant, RecordingBegun, StartReturns, CloseVideo, CloseStep, Fail, ResetOrigins,
         RestoreNative, CloseBrowser, CloseStep, Fail, FailAs, StopAppium, CloseLate,
         CloseStep, Fail, FailAs, CloseDevice, CloseStep, Fail, CloseResolves, CloseStep,
         AfterClose, CloseRejects, CloseStep, AfterClose, DeleteDone, DeleteFails,
         BeginStop, StopMeasureFails, StopReturns, StopRejects

LEMMA FieldsKeep ==
  ASSUME IndInv, Next
  PROVE  FieldsCleared'
<1>0. TypeStart /\ TypeBrowser /\ TypeRecording /\ TypeClose
  BY TypeParts DEF IndInv
<1> USE ControllerAssumption DEF ControllerAssumption, IndInv, FieldsCleared, Before, After,
    starting, browser, permits, obs, calls, close, history, MayFail
<1>1. CASE Begin
  BY <1>0, <1>1 DEF TypeStart, TypeClose, TypeBrowser, NoneGoesOn, Starting, Begin
<1>2. CASE PrepareCapture
  BY <1>0, <1>2 DEF TypeStart, TypeClose, TypeBrowser, NoneGoesOn, Starting, PrepareCapture
<1>3. CASE StartAppium
  BY <1>0, <1>3 DEF TypeStart, TypeClose, TypeBrowser, NoneGoesOn, Starting, StartAppium
<1>4. CASE OpenBrowser
  BY <1>0, <1>4 DEF TypeStart, TypeClose, TypeBrowser, NoneGoesOn, Starting, OpenBrowser
<1>5. CASE Grant
  BY <1>0, <1>5 DEF TypeStart, TypeClose, TypeBrowser, NoneGoesOn, Starting, Grant,
      GrantNative
<1>6. CASE RecordingBegun
  BY <1>0, <1>6 DEF TypeStart, TypeClose, TypeBrowser, NoneGoesOn, Starting, RecordingBegun
<1>7. CASE StartReturns
  BY <1>0, <1>7 DEF TypeStart, TypeClose, TypeBrowser, NoneGoesOn, Starting, StartReturns
<1>8. CASE StartStepFails
  BY <1>0, <1>8 DEF TypeStart, TypeClose, TypeBrowser, NoneGoesOn, Starting,
      StartStepFails, GrantNative, EnterClose
<1>9. CASE Close
  BY <1>0, <1>9 DEF TypeStart, TypeClose, TypeBrowser, NoneGoesOn, Starting, Close,
      EnterClose
<1>10. CASE CloseVideo
  BY <1>0, <1>10 DEF TypeStart, TypeClose, TypeBrowser, NoneGoesOn, Starting, CloseVideo,
      CloseStep, Fail
<1>11. CASE ResetOrigins
  BY <1>0, <1>11 DEF TypeStart, TypeClose, TypeBrowser, NoneGoesOn, Starting, ResetOrigins,
      CloseStep, Fail
<1>12. CASE RestoreNative
  BY <1>0, <1>12 DEF TypeStart, TypeClose, TypeBrowser, NoneGoesOn, Starting,
      RestoreNative, CloseStep, Fail, CallSessionClose
<1>13. CASE CloseBrowser
  BY <1>0, <1>13 DEF TypeStart, TypeClose, TypeBrowser, NoneGoesOn, Starting, CloseBrowser,
      CloseStep, Fail, FailAs
<1>14. CASE StopAppium
  BY <1>0, <1>14 DEF TypeStart, TypeClose, TypeBrowser, NoneGoesOn, Starting, StopAppium,
      CloseStep, Fail
<1>15. CASE CloseLate
  BY <1>0, <1>15 DEF TypeStart, TypeClose, TypeBrowser, NoneGoesOn, Starting, CloseLate,
      CloseStep, Fail, FailAs
<1>16. CASE CloseDevice
  BY <1>0, <1>16 DEF TypeStart, TypeClose, TypeBrowser, NoneGoesOn, Starting, CloseDevice,
      CloseStep, Fail
<1>17. CASE CloseCapture
  BY <1>0, <1>17 DEF TypeStart, TypeClose, TypeBrowser, NoneGoesOn, Starting, CloseCapture,
      CloseStep, Fail
<1>18. CASE CloseResolves
  BY <1>0, <1>18 DEF TypeStart, TypeClose, TypeBrowser, NoneGoesOn, Starting,
      CloseResolves, CloseStep, AfterClose
<1>19. CASE CloseRejects
  BY <1>0, <1>19 DEF TypeStart, TypeClose, TypeBrowser, NoneGoesOn, Starting, CloseRejects,
      CloseStep, AfterClose
<1>20. CASE UNCHANGED <<closing, outcome, start, handle, native, prepared>>
  BY <1>0, <1>20
<1> QED BY <1>1, <1>2, <1>3, <1>4, <1>5, <1>6, <1>7, <1>8, <1>9, <1>10, <1>11, <1>12,
    <1>13, <1>14, <1>15, <1>16, <1>17, <1>18, <1>19, <1>20
     DEF Next, StartStep, TapeStep, StopStep, CloseSteps, DeleteDone, DeleteFails,
         BeginRecording, OpenWorkspace, StageCapture, MarkViewport, PrepareScene,
         StartTape, RecordingStarts, RecordingStartFails, Saved, FinalizeFails, BeginStop,
         StopMeasured, StopMeasureFails, StopReturns, StopRejects

LEMMA NothingForgottenKeeps ==
  ASSUME IndInv, Next
  PROVE  NothingForgotten'
<1>0. TypeStart /\ TypeBrowser /\ TypeRecording /\ TypeClose
  BY TypeParts DEF IndInv
<1> USE ControllerAssumption DEF ControllerAssumption, IndInv, NothingForgotten,
    BrowserIsKnown, Before, After, FieldsCleared,
    starting, browser, permits, obs, calls, close, history, MayFail
<1>1. CASE StartAppium
  BY <1>0, <1>1 DEF TypeBrowser, TypeClose, NoneGoesOn, Starting, StartAppium
<1>2. CASE OpenBrowser
  BY <1>0, <1>2 DEF TypeBrowser, TypeClose, NoneGoesOn, Starting, OpenBrowser
<1>3. CASE Grant
  BY <1>0, <1>3 DEF TypeBrowser, TypeClose, NoneGoesOn, Starting, Grant, GrantNative
<1>4. CASE StartStepFails
  <2>1. /\ closing = "no" /\ closing' = "video"
        /\ UNCHANGED <<handle, pending, appium, alive, lapses>>
    BY <1>4 DEF NoneGoesOn, StartStepFails, EnterClose
  <2>2. CASE start = "granting"
    <3>1. PICK asked \in IF kind = "android" THEN BOOLEAN ELSE {FALSE} :
            native' = asked /\ granted' \in {asked, FALSE}
      BY <1>4, <2>2 DEF StartStepFails, GrantNative
    <3>2. granted' => native'
      BY <3>1
    <3> QED BY <2>1, <3>2
  <2>3. CASE start # "granting"
    <3>1. UNCHANGED <<native, granted>>
      BY <1>4, <2>3 DEF StartStepFails
    <3> QED BY <2>1, <3>1
  <2> QED BY <2>2, <2>3
<1>5. CASE Close
  BY <1>0, <1>5 DEF TypeBrowser, TypeClose, NoneGoesOn, Starting, Close, EnterClose
<1>6. CASE CloseVideo
  BY <1>0, <1>6 DEF TypeBrowser, TypeClose, NoneGoesOn, Starting, CloseVideo, CloseStep,
      Fail
<1>7. CASE ResetOrigins
  BY <1>0, <1>7 DEF TypeBrowser, TypeClose, NoneGoesOn, Starting, ResetOrigins, CloseStep,
      Fail
<1>8. CASE RestoreNative
  BY <1>0, <1>8 DEF TypeBrowser, TypeClose, NoneGoesOn, Starting, RestoreNative, CloseStep,
      Fail, CallSessionClose
<1>9. CASE CloseBrowser
  BY <1>0, <1>9 DEF TypeBrowser, TypeClose, NoneGoesOn, Starting, CloseBrowser, CloseStep,
      Fail, FailAs
<1>10. CASE StopAppium
  BY <1>0, <1>10 DEF TypeBrowser, TypeClose, NoneGoesOn, Starting, StopAppium, CloseStep,
      Fail
<1>11. CASE CloseLate
  BY <1>0, <1>11 DEF TypeBrowser, TypeClose, NoneGoesOn, Starting, CloseLate, CloseStep,
      Fail, FailAs
<1>12. CASE CloseDevice
  BY <1>0, <1>12 DEF TypeBrowser, TypeClose, NoneGoesOn, Starting, CloseDevice, CloseStep,
      Fail
<1>13. CASE CloseCapture
  BY <1>0, <1>13 DEF TypeBrowser, TypeClose, NoneGoesOn, Starting, CloseCapture, CloseStep,
      Fail
<1>14. CASE CloseResolves
  BY <1>0, <1>14 DEF TypeBrowser, TypeClose, Excused, CloseResolves, CloseStep, AfterClose
<1>15. CASE CloseRejects
  BY <1>0, <1>15 DEF TypeBrowser, TypeClose, NoneGoesOn, Starting, CloseRejects, CloseStep,
      AfterClose
<1>16. CASE DeleteDone
  BY <1>0, <1>16 DEF TypeBrowser, TypeClose, NoneGoesOn, Starting, DeleteDone
<1>17. CASE DeleteFails
  BY <1>0, <1>17 DEF TypeBrowser, TypeClose, NoneGoesOn, Starting, DeleteFails
<1>18. ASSUME NEW r \in Recordings, RecordingStartFails(r)
      PROVE  NothingForgotten'
  BY <1>0, <1>18 DEF TypeBrowser, TypeClose, NoneGoesOn, Starting, RecordingStartFails,
      Unmark, StopTape, Runaway, LeaveWorkspace
<1>19. ASSUME NEW r \in Recordings, FinalizeFails(r)
      PROVE  NothingForgotten'
  BY <1>0, <1>19 DEF TypeBrowser, TypeClose, NoneGoesOn, Starting, FinalizeFails, StopTape,
      Runaway, LeaveWorkspace
<1>20. ASSUME NEW c \in Stoppers, StopReturns(c)
      PROVE  NothingForgotten'
  BY <1>0, <1>20 DEF TypeBrowser, TypeClose, NoneGoesOn, Starting, StopReturns
<1>21. CASE UNCHANGED <<lapses, closing, pending, appium, alive, granted, native, handle,
    failures>>
  BY <1>0, <1>21
<1> QED BY <1>1, <1>2, <1>3, <1>4, <1>5, <1>6, <1>7, <1>8, <1>9, <1>10, <1>11, <1>12,
    <1>13, <1>14, <1>15, <1>16, <1>17, <1>18, <1>19, <1>20, <1>21
     DEF Next, StartStep, TapeStep, StopStep, CloseSteps, Begin, PrepareCapture,
         RecordingBegun, StartReturns, BeginRecording, OpenWorkspace, StageCapture,
         MarkViewport, PrepareScene, StartTape, RecordingStarts, Saved, BeginStop,
         StopMeasured, StopMeasureFails, StopRejects

LEMMA StepIndInv == IndInv /\ [Next]_vars => IndInv'
<1> SUFFICES ASSUME IndInv, [Next]_vars
             PROVE  IndInv'
  OBVIOUS
<1>1. CASE Next
  BY <1>1, TypeStep, TapeStepKeeps, PhaseKeeps, WorkspaceKeeps, FieldsKeep,
     NothingForgottenKeeps DEF IndInv
<1>2. CASE UNCHANGED vars
  <2> USE <1>2 DEF vars, starting, permits, browser, obs, calls, close, history, IndInv
  <2>1. TypeOK'
    BY DEF TypeOK
  <2>2. (TapeIsOfRecorder /\ RecorderIsVideo /\ SeenHasStarted /\ StartingAlone)'
    BY DEF TapeIsOfRecorder, RecorderIsVideo, SeenHasStarted, StartingAlone, Race
  <2>3. (NoneGoesOn /\ EndIsAwaited /\ MarksInSetup)'
    BY DEF NoneGoesOn, EndIsAwaited, MarksInSetup, Race, Retired
  <2>4. (WorkspaceIsUsed /\ FieldsCleared /\ NothingForgotten)'
    BY DEF WorkspaceIsUsed, FieldsCleared, NothingForgotten, BrowserIsKnown
  <2> QED BY <2>1, <2>2, <2>3, <2>4
<1> QED BY <1>1, <1>2

LEMMA Inductive == Spec => []IndInv
BY InitIndInv, StepIndInv, PTL DEF Spec

-------------------------------------------------------------------------------
\* The state of a controller keeps its types.
THEOREM TypeCorrect == Spec => []TypeOK
<1>1. IndInv => TypeOK
  BY DEF IndInv
<1> QED BY <1>1, Inductive, PTL

\* A close() that succeeds at once, wherever start() got to, and whatever failed on the way,
\* leaves nothing behind.
THEOREM ClosesClean == Spec => []CleanAfterClose
<1>1. ASSUME IndInv, outcome = "resolved", lapses = {}
      PROVE  ~alive /\ ~granted /\ taping = None /\ workspace = None
  <2> USE <1>1 DEF IndInv
  <2>1. closing = "no" /\ ~handle /\ ~native /\ ~prepared
    BY DEF FieldsCleared
  <2>2. ~alive /\ ~granted
    BY <2>1 DEF NothingForgotten, BrowserIsKnown, Before, After
  <2>3. \A r \in Recordings : rec[r] \notin InFlight \union {"active", "finalizing"}
    BY <2>1 DEF NoneGoesOn, EndIsAwaited, Retired, Race
  <2>4. taping = None
    BY <2>3 DEF TapeIsOfRecorder, InFlight, TypeOK
  <2>5. workspace = None
    BY <2>1, <2>3 DEF WorkspaceIsUsed, TypeOK
  <2> QED BY <2>2, <2>4, <2>5
<1>2. IndInv => CleanAfterClose
  BY <1>1 DEF CleanAfterClose
<1> QED BY <1>2, Inductive, PTL

\* OBS never goes on with a recording that nobody will stop.
THEOREM TapeTracked == Spec => []TapeIsTracked
<1>1. IndInv => TapeIsTracked
  BY DEF IndInv, TypeOK, TapeIsOfRecorder, RecorderIsVideo, Race, TapeIsTracked
<1> QED BY <1>1, Inductive, PTL

\* However a start of a recording ends, the page is rid of its title and marker.
THEOREM PageRestored == Spec => []PageIsRestored
<1>1. IndInv => PageIsRestored
  BY DEF IndInv, MarksInSetup, PageIsRestored
<1> QED BY <1>1, Inductive, PTL

\* The browser goes after the recorder has stopped.
THEOREM RecorderStoppedFirst == Spec => RecorderStopsFirst
<1> DEFINE Stopped == handle /\ ~handle' =>
                        taping = None \/ lapses \intersect {"race", "obs"} # {}
<1>1. ASSUME IndInv, RestoreNative
      PROVE  Stopped
  <2>1. CASE Race
    BY <2>1 DEF Race
  <2>2. CASE ~Race
    <3>1. closing = "native"
      BY <1>1 DEF RestoreNative, CloseStep
    <3>2. \A r \in Recordings : rec[r] \notin {"warming", "active", "finalizing"}
      BY <1>1, <2>2, <3>1 DEF IndInv, NoneGoesOn, EndIsAwaited, Retired, InFlight
    <3> QED BY <1>1, <3>2 DEF IndInv, TypeOK, TapeIsOfRecorder
  <2> QED BY <2>1, <2>2
<1>2. ASSUME Next, handle, ~handle'
      PROVE  RestoreNative
  BY <1>2 DEF Next, StartStep, TapeStep, StopStep, CloseSteps, starting, browser, obs,
      calls,
     close, history, Begin, PrepareCapture, StartAppium, OpenBrowser, Grant, RecordingBegun,
     StartReturns, StartStepFails, BeginRecording, OpenWorkspace, StageCapture,
         MarkViewport,
     PrepareScene, StartTape, RecordingStarts, RecordingStartFails, Saved, FinalizeFails,
     BeginStop, StopMeasured, StopMeasureFails, StopReturns, StopRejects, Close, CloseVideo,
     ResetOrigins, CloseBrowser, StopAppium, CloseLate, CloseDevice, CloseCapture,
     CloseResolves, CloseRejects, DeleteDone, DeleteFails
<1>3. IndInv /\ [Next]_vars => [Stopped]_vars
  BY <1>1, <1>2 DEF vars, browser
<1> QED BY <1>3, Inductive, PTL DEF Spec, RecorderStopsFirst

\* A recorder that OBS records for keeps the workspace it records in.
WorkspaceKept ==
  lapses = {} => \A r \in Recordings : rec[r] \in {"warming", "active",
      "finalizing"} => Connected(r)

LEMMA WorkspaceStep ==
  ASSUME IndInv, WorkspaceKept, Next
  PROVE  WorkspaceKept'
<1>0. TypeStart /\ TypeRecording /\ TypeClose
  BY TypeParts DEF IndInv
<1> USE <1>0, ControllerAssumption DEF ControllerAssumption, WorkspaceKept, Connected,
    TypeRecording,
    starting, browser, obs, calls, close, history
<1>1. CASE PrepareCapture
  BY <1>1 DEF PrepareCapture, IndInv, StartingAlone
<1>2. CASE StartStepFails \/ Close
  BY <1>2 DEF StartStepFails, Close, EnterClose
<1>3. CASE CloseVideo
  BY <1>3 DEF CloseVideo
<1>4. CASE CloseCapture
  BY <1>4 DEF CloseCapture, CloseStep, IndInv, NoneGoesOn, EndIsAwaited, Retired, Race,
      InFlight
<1>5. CASE CloseResolves \/ CloseRejects
  BY <1>5 DEF CloseResolves, CloseRejects, AfterClose
<1>6. CASE UNCHANGED <<kind, workspace, rec, lapses>>
  BY <1>6
<1>7. ASSUME NEW r \in Recordings, OpenWorkspace(r)
      PROVE  WorkspaceKept'
  BY <1>7 DEF OpenWorkspace
<1>8. ASSUME NEW r \in Recordings, StartTape(r)
      PROVE  WorkspaceKept'
  BY <1>8 DEF StartTape
<1>9. ASSUME NEW r \in Recordings, RecordingStarts(r)
      PROVE  WorkspaceKept'
  BY <1>9 DEF RecordingStarts
<1>10. ASSUME NEW r \in Recordings, RecordingStartFails(r)
      PROVE  WorkspaceKept'
  BY <1>10 DEF RecordingStartFails, LeaveWorkspace, InFlight
<1>11. ASSUME NEW r \in Recordings, Saved(r)
      PROVE  WorkspaceKept'
  BY <1>11 DEF Saved, LeaveWorkspace
<1>12. ASSUME NEW r \in Recordings, FinalizeFails(r)
      PROVE  WorkspaceKept'
  BY <1>12 DEF FinalizeFails, LeaveWorkspace
<1>13. ASSUME NEW r \in Recordings,
             BeginRecording(r) \/ StageCapture(r) \/ MarkViewport(r) \/ PrepareScene(r)
      PROVE  WorkspaceKept'
  BY <1>13 DEF BeginRecording, StageCapture, MarkViewport, PrepareScene
<1>14. ASSUME NEW c \in Stoppers, StopMeasured(c) \/ StopReturns(c)
      PROVE  WorkspaceKept'
  BY <1>14 DEF StopMeasured, StopReturns
<1> QED BY <1>1, <1>2, <1>3, <1>4, <1>5, <1>6, <1>7, <1>8, <1>9, <1>10, <1>11, <1>12,
    <1>13, <1>14
     DEF Next, StartStep, TapeStep, StopStep, CloseSteps, Begin, StartAppium, OpenBrowser,
         Grant,
         RecordingBegun, StartReturns, BeginStop, StopMeasureFails, StopRejects,
             ResetOrigins,
         RestoreNative, CloseBrowser, StopAppium, CloseLate, CloseDevice, DeleteDone,
             DeleteFails

\* OBS records under its lock only (obs-workspace.ts:41), which no other session or process can
\* have at the time, whichever start, stop and close overlap.
THEOREM TapeExclusive == Spec => []TapeIsExclusive
<1>1. Init => WorkspaceKept
  BY DEF Init, WorkspaceKept
<1>2. IndInv /\ WorkspaceKept /\ [Next]_vars => WorkspaceKept'
  <2>1. CASE UNCHANGED vars
    BY <2>1 DEF WorkspaceKept, Connected, vars, starting, obs, calls, history
  <2> QED BY <2>1, WorkspaceStep
<1>3. IndInv /\ WorkspaceKept => TapeIsExclusive
  BY TypeParts DEF IndInv, TypeRecording, WorkspaceKept, TapeIsOfRecorder, TapeIsExclusive
<1> QED BY Inductive, <1>1, <1>2, <1>3, PTL DEF Spec
===============================================================================
