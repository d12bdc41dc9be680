------------------------------ MODULE PageCommands ------------------------------
(***************************************************************************)
(* What the commands of a session do to its browser: the client's methods  *)
(* (src/src/transports/testbench-client.ts), their routes (api-server.ts), *)
(* InteractiveController (src/src/automation/interactive-controller.ts),   *)
(* BrowserElement and BrowserHandle (browser-session.ts), the waits        *)
(* (operation-wait.ts, abortable-operation.ts) and the events of the       *)
(* browser (browser-diagnostics.ts).                                       *)
(*                                                                         *)
(* Nothing puts the commands of a session in a line: the requests of a     *)
(* client interleave at every request to the driver.  An action is what    *)
(* happens between two of them.  The page renders itself anew whenever it  *)
(* likes, which makes every element found before stale.                    *)
(***************************************************************************)
EXTENDS Naturals, Sequences

CONSTANTS
  Calls,       \* requests of the session's client
  Windows,
  None,
  Mixes,       \* which kinds of commands run side by side
  EventLimit,  \* DIAGNOSTIC_EVENT_LIMIT
  MaxRenders, MaxEvents, MaxFaults  \* bounds

ASSUME PageAssumption == /\ None \notin Windows /\ EventLimit \in Nat \ {0}
                         /\ MaxRenders \in Nat /\ MaxEvents \in Nat /\ MaxFaults \in Nat

VARIABLES
  mix,      \* the kinds of this behaviour
  call,     \* each request: what it does, where its handler is suspended, what it was told
  session,  \* SessionManager still has the session
  browser,  \* the driver still has it
  page,     \* how often the page has rendered itself
  present,  \* the selectors match elements that are displayed
  open, current, size,  \* the browser's windows, the one commands go to, and their sizes
  wanted,   \* the sizes their user has set
  log,      \* the events the driver has, not yet collected
  buffer,   \* BrowserDiagnostics.diagnosticEvents
  calm,     \* history: no capture was disturbed so far
  seen, cleared,  \* history: the last event pushed, and the last one before clear()
  single,   \* history: no two collections overlapped so far, and none failed
  events, faults

window == <<open, current, size, wanted, calm>>
diagnosis == <<log, buffer, seen, cleared, single>>
host == <<session, browser, page, present>>
vars == <<mix, call, window, diagnosis, host, events, faults>>

OnElement == {"click", "type", "fill", "element", "picture", "drag"}
OnWindow  == {"resize", "switchWindow", "newWindow", "closeWindow"}
Kinds == OnElement \union OnWindow \union
         {"wait", "download", "navigate", "command", "condition", "tools", "fullPage",
          "diagnostics", "clear"}
Sizes == {"small", "large", "full"}
Pcs   == {"idle", "issued", "polling", "pausing", "finding", "aiming", "found", "commanding",
          "loading", "inspecting", "measuring", "measured", "enlarged", "restoring",
          "draining", "pushing"}
Answers == {"none", "ok", "stale", "vanished", "notFound", "failed", "timeout", "aborted", "lost"}

TypeOK ==
  /\ mix \in Mixes
  /\ call \in [Calls -> [kind : Kinds, pc : Pcs, answer : Answers,
                         left : BOOLEAN, late : BOOLEAN,  \* its client has gone; its timeout has passed
                         round : {1, 2}, attempt : {1, 2}, first : 0..MaxRenders,
                         from : 0..MaxRenders, to : 0..MaxRenders,
                         saved : Sizes, fine : BOOLEAN, batch : Seq(1..MaxEvents),
                         acts : 0..2, renders : 0..MaxRenders]]
  /\ session \in BOOLEAN /\ browser \in BOOLEAN
  /\ page \in 0..MaxRenders /\ present \in BOOLEAN
  /\ open \subseteq Windows /\ current \in open \union {None}
  /\ size \in [Windows -> Sizes] /\ wanted \in [Windows -> Sizes \ {"full"}]
  /\ log \in Seq(1..MaxEvents) /\ buffer \in Seq(1..MaxEvents) /\ Len(buffer) <= EventLimit
  /\ seen \in 0..MaxEvents /\ cleared \in 0..MaxEvents
  /\ calm \in BOOLEAN /\ single \in BOOLEAN
  /\ events \in 0..MaxEvents /\ faults \in 0..MaxFaults

Idle(kind) ==
  [kind |-> kind, pc |-> "idle", answer |-> "none", left |-> FALSE, late |-> FALSE,
   round |-> 1, attempt |-> 1, first |-> 0, from |-> 0, to |-> 0,
   saved |-> "small", fine |-> TRUE, batch |-> <<>>, acts |-> 0, renders |-> 0]

Init ==
  /\ mix \in Mixes
  /\ call = [k \in Calls |-> Idle("command")]
  /\ session = TRUE /\ browser = TRUE
  /\ page = 0 /\ present \in BOOLEAN
  /\ \E w \in Windows : open = {w} /\ current = w
  /\ size = [w \in Windows |-> "small"] /\ wanted = size
  /\ log = <<>> /\ buffer = <<>> /\ seen = 0 /\ cleared = 0
  /\ calm = TRUE /\ single = TRUE
  /\ events = 0 /\ faults = 0

\* The driver answers a command to the current window.
Serves == browser /\ current \in open

\* The handler goes on.
Goes(k, pc) == call' = [call EXCEPT ![k].pc = pc]

\* The handler answers.
Ends(k, told) ==
  call' = [call EXCEPT ![k] = [Idle(@.kind) EXCEPT !.answer = told, !.acts = call[k].acts,
                               !.renders = page - call[k].first]]

-------------------------------------------------------------------------------
(* The requests                                                            *)

Issue(k, kind) ==
  /\ call[k].pc = "idle" /\ kind \in mix
  /\ call' = [call EXCEPT ![k] = [Idle(kind) EXCEPT !.pc = "issued"]]
  /\ UNCHANGED <<mix, window, diagnosis, host, events, faults>>

\* click(), type(), fill(), the other actions on an element, drag().
ActOn(k) == \E kind \in OnElement \ {"picture"} : Issue(k, kind)
\* captureStructuredScreenshot() of an element: its rectangle, then its picture.
Picture(k) == Issue(k, "picture")
\* navigate(), with a timeout and a signal.
Navigate(k) == Issue(k, "navigate")
\* waitForElement() and the other waits.
WaitFor(k) == Issue(k, "wait")
\* waitForDownload().
WaitForFile(k) == Issue(k, "download")
\* back() to alert(), inspect(), cookies and storage, evaluate().
Steer(k) == Issue(k, "command")
\* Conditions of the network, the position and the permissions; blocked addresses; clipboard.
SetCondition(k) == Issue(k, "condition")
\* screenshot(fullPage), captureScreenshot().
Capture(k) == Issue(k, "fullPage")
\* setViewport(); newWindow(), switchWindow(), closeWindow().
SetWindow(k) == \E kind \in OnWindow : Issue(k, kind)
\* diagnostics(), diagnosticBundle(), clearDiagnostics().
Diagnose(k) == \E kind \in {"diagnostics", "clear"} : Issue(k, kind)
\* devtools(): where the browser's own tools are.
FindTools(k) == Issue(k, "tools")

\* Where the methods of InteractiveController begin.
Start(kind) ==
  CASE kind \in {"wait", "download", "click", "type"} -> "polling"
    [] kind \in OnElement \ {"click", "type"} -> "finding"
    [] kind = "fullPage" -> "measuring"
    [] kind = "navigate" -> "loading"
    [] kind = "diagnostics" -> "draining"
    [] OTHER -> "commanding"

\* The route asks SessionManager for the controller.
Routed(k) ==
  /\ call[k].pc = "issued" /\ call[k].kind # "clear"
  /\ IF session THEN Goes(k, Start(call[k].kind)) ELSE Ends(k, "failed")
  /\ UNCHANGED <<mix, window, diagnosis, host, events, faults>>

\* The client hangs up, or aborts.
Leave(k) ==
  /\ call[k].pc \in {"polling", "pausing", "loading"} /\ ~call[k].left
  /\ call' = [call EXCEPT ![k].left = TRUE]
  /\ UNCHANGED <<mix, window, diagnosis, host, events, faults>>

\* timeoutMs of a wait or a navigation.
Expire(k) ==
  /\ call[k].pc \in {"polling", "pausing", "loading"} /\ ~call[k].late
  /\ call' = [call EXCEPT ![k].late = TRUE]
  /\ UNCHANGED <<mix, window, diagnosis, host, events, faults>>

-------------------------------------------------------------------------------
(* Waits, navigations and single commands                                  *)

\* What a wait waits for; a download is a file of the testbench.
Holds(k) == present /\ (call[k].kind = "download" \/ Serves)

\* OperationWait.until(): aborted, true, or too late; an error counts as not true, so that a
\* wait does not notice that the browser is gone.  The wait before a click has no signal.
Poll(k) ==
  /\ call[k].pc = "polling"
  /\ IF call[k].kind = "wait" /\ call[k].left THEN Ends(k, "aborted")
     ELSE IF Holds(k)
       THEN IF call[k].kind \in {"wait", "download"} THEN Ends(k, "ok") ELSE Goes(k, "finding")
       ELSE IF call[k].late THEN Ends(k, "timeout") ELSE Goes(k, "pausing")
  /\ UNCHANGED <<mix, window, diagnosis, host, events, faults>>

\* The delay between two looks.
Pause(k) ==
  /\ call[k].pc = "pausing"
  /\ Goes(k, "polling")
  /\ UNCHANGED <<mix, window, diagnosis, host, events, faults>>

\* BrowserHandle.url(): the page is another one.
Load(k) ==
  /\ call[k].pc = "loading" /\ Serves /\ page < MaxRenders
  /\ Goes(k, "inspecting")
  /\ page' = page + 1 /\ present' \in BOOLEAN
  /\ UNCHANGED <<mix, session, browser, window, diagnosis, events, faults>>

\* AbortableOperation.run(): nobody waits for it any more; the browser may go on loading.
GiveUp(k) ==
  /\ call[k].pc = "loading"
  /\ \/ call[k].late /\ Ends(k, "timeout")
     \/ call[k].left /\ Ends(k, "aborted")
  /\ UNCHANGED <<mix, window, diagnosis, host, events, faults>>

\* inspect(): a navigation is answered with what the page looks like.
Inspect(k) ==
  /\ call[k].pc = "inspecting" /\ Serves
  /\ Ends(k, "ok")
  /\ UNCHANGED <<mix, window, diagnosis, host, events, faults>>

\* A command of WebDriver.
Command(k) ==
  /\ call[k].pc = "commanding" /\ call[k].kind = "command" /\ Serves
  /\ Ends(k, "ok")
  /\ UNCHANGED <<mix, window, diagnosis, host, events, faults>>

\* A command of DevTools or of the page, which not every target takes.
Devtools(k) ==
  /\ call[k].pc = "commanding" /\ call[k].kind = "condition" /\ Serves
  /\ \E told \in {"ok", "failed"} : Ends(k, told)
  /\ UNCHANGED <<mix, window, diagnosis, host, events, faults>>

\* devToolsFrontendUrl() asks the browser, not the driver, and knows no error.
ToolsFound(k) ==
  /\ call[k].pc = "commanding" /\ call[k].kind = "tools"
  /\ Ends(k, "ok")
  /\ UNCHANGED <<mix, window, diagnosis, host, events, faults>>

-------------------------------------------------------------------------------
(* FreshElementAction                                                      *)

\* The element is looked for; the second time its absence is told as its being stale.
Find(k) ==
  /\ call[k].pc = "finding" /\ Serves
  /\ IF present
       THEN call' = [call EXCEPT ![k].pc = IF call[k].kind = "drag" THEN "aiming" ELSE "found",
                                 ![k].from = page,
                                 ![k].first = IF call[k].attempt = 1 THEN page ELSE @]
       ELSE Ends(k, IF call[k].attempt = 1 THEN "notFound" ELSE "vanished")
  /\ UNCHANGED <<mix, window, diagnosis, host, events, faults>>

\* drag(): the inner FreshElementAction looks for the target.
Aim(k) ==
  /\ call[k].pc = "aiming" /\ Serves
  /\ IF present
       THEN call' = [call EXCEPT ![k].pc = "found", ![k].to = page]
       ELSE Ends(k, IF call[k].attempt = 1 THEN "notFound" ELSE "vanished")
  /\ UNCHANGED <<mix, window, diagnosis, host, events, faults>>

Fresh(k) == call[k].from = page /\ (call[k].kind = "drag" => call[k].to = page)

\* How many times an element is used: fill() and type() clear the value, then set it.
Rounds(kind) == IF kind \in {"type", "fill", "picture"} THEN 2 ELSE 1

\* The driver does to the page what the round asks for.
Done(k) ==
  IF call[k].round < Rounds(call[k].kind)
    THEN call' = [call EXCEPT ![k].acts = @ + 1, ![k].round = @ + 1, ![k].attempt = 1,
                              ![k].pc = "finding"]
    ELSE call' = [call EXCEPT ![k] = [Idle(@.kind) EXCEPT !.answer = "ok", !.acts = call[k].acts + 1]]

\* A stale element is looked for again, once.  In drag() it is the target that is looked for
\* again, also when it is the source that is stale: the error the inner FreshElementAction
\* makes of the second failure is not one the outer takes for a stale element.
Execute(k) ==
  /\ call[k].pc = "found" /\ Serves
  /\ CASE Fresh(k) -> Done(k)
       [] ~Fresh(k) /\ call[k].attempt = 1 ->
            call' = [call EXCEPT ![k].attempt = 2,
                                 ![k].pc = IF call[k].kind = "drag" THEN "aiming" ELSE "finding"]
       [] OTHER -> Ends(k, "stale")
  /\ UNCHANGED <<mix, window, diagnosis, host, events, faults>>

-------------------------------------------------------------------------------
(* Windows and full-page screenshots                                       *)

Capturing(k) == call[k].pc \in {"measured", "enlarged", "restoring"}
Disturbed(k) == \E j \in Calls \ {k} : Capturing(j)

\* setWindowRect(), switchTo().window(), newWindow() and close() of the driver.
UseWindow(k) ==
  /\ call[k].pc = "commanding"
  /\ \/ /\ call[k].kind = "resize" /\ Serves
        /\ \E s \in Sizes \ {"full"} : /\ size' = [size EXCEPT ![current] = s]
                                       /\ wanted' = [wanted EXCEPT ![current] = s]
        /\ UNCHANGED <<open, current, browser>>
     \/ /\ call[k].kind = "switchWindow" /\ browser
        /\ current' \in open
        /\ UNCHANGED <<open, size, wanted, browser>>
     \/ /\ call[k].kind = "newWindow" /\ Serves
        /\ \E w \in Windows \ open : open' = open \union {w} /\ current' = w
        /\ UNCHANGED <<size, wanted, browser>>
     \/ /\ call[k].kind = "closeWindow" /\ Serves
        /\ open' = open \ {current} /\ current' = None
        /\ size' = [size EXCEPT ![current] = "small"]
        /\ wanted' = [wanted EXCEPT ![current] = "small"]
        /\ browser' = (open' # {})
  /\ calm' = (calm /\ ~Disturbed(k))
  /\ Ends(k, "ok")
  /\ UNCHANGED <<mix, session, page, present, diagnosis, events, faults>>

\* takeFullPageScreenshot() remembers the size of the window.
Measure(k) ==
  /\ call[k].pc = "measuring" /\ Serves
  /\ call' = [call EXCEPT ![k].pc = "measured", ![k].saved = size[current]]
  /\ calm' = (calm /\ ~Disturbed(k))
  /\ UNCHANGED <<mix, open, current, size, wanted, diagnosis, host, events, faults>>

\* The window is made as large as the page.
Enlarge(k) ==
  /\ call[k].pc = "measured" /\ Serves
  /\ size' = [size EXCEPT ![current] = "full"]
  /\ Goes(k, "enlarged")
  /\ UNCHANGED <<mix, open, current, wanted, calm, diagnosis, host, events, faults>>

Shoot(k) ==
  /\ call[k].pc = "enlarged" /\ Serves
  /\ Goes(k, "restoring")
  /\ UNCHANGED <<mix, window, diagnosis, host, events, faults>>

\* finally: the current window is given the size that was measured.
RestoreSize(k) ==
  /\ call[k].pc = "restoring" /\ Serves
  /\ size' = [size EXCEPT ![current] = call[k].saved]
  /\ Ends(k, IF call[k].fine THEN "ok" ELSE "failed")
  /\ UNCHANGED <<mix, open, current, wanted, calm, diagnosis, host, events, faults>>

-------------------------------------------------------------------------------
(* BrowserDiagnostics                                                      *)

\* collect(): the driver hands out its events and forgets them.
Drain(k) ==
  /\ call[k].pc = "draining" /\ Serves
  /\ call' = [call EXCEPT ![k].pc = "pushing", ![k].batch = log]
  /\ log' = <<>>
  /\ single' = (single /\ \A j \in Calls \ {k} : call[j].pc # "pushing")
  /\ UNCHANGED <<mix, buffer, seen, cleared, window, host, events, faults>>

\* Mutant: a full buffer takes no more.
KeepOldest(kept) == IF Len(kept) > EventLimit THEN SubSeq(kept, 1, EventLimit) ELSE kept

\* Mutant: the buffer is never cut.
KeepAll(kept) == kept

\* pushDiagnostic(): the oldest events make room.
KeepNewest(kept) ==
  IF Len(kept) > EventLimit THEN SubSeq(kept, Len(kept) - EventLimit + 1, Len(kept)) ELSE kept

\* The next event is pushed; the body of a response is asked for in between.
Push(k) ==
  /\ call[k].pc = "pushing" /\ call[k].batch # <<>>
  /\ buffer' = KeepNewest(Append(buffer, Head(call[k].batch)))
  /\ seen' = Head(call[k].batch)
  /\ call' = [call EXCEPT ![k].batch = Tail(@)]
  /\ UNCHANGED <<mix, log, cleared, single, window, host, events, faults>>

\* read() answers with what is in the buffer.
Collected(k) ==
  /\ call[k].pc = "pushing" /\ call[k].batch = <<>>
  /\ Ends(k, "ok")
  /\ UNCHANGED <<mix, window, diagnosis, host, events, faults>>

\* clear(), at once and without a request to the driver.
Clear(k) ==
  /\ call[k].pc = "issued" /\ call[k].kind = "clear"
  /\ IF session THEN Ends(k, "ok") /\ buffer' = <<>> /\ cleared' = seen
                ELSE Ends(k, "failed") /\ UNCHANGED <<buffer, cleared>>
  /\ UNCHANGED <<mix, log, seen, single, window, host, events, faults>>

-------------------------------------------------------------------------------
(* Errors of the driver, and the end of the session                        *)

\* Where the handler waits for the driver.
AtDriver(k) == call[k].pc \notin {"idle", "issued", "polling", "pausing"} /\ call[k].kind # "tools"

\* Mutant: a capture that failed tells it at once.
ThrownAtOnce(k, acted) ==
  /\ Ends(k, "failed")
  /\ UNCHANGED <<mix, session, browser, page, present, window, diagnosis, events>>

\* Mutant: every error of the driver is taken for a stale element.
ThrownOnce(k, acted) ==
  /\ call[k].pc = "found" /\ call[k].attempt = 1
  /\ call' = [call EXCEPT ![k].attempt = 2, ![k].pc = "finding",
                          ![k].acts = @ + IF acted THEN 1 ELSE 0]
  /\ UNCHANGED <<mix, session, browser, page, present, window, diagnosis, events>>

\* What the driver throws is told; it had done to the page what it was asked for, or not.
\* A capture gives the window its size back first; a collection keeps what it has; the second
\* look for an element takes any error for its absence.
\* SessionManager.run() closes the session when what was thrown says that the browser is gone.
Thrown(k, acted) ==
  /\ CASE call[k].pc \in {"measured", "enlarged"} ->
            call' = [call EXCEPT ![k].pc = "restoring", ![k].fine = FALSE] /\ UNCHANGED session
       [] call[k].pc \in {"draining", "pushing"} -> Ends(k, "ok") /\ UNCHANGED session
       [] call[k].pc \in {"finding", "aiming"} /\ call[k].attempt = 2 ->
            Ends(k, "vanished") /\ UNCHANGED session
       [] OTHER ->
            /\ call' = [call EXCEPT ![k] = [Idle(@.kind) EXCEPT
                 !.answer = IF browser THEN "failed" ELSE "lost",
                 !.acts = call[k].acts + IF acted /\ call[k].pc = "found" THEN 1 ELSE 0]]
            /\ session' = (session /\ browser)
  /\ calm' = (calm /\ ~(browser /\ call[k].pc = "restoring"))
  /\ single' = (single /\ call[k].pc # "pushing")
  /\ UNCHANGED <<mix, open, current, size, wanted, log, buffer, seen, cleared,
                 browser, page, present, events>>

\* The browser, or the window commands go to, is gone.
Unserved(k) ==
  /\ AtDriver(k) /\ ~Serves
  /\ (call[k].kind = "switchWindow" => ~browser)
  /\ Thrown(k, FALSE)
  /\ UNCHANGED faults

\* The driver fails a command for a reason of its own.
DriverFails(k) ==
  /\ AtDriver(k) /\ Serves /\ faults < MaxFaults
  /\ faults' = faults + 1
  /\ \E acted \in BOOLEAN : (acted => Fresh(k)) /\ Thrown(k, acted)

\* DELETE of the session: it leaves SessionManager, then the driver.
CloseSession ==
  /\ session
  /\ session' = FALSE
  /\ UNCHANGED <<mix, call, browser, page, present, window, diagnosis, events, faults>>

Quit ==
  /\ ~session /\ browser
  /\ browser' = FALSE
  /\ UNCHANGED <<mix, call, session, page, present, window, diagnosis, events, faults>>

-------------------------------------------------------------------------------
(* The browser                                                             *)

Lose ==
  /\ browser /\ faults < MaxFaults
  /\ browser' = FALSE /\ faults' = faults + 1
  /\ UNCHANGED <<mix, call, session, page, present, window, diagnosis, events>>

Render ==
  /\ browser /\ page < MaxRenders /\ mix \intersect (OnElement \union {"wait", "navigate"}) # {}
  /\ page' = page + 1 /\ present' \in BOOLEAN
  /\ UNCHANGED <<mix, call, session, browser, window, diagnosis, events, faults>>

LogEvent ==
  /\ browser /\ events < MaxEvents /\ "diagnostics" \in mix
  /\ events' = events + 1 /\ log' = Append(log, events + 1)
  /\ UNCHANGED <<mix, call, buffer, seen, cleared, single, window, host, faults>>

Request(k) ==
  \/ ActOn(k) \/ Picture(k) \/ Navigate(k) \/ WaitFor(k) \/ WaitForFile(k) \/ Steer(k)
  \/ SetCondition(k) \/ Capture(k) \/ SetWindow(k) \/ Diagnose(k) \/ FindTools(k)

Handler(k) ==
  \/ Routed(k) \/ Poll(k) \/ Pause(k) \/ Load(k) \/ GiveUp(k) \/ Inspect(k)
  \/ Command(k) \/ Devtools(k) \/ ToolsFound(k)
  \/ Find(k) \/ Aim(k) \/ Execute(k)
  \/ UseWindow(k) \/ Measure(k) \/ Enlarge(k) \/ Shoot(k) \/ RestoreSize(k)
  \/ Drain(k) \/ Push(k) \/ Collected(k) \/ Clear(k)
  \/ Unserved(k) \/ DriverFails(k)

Next ==
  \/ \E k \in Calls : Request(k) \/ Handler(k) \/ Leave(k) \/ Expire(k)
  \/ CloseSession \/ Quit \/ Lose \/ Render \/ LogEvent

Spec == Init /\ [][Next]_vars

-------------------------------------------------------------------------------
(* Properties                                                              *)

\* Retrying an action on an element never does it twice: each of its rounds is done at most
\* once, all of them when the client is told so, and not all when it is told that the element
\* was stale or missing.
ActsAtMostOnce ==
  \A k \in Calls :
    call[k].kind \in OnElement =>
      /\ call[k].acts <= Rounds(call[k].kind)
      /\ call[k].answer = "ok" => call[k].acts = Rounds(call[k].kind)
      /\ call[k].answer \in {"stale", "vanished", "notFound"} => call[k].acts < Rounds(call[k].kind)

\* Told that the element was stale, the client knows that the page has rendered itself twice
\* since it was first found: one render during an action is always survived.  (Not so for
\* drag(): DragSurvivesOneRender.)
OneRenderIsSurvived ==
  \A k \in Calls : call[k].kind # "drag" /\ call[k].answer = "stale" => call[k].renders >= 2

\* Both together: the second attempt at an action on an element neither repeats it nor gives
\* up a render too early.
RetriesAreSafe == ActsAtMostOnce /\ OneRenderIsSurvived

\* "Selector actions resolve elements immediately before use and retry once for stale-element
\* driver failures" (src/CHANGELOG.md:126): the same of drag().
DragSurvivesOneRender ==
  \A k \in Calls : call[k].kind = "drag" /\ call[k].answer = "stale" => call[k].renders >= 2

\* A full-page screenshot leaves every window as large as its user made it, whichever request
\* to the driver fails, as long as nothing else touches the windows meanwhile.
WindowsAreRestored ==
  calm /\ browser /\ (\A k \in Calls : ~Capturing(k)) => \A w \in open : size[w] = wanted[w]

\* The buffer holds the newest events, in their order and without a gap, up to its limit and
\* back to the last clear(), as long as no two collections overlapped.
BufferIsNewest ==
  single =>
    LET oldest == IF seen > cleared + EventLimit THEN seen - EventLimit ELSE cleared
    IN  buffer = [i \in 1..seen - oldest |-> oldest + i]
================================================================================
