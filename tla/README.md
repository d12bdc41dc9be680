# Specifications of browser-testbench

browser-testbench drives real browsers on desktops, Android devices and iPhones for
several clients at once: over HTTP, over MCP, and from other computers. A device is
used by one session at a time, a session ends when its client goes away, what a session
changed on a device is undone before the next one gets it, and what it recorded or was
sent goes with it. That is the part of the program that is hard to get right, and the
part these TLA+ modules are about.

Paths are relative to the repository; `tlm`, `sm`, `ic` stand for
`src/automation/target-lock-manager.ts`, `session-manager.ts` and
`interactive-controller.ts` there.

## 1. Inventory

### The parts, their state and what they must get right

**Target locks in one process** (`TargetLockManager`, tlm:196-305). State: a map from
target to the array of waiters; each waiter's timer and promise; the `released` flag of
each release closure. Operations: `acquire`, the closure it returns, `isLocked`,
`cancelOwner`. Called by `SessionManager`; calls `PersistentTargetLock`. Hard: the
closure awaits file operations between reading the array and changing it; the opener's
failure rejects everybody behind it; timers race with handoffs. Must: one holder, first
come first served, every call answered, no target busy without a holder.

**Target locks between processes** (`PersistentTargetLock`, tlm:39-194). State: a
directory per target with an `owner.json`. Operations: `acquire` (mkdir, exclusive
write, poll), `handoff`, `release`, `removeIfStale`, `cleanup` at startup. Hard: no
operation on a directory is atomic; processes die. Must: one user of a device on the
computer; what dead processes leave behind does not keep a device busy.

**Sessions** (`SessionManager`). State: the map of live sessions, the leases, the
outcomes of recent closes (at most 100), the ids that expired. Operations: `start`,
`run`, `close`, `closeOwned`, `closeAll`, `touch`, the lease timer, the timer that
retries a failed cleanup. Called by the HTTP API, MCP and the remote API; calls the
lock manager and a controller per session. Hard: clients hang up, disconnect and let
leases run out in the middle of a start; a cleanup fails half-way. Must: a device is
used under its lock only, the lock is released in the end, the client learns the truth.

**Session controller** (`InteractiveController` with `BrowserSession`,
`SessionPermissions`, `AndroidCameraUtilities`, `IosSessionCleanup`). State: target,
browser handle, pending browser close, permissions to restore, Appium server,
prepared capture, recording. Operations: `start` (with a second attempt for Safari),
page interactions, `startRecording`, `stopRecording`, `close`. Hard: `close` is eight
awaits each of which may fail, hang or follow a half-done `start`; it is called again
until it resolves. Must: a `close` that resolves leaves nothing on the device.

**Interaction with pages** (`browser-session.ts`, `browser-diagnostics.ts`,
`operation-wait.ts`, `abortable-operation.ts`, `mobile-gestures.ts`). State: the elements
found, the size and order of windows, the buffer of diagnostic events. Hard: the requests
of one client are not put in a line; the page renders itself anew between finding an
element and acting on it; a session closes, a client hangs up, a timeout passes and the
browser is lost at any of these awaits. Must: an action is never done twice, windows get
their size back, the buffer holds the newest events.

**Device access** (`ios-physical-safari-navigator.ts`, `android-usb-network.ts`,
`geometry.ts`, `src/setup/` services). State: the context of Appium, which all requests of
a session share, the forwarded ports. Must: the session gets back to its web context, a
navigation that is reported has happened, forwardings end with the session.

**Recorder and OBS** (`VideoRecorder`, `ObsRecorder`, `ObsWorkspace`, `ObsConnection`,
`ObsCapture`, `obs-viewport.ts`). State: the lock of the one OBS, its connection, scenes
and outputs, the title and the marker on the page, the memoised result of a stop. Must:
one recording at a time, none goes on unobserved, the page is rid of title and marker.

**Recording artifacts** (`artifacts.ts`), **session assets**
(`session-asset-manager.ts`), **remote artifact transfer**
(`remote-artifact-transfer.ts`): directories and registries per session, written while
the session may be cleaned up. Must: no file outlives its session or goes before it,
quotas hold, a client gets the recording it stopped.

**HTTP API** (`api-server.ts`), **request abort** (`request-abort.ts`), **client
library** (`testbench-client.ts`): routes and timers that drive the session manager;
heartbeats; an idempotent `close`.

**MCP server** (`mcp-server.ts`, `mcp-session-coordinator.ts`): one active session per
server, tool calls serialised by a chain of promises. Must: the active session is the
one the tools act on, and no session is orphaned.

**Remote connection** (`remote-connection-service.ts`): pairing, connecting,
heartbeat, event stream, role changes and removal of a credential, each with awaits in
between. Must: what the gateway believes to be connected to is what the host accepts; a
connection is watched; the host is never changed without a disconnect.

**Remote pairing, authentication, clients** (`remote-pairing-service.ts`,
`remote-request-authentication.ts`, `remote-client-store.ts`, `remote-api-controller.ts`,
`json-file-store.ts`). Must: a code is used once, a revoked client is out.

**Target catalog and monitors** (`target-catalog-service.ts`,
`android-device-monitor.ts` and its iOS twin, the workbench page): what is polled, cached,
sent as events and shown. Must: an id stands for one device, and views catch up.

**Setup, diagnosis, infrastructure, command line, presentation, translations**: scripts
over external tools, and formatting.

### How they interact

    client -> HTTP API / MCP / remote API -> SessionManager -> TargetLockManager -> files
       |                |                           |
       |                +-> assets, artifacts       +-> InteractiveController -> Appium, adb, WebDriver
       +-> gateway -> host (pairing, roles)                     |
                                                                +-> VideoRecorder -> OBS

The process is single threaded: between two awaits nothing interleaves, at an await
everything may. Timers (lock timeout, lease, retry, cleanup timeout, heartbeat, polling)
are independent actors. Between processes only the lock directory and OBS are shared.

## 2. Modules

| module | what it specifies | code |
| --- | --- | --- |
| `ExclusiveLock` | what a lock over one target promises: one owner; a request asks once and is answered once | the contract of `acquire` and its closure |
| `TargetLock` | the lock manager of one process, for one serial target | tlm:196-305 |
| `PersistentLock` | the lock directory of one target and the processes that share it; when they are an `ExclusiveLock` | tlm:39-194 |
| `Sessions` | the life of every session, over `ExclusiveLock` for the serial target | session-manager.ts, the session routes of api-server.ts |
| `Controller` | one controller: start, recording calls, close | ic, browser-session.ts, session-permissions.ts, `recording/` |
| `PageCommands` | the commands of one session on its page, side by side | testbench-client.ts, api-server.ts, ic, browser-session.ts, browser-diagnostics.ts, operation-wait.ts, page scripts as far as they decide |
| `DeviceCommands` | the commands of one session on its phone: Safari through its address bar or a deep link, pictures, gestures, forwarded ports | ios-physical-safari-navigator.ts, geometry.ts, android-usb-network.ts, mobile-gestures.ts |
| `RecordingTransfer` | recordings of one session from `start()` to the file at the client | testbench-client.ts, artifacts.ts, the recording routes |
| `SessionFiles` | assets and transfer directories beside the sessions they belong to | session-asset-manager.ts, remote-artifact-transfer.ts, api-server.ts |
| `McpServer` | the tools of the MCP server, its coordinator, and leases | mcp-server.ts, mcp-session-coordinator.ts, testbench-client.ts |
| `RemoteConnection` | a gateway and the hosts it is paired with | remote-connection-service.ts, remote-pairing-service.ts, remote-client-store.ts, remote-api-controller.ts |
| `TargetCatalog` | which devices there are, by which ids, and what is shown of them | target-catalog-service.ts, android-device-monitor.ts, android-device-service.ts, workbench-store.ts, event-stream.ts |
| `MC*` | instances for TLC | |
| `*Proofs` | theorems about the module of that name; `SessionsProofs` also about `McpServer`, `TargetCatalog` and `RecordingTransfer` | |

How they compose:

- `TargetLock` refines `ExclusiveLock` (`ImplementsLock`, checked and proved), and
  `Sessions` instantiates the same `ExclusiveLock` with the sessions of the serial target
  as requests: what `Sessions` relies on is what `TargetLock` is shown to do, and its steps are
  proved to be steps of that lock (`SessionsUseLock`).
- `PersistentLock` is the same lock, with the claims of all processes as requests, between
  crashes and until its first lapse (`LockBetweenCrashes`, checked and proved); where neither
  crashes nor handoffs occur it refines `ExclusiveLock` outright (`ImplementsWithoutCrash`).
- `TargetLock` sees the lock directory through a variable `disk`, whose changes are the
  results of the calls whose steps are in `PersistentLock`; `Sessions` sees a controller
  through the outcome of the `start()` and `close()` that `Controller` describes;
  `PageCommands`, `DeviceCommands`, `SessionFiles`, `RecordingTransfer` and `McpServer` see
  a session through the stages it has in `Sessions`, and `TargetCatalog` through the name of
  its lock. These abstractions are by construction, not by a checked refinement.

### State and actions against the code

An action is what happens between two awaits of a handler, in every module. `pc`, `at`,
`stage`, `call[..].pc` say where a handler is suspended. Variables that are marked
"history" have no counterpart in the code: they record an event that a property excuses,
or refers to, and no guard reads them.

*TargetLock.* `pc[r]` is where a call of `acquire()` is suspended, or later its release
closure. `present`/`queue` are `queues.has(id)` and the array; the array is represented
as a set with the time of arrival of each member, since all the code does is push at the
end, shift at the front and splice. `AcquireFirst`, `AcquireBusy`, `AcquireWait` are the
branches of `acquire()`; `MkdirDone`, `MkdirExists`, `RemoveStale`, `Poll`, `GiveUp`,
`OpenFails` the polling of the directory with its outcome for the waiters; `Timeout`,
`CancelOwner` the other ways out of the array; `BeginHandoff`, `HandoffDone`,
`HandoffFails`, `BeginClose`, `CloseDone`, `CloseUnread`, `CloseFails` the closure. `heir`
is the local variable `next`. One target suffices, because no operation relates two. `Ready` is
the end of `cleanup()`, which may reject, and with it every later `acquire()` (`AcquireUnready`).
`OtherProcess` and `TakeAway` are what another process does to the directory; the second, which
takes it from a holder, is what `PersistentLock` shows to be possible. A handoff that fails
(`WriteFails`) may have emptied `owner.json` (`Unnamed`). `late` and `robbed` are history: who
called `acquire()` during a final release, and whose directory or name was lost.

*PersistentLock.* `exists`, `old`, `file`, `stamp` are the directory, its age relative to the grace
period of five seconds, and `owner.json`. `pc[a]` is the awaited file operation of a claim, or of a
process's `cleanup()`. `same[a]` remembers whether the directory an actor has judged, or the file it
has open, is still in place: it is what tells a late removal, and a write into an unlinked file.
`started` distinguishes two processes with one pid; `Reuse` gives the pid of a dead process to a
program that is no Testbench (`reused`), and takes it back. `lapses` is history: it records the three
ways in which the protocol loses exclusion or the name of its owner - a late removal, a torn read, a
handoff that fails half-way (`RewriteFails`) - so that `ExclusiveUnlessLapse` states that there is no
fourth.
`Heirs` are the requests that a handoff in progress was shifted off the queue for; they wait for it
and do not ask the directory. `Age` is guarded by what the grace period is for: a live process gets
from mkdir to the written file, and from a truncation to the rewriting, in less than five seconds;
without that assumption no protocol with a grace period is exclusive. It also assumes that an actor
gets from an empty read to its `stat` within the time.

*Sessions.* "live" means in the map `sessions`. `closures`, `expired` are the collections of
those names, `result` what the promise in `closures` says. `Post` ... `Started`/`StartFails`
is the POST handler with `start()`; `Begin` covers the check of the signal at its head;
`Close`, `LeaseExpires`, `CloseOwned`, `CloseAll` the four ways to close; `Closed`,
`CloseFails`, `Released`, `ReleaseFails`, `Retry` is `closeSession()` with the catch of
`start()` and the retry timer, which all run the same three awaits. `FinalizeFails` is the one
finalization of a recording that rejects, after which every `close()` of that controller does
(`doomed`). `touch()` only restarts the timer of a lease, which may run out at any time here, and
is no action of its own.

*Controller.* `start`, `closing` are the awaits of `start()` and `close()`; `target`,
`handle`, `pending`, `origins`, `native`, `appium`, `prepared`, `video` the fields; `rec[r]`
the life of a recording, from the measuring of the window over OBS' lock, the title
("staged") and the marker ("marked") on the page to the request to record ("arming",
"warming") and its end; `stopper[c]` a call of `stopRecording()`; `marks` the recordings
whose title or marker the page still shows; `alive`, `granted`, `taping`, `workspace` what
is the case on the device and in OBS. Permissions of an origin end with the browser; a
permission of the Android browser app (`granted`) stays on the device. `kind` is desktop,
Android or iPhone; an iOS simulator differs from Android here only in that no crashed tab is
excused and its clean-up may fail as an iPhone's does, and has no kind of its own. On a
second attempt of `start()` the model chooses anew whether a capture is prepared, which
allows more than the code. `lapses` is history: an earlier `close()` that rejected, a start
of a recording that overlaps a close or a stop, OBS or the page not obeying. That the lock of OBS
is given up is taken to succeed; when the removal of its directory fails is in `TargetLock`.

*PageCommands.* `call[k]` is a request of the session's client: its kind, where its handler
is suspended, what it read, what it was told. Rendering is a counter `page`: an element
found at one value is stale at the next. `Mixes` are sets of kinds that have state in
common; two requests of a behaviour are of the same set. Requests pass `SessionManager.run()`,
which closes a session that has lost its browser; a client may hang up (`Leave`), a timeout
pass (`Expire`), the session close and the driver quit at any point. `open`, `current`, `size`
are the browser's windows, `wanted` (history) the size their user set; `log` what the driver
has collected, `buffer` the `diagnosticEvents` array.

*DeviceCommands.* `context` is Appium's context, one for all requests. A navigation is
`Navigate`, then either the deep link with its confirmation or the address field; a picture of the
screen switches to the native context and back; a port is forwarded before a
navigation to a local address and removed by `RemoveForwards` at the end of the session.
`before` (history) is what the ports were forwarded to when the session began.

*RecordingTransfer.* `rec`, `directory`, `artifacts`, `disk` are the testbench's side,
`output`, `memo`, `pending` the fields of `RemoteRecording`, `file` what is at the paths the
client named. A fault is a failing step or an answer that is lost. `last` is `lastRecording`, which
answers a stop when nothing is recorded; a stop may fail before it has asked the recorder
(`FinishMeasureFails`) or after (`FinishFails`). `ForeignDelete` is a refused DELETE.
`interrupted`, `lost`, `late`, `spoiled`, `claimed` are history.

*SessionFiles.* `asset`, `scope` are `SessionAssetManager.assets`, `tracked` is
`RemoteArtifactHost.directories`, `disk` what exists. `Post`, `Prepared`, `Started`, `BindFails`,
`StartFails` is the POST handler as far as it deals with files; `Deleted`, `Expire`,
`OwnerLeaves`, `Stop` the ends of a session, of which only the first looks at its assets.
`DeleteRefused` is the DELETE of a session that is unknown or another client's, whose files the
handler removes before it passes the refusal on. `robbed`, `leaked`, `late`, `overlapped` are
history.

*McpServer.* `chain` is `McpSessionCoordinator.operations`, `current` its session, `beating`
the `RemoteSession` objects that renew a lease. `Begin` is `closeCurrent()`, which forgets the
session and its heartbeat before it awaits the DELETE; `Closed`, `CloseFails`, `Transition`,
`Started`, `Opened`, `OpenFails` the rest of a serialised tool; `CloseById`, `SendCommand`,
`ListSessions` the tools that do not queue. `astray` (history) are sessions that the process
forgot while a request about them failed.

*RemoteConnection.* `active`, `saved`, `pending`, `heartbeat`, `events` are the gateway's
`activeCredential`, credential store, pairings, interval and event stream; `at[c]` is where a
call of the user is suspended, or a check by the heartbeat, the event stream or `probe()`
(`Checks`); `offered`, `secret`,
`role` are a host's pairing service and client store; `passed` the changes of rights that an
administrator made through the gateway and that it has no answer to (`PassOn`, `PassedOn`
with `updateActiveRole`). `Answers` is what a host says to a request: what it makes of the credential,
or a refusal for the time or the nonce of the request. `Connect` ... `Accepted`/`Refused`, `CompletePairing` ... `Activate`,
`Disconnect` ... `Left`, `Check` ... `Checked` are the four operations await by await; `SetRole`,
`Revoke`, `ProxyRefused` what a host does meanwhile. An update of a JSON file takes effect
when it is queued, since `JsonFileStore.update()` keeps that order. `overtaken` (history) are the
calls of `disconnect()` whose connection somebody else ended while they waited for its host.

*TargetCatalog.* `plugged` is the truth, `seen` the monitor's fingerprint, `cache` the
catalogue's list, `loads` the requests on their way, `page` the workbench store and its event
stream, `sessions` locks by id with the device each session uses. `MobileTargets` is
`mobileTargets()` with its numbering of phones of one readable id (`Base`): the name, and the version
where it could be asked. `Inspect` leaves out phones whose query for Chrome fails and leaves the
version off where that query fails; when the name cannot be asked, adb's own listing has it.
`rivalled`, `blind` are history.

## 3. What the runs show

| run | instance | distinct states | question |
| --- | --- | --- | --- |
| `target_lock` | 4 requests, 2 clients, 1 impatient request, 2 faults | 114,730 | exclusion, order, answers, refinement |
| `persistent_lock` | 2 processes, 3 claims, 1 crash | 40,502 | exclusion between processes, the lock they implement, recovery |
| `sessions` | 2 serial sessions, 1 parallel, 2 clients, 1 failure, 1 remembered closure | 148,488 | device, lock, answers, ends |
| `controller` | 3 kinds of target, 2 recordings, 2 stops, 1 failure | 533,348 | close, recordings, the page |
| `page` | 2 requests of 8 mixes, 2 windows, 2 renders, 4 events, a buffer of 2, 1 failure | 680,579 | retries, windows, diagnostics |
| `device` | 2 requests, 2 ports, iPhone or Android, 1 failure | 806,578 | context, navigation, forwardings |
| `recording` | 3 recordings, 2 faults | 45,104 | whose recording is delivered, and what is left |
| `files` | 2 sessions, 3 uploads, 1 bundle, a quota of 1 | 2,479,672 | files and quota |
| `mcp` | 2 calls, 2 sessions, 1 fault, another client | 94,076 | the session in hand |
| `remote` | 2 hosts, 2 pairings, 2 calls and 1 check, 1 change, failing request or groundless refusal | 593,003 | the connection |
| `catalog` | 2 phones of one make, 2 page loads, 2 events or failing queries | 503,140 | ids and views |
| `catalog_rename` | the same, 1 event, no failing query of a phone | | does one phone have one session? (no) |

Bounds, and why they are enough for what is asked:

- Four requests allow a holder, an heir being handed the lock, a waiter that stays behind
  and one that arrives during a close. Two faults allow a failed handoff to be followed by a
  failed release, and a directory to be taken away before either.
- Two processes, one with two claims: a handoff happens in one process while the other
  judges the directory. One crash at every possible step, and any number of restarts of
  the dead process, which the crash bound limits to one; its pid may be lent to another program and
  returned any number of times.
- `MaxClosures` is 100 in the code and 1 here, so that closures are forgotten. One failing
  cleanup per behaviour, in any of the two places, is followed by a successful retry.
- Two recordings allow one to begin while another ends; three in `recording` let the client's
  stale fields meet a third. One fault in any step of start, recording or close.
- Two requests on a page: whatever one of them holds, the other may change; requests of kinds
  with no state in common do not have to be combined. Two renders make an element stale in
  both attempts. Four events overflow a buffer of two (500 in the code) before and after a clear.
- Three uploads and a quota of one: one registered, one in progress, one refused; bound in two
  sessions. The sizes in the code matter only by their sum.
- Two calls of the MCP server: whatever one awaits, the other can do, and a session that
  is replaced and the one that replaces it are two.
- Two hosts, one remembered and one to be paired with: a switch from one to the other is
  possible. One change by the administrator, one failing request or one refusal of a valid request,
  at any await. One check at a time beside two calls; the code may have three under way, and the
  theorems are for any number of checks.
- Two phones of one make and version are what it takes for an id to depend on who else is there. Two
  events are a phone that is plugged in and a query that fails, in either order. `catalog_rename`
  leaves the failing queries out, so that the phone that is plugged in is the one event.

`CHECK_DEADLOCK FALSE` stands in most configurations: when all requests, sessions or closes
are over and nobody sends another, the system rests, and that is no error. That nothing gets
stuck before is what the liveness properties say. `page` and `catalog` never rest and are
checked for deadlock. Symmetry is used only in runs without liveness properties.

The properties, by the hazard they are aimed at:

- `AtMostOneHolder`, `ImplementsLock`: a handoff or an opening that fails, with timers and
  disconnects in between, neither doubles nor loses the target. `FirstComeFirstServed` (action): nobody
  gets the target, by a handoff or by opening it, past an earlier caller who still waits, unless that
  caller came during a final release that dropped its array (the first known divergence); also after
  releases and handoffs that failed. `EveryRequestIsAnswered` (liveness): those callers, too, get an
  answer, from their timers. `HolderOwnsDirectory`, `HeirsAreReserved` and `LockedMeansUsed` are
  proved beside them.
- `ExclusiveUnlessLapse`: the same between processes; two users of a device, or a user whose name
  is not in `owner.json`, only after one of the three recorded lapses. `LockBetweenCrashes`
  (action): until then, every step that is not a crash is a step of `ExclusiveLock`, in which a
  claim that is handed the target has waited for it and was not refused. `LeftoverIsReclaimed`
  (liveness): a dead process keeps nothing, as soon as no unrelated program goes on having its pid.
- `DeviceUnderLock`, `LockWillBeReleased`: no abort, failing start or failing cleanup uses a
  device outside its lock or leaks the lock. `AnswersAreTrue`: what the clients are told of
  sessions and closes is the case. `SessionsEnd` (liveness): no session outlives its client, no
  cleanup is given up, except for a session whose recording failed to end.
- `CleanAfterClose`, `CloseReturns` (liveness): eight awaits that may fail or hang.
  `TapeIsTracked`, `TapeIsExclusive`, `RecorderStopsFirst` (action): OBS is shared, and started and
  stopped by calls that overlap. `PageIsRestored`: title and marker are taken back however a
  start of a recording ends, unless the page failed to answer the scripts that do so.
- `RetriesAreSafe`: the second attempt at an action neither repeats it nor gives up a render too
  early. `WindowsAreRestored`: a full-page capture that fails anywhere sets the size back, as long
  as nothing else touches the windows. `BufferIsNewest`: the buffer has no gap and no older
  events than it may, as long as no two collections overlap.
- `WebContextIsRestored`, `NavigationIsHonest`, `ForwardsEndWithSession`: a phone after commands
  that fail, time out or run into the end of the session.
- `UndisturbedStopDelivers`, `NoRecordingOutlivesSession`: a stop that resolves delivered the
  last recording, in any sequence of undisturbed calls; what stays on the disk when the client has
  closed its session is the directory of a start that the end overtook, or of a recording whose stop
  failed over the geometry and whose entry another start took.
- `FilesFollowSession`: every file is known to somebody who will remove it, but for the directory of a
  start that failed too early; a session in use has its camera image and its directory, unless a
  refused DELETE took them; a session that was deleted, or a testbench that has stopped, leaves no
  file but those of requests answered later. A session that lost its lease keeps its assets until then.
  `QuotaHolds`: only overlapping uploads, or a binding, exceed the quota.
- `SessionIsInHand`, `CallsAndSessionsEnd` (liveness): one session at a time, none forgotten, and
  an answer for every call, behind calls that fail too.
- `ActiveIsWatched`, `NoSilentSwitch` (action), `ActiveSettles` (liveness): calls that overlap at
  every await do not leave a connection without the heartbeat that would notice its end, and end in
  what the host accepts, with the rights it has granted. The gateway turns from a host only when that
  host has refused the client it is connected as, or at the end of a `disconnect()` that has asked this
  host to close the sessions; except that a `disconnect()` whose connection was ended meanwhile, by a
  refusal or by another `disconnect()`, forgets whatever was connected to since.
- `OneSessionUnlessRivalled`: one session per phone, unless its version could not be read, or a phone of
  its name and version came or went, or one such query made that one seem to.
  `ViewsCatchUp` (liveness): the cache and the page end up showing what is plugged in, unless one
  of the named ways to miss a change occurred.

### Fairness

Weak fairness on what the process itself will do: the next file operation, the next step
after a settled promise, a timer that is running, an answer to a request or its timeout. Strong
fairness on one thing, `GiveUp` in `TargetLock`: a request whose time is up throws the next time
it finds the directory in place, however often it was removed in between. Nothing is assumed of
clients: no request, release, close or heartbeat has to come; no failure has to happen, and
failures are bounded, so a retry timer succeeds in the end. Where a failure is kept it does not: the
finalization of a recording that failed fails every `close()` of its session (`doomed`).

- `Sessions`: the lease of a client that has left runs out (`LeaseExpires`, a timer nobody
  restarts any more). The liveness properties are about a process that keeps running.
- `PersistentLock`: sessions end, and a live process keeps within the grace period. Nothing is assumed
  of a program that was given a dead process' pid: `LeftoverIsReclaimed` has it as its premise that
  `owner.json` does not name such a pid for ever.
- `Controller`: the deletion of a browser session may hang for ever; `CloseReturns` holds because
  `close()` waits for it twice ten seconds.
- `McpServer`: per call, that its handler goes on; that leases nobody renews run out; that a
  process told to stop exits. That a session can be started is not assumed.
- `RemoteConnection`: per call, that its request is answered or fails, and that the interval of the
  heartbeat goes on firing as long as it exists.
- `TargetCatalog`: polling, the expiry of the cache, the reconnection of the event stream, a pending
  refresh, and the answers of requests.

### The finding

`catalog_rename` ends in a violation of `OneSessionPerDevice`. README.md:281 says the testbench
"creates a stable ID for every detected browser and compatible mobile device", and README.md:320 that
"access to the same serial target is queued by the server". `mobileTargets()` numbers phones of
the same readable id by their position in a sorted list (`target-catalog-service.ts:201-213`).
When a second phone of the same make is plugged in, the id of the first changes; a lock is named by
the id (sm:92), so the first phone, in use under its old id, is free under its new one. In the trace
phone 1 is listed and a session starts on it; phone 2 is plugged in; the next list has phone 1 under
another id, and a second session starts on it.

### Known divergences

In seven more places the code does less than a sentence of the documentation, or a test, says, and a
predicate in the module states that sentence; added to the module's configuration (as an
invariant), TLC finds a counterexample. No run checks them, since the checked properties state what
does hold beside them.

| predicate | what the code does | what is said |
| --- | --- | --- |
| `TargetLock!WaitersAreServed` | the closure finds no waiter, awaits the removal of the directory (tlm:299) and deletes the array (tlm:301); a request pushed onto it in between waits for its timeout, while later ones are served | README.md:233-234, "requests wait FIFO" |
| `PersistentLock!AtMostOneUser` | `handoff()` truncates `owner.json` (tlm:106); a reader in another process sees an old directory without metadata and removes it (tlm:132-142) | tests/unit/target-lock-manager.test.ts:54 |
| `Sessions!DisconnectIsFinal` | a session that is being started is neither in a queue nor in the map when `closeOwned()` looks (sm:233), and is listed later; it ends when its lease runs out | README.md:244-245 |
| `Controller!RetryProvesCleanup` | what could not be restored is forgotten before the error is thrown (android-camera-utilities.ts:83), so the next `close()` resolves | docs/releases/0.5.0.md:83 |
| `Controller!RecordingEndsWithSession` | `startRecording()` sets `this.video` after its awaits (ic:568) whether or not `close()` has begun | README.md:398-399 |
| `PageCommands!DragSurvivesOneRender` | `drag()` finds two elements at once and tries again but once for both (browser-session.ts:387-393) | CHANGELOG.md:126 |
| `RecordingTransfer!StopStopsRecording` | after a `stop()` that failed, `start()` keeps the artifact that was to be downloaded (testbench-client.ts:1294-1295), and the next `stop()` delivers it while the new recording goes on | docs/releases/0.5.0.md:65 |

Further divergences have no predicate of their own: a checked property names them as its exception, and
without the exception TLC finds it violated.

| excepted in | what the code does | what is said |
| --- | --- | --- |
| `Sessions!SessionsEnd` (`doomed`) | the promise of a recorder's stop is kept when it rejects (video-recorder.ts:41, 81), and `close()` keeps `this.video` (ic:1046-1052): every retry of the cleanup (sm:469-484) rejects, and the serial target stays locked until the server ends | docs/releases/0.5.0.md:83, "quarantine a serial target until a retry proves cleanup complete" |
| `PersistentLock!LeftoverIsReclaimed` (`reused`) | `processMatches` asks only whether a process with the pid exists (tlm:178-181): an unrelated program that has the pid of a dead testbench keeps the target locked for as long as it runs | docs/releases/0.5.0.md:83, locks "persist ... process-start identity" |
| `RecordingTransfer!NoRecordingOutlivesSession` (`spoiled`) | a `stop()` that fails because the geometry changed (ic:625-657) leaves its entry, which the next `start()` overwrites (artifacts.ts:36): the directory of the first recording is never removed | README.md:398-399 |
| `SessionFiles!FilesFollowSession` (`robbed`) and `RecordingTransfer!ForeignDelete` | `DELETE /v1/sessions/:id` by a client that does not own the session is refused (sm:216-218), but the handler removes the session's files, assets and recordings before it passes the refusal on (api-server.ts:721-731) | tests/unit/session-asset-manager.test.ts:23 |
| `SessionFiles!FilesFollowSession` (stage "ended") | the assets of a session whose lease ran out stay until the session is deleted or the testbench stops; the directory of a start that fails in `prepareSession()` stays | the same |
| `RemoteConnection!NoSilentSwitch` (`overtaken`) | after its DELETE `disconnect()` forgets whatever is active by then (rcs:261), also a later connection, without a DELETE at that host | |
| `Controller!PageIsRestored` ("page") | the script that places the marker runs before the `try` that removes it (obs-viewport.ts:25-39): when its answer is lost the marker stays | |

Three more are in the models without contradicting a checked property: a 401 for the time or the nonce of a
request (remote-request-authentication.ts:115-128) makes the gateway drop a credential that is valid;
`connect()` that was waiting for its host comes up after the user has disconnected; and
`close_session(id)` compares the id before it queues a close without an id, which may close the
session that is current by then.

## 4. What is proved

TLAPS proves the following for every value of the constants that satisfies the named assumption of
the module: any set of requests, sessions, recordings, hosts, calls or ports, any number of clients
and of failures. The assumptions only say that the constants have the right kind (owners are
clients, sentinels are no requests, the quota is a number) and TLC evaluates them in every run.

`TargetLockProofs`, under `LockAssumption`: `TypeCorrect`, `MutualExclusion`, `DirectoryOwned`,
`LockedExactlyWhenUsed`, `HeirsReserved`, `ServedInOrder` and `Implements`. The inductive invariant
is the type invariant with `OneUser` (at most one request opens or uses the target),
`HolderOwnsDirectory`, `LockedMeansUsed`, `QueueHoldsWaiters` (the array holds pending callers
only), `NoEntryNoArray`, `HeirsAreReserved`, `AheadOfQueue` and `OnlyLateStranded`. `AtMostOneHolder` alone is not inductive: that
`HandoffDone` does not make a second holder rests on the heir having been reserved by the closure
that hands over, and that an opener is alone rests on `present`. `Implements` is the refinement: the
owner of the abstract lock is the holder; opening, polling and the beginning of a release are
stutters; `MkdirDone` is `Grant`, `HandoffDone` is `Pass`, the last await of a close is `Release`,
and every way to be rejected is `Refuse` of the set that is rejected. The proof groups the actions
by their effect on `pc`. `DirectoryOwned` has two exceptions, which `robbed` records: a directory that
another process took away, and a handoff that failed half-way. `ServedInOrder` is about
everybody who gets the target, and rests on two facts: who opens it, has it or is its heir came before
all that are in the array (`AheadOfQueue`), and a waiter whom no array holds called during a final
release (`OnlyLateStranded`). `OnlyClosingStrands` is the safety half of the violated wish that every
waiter is served: a waiter without an array (`Stranded`) is one that the last step of a close has
left behind, all that were in the array with it, and it leaves that state through its own timer
only. Failed opens, releases and handoffs strand nobody (`NoEntryNoArray`: where there is no entry,
there is no array).

`SessionsProofs`, under `SessionsAssumption`: `TypeCorrect`, `DeviceOnlyUnderLock`, `LockNotLeaked`
and `AnswersTrue`. The inductive invariant says that the stages and the lock tell the same story
(`LockMatchesStage`: a serial session is in a keeping stage exactly if it owns the lock, and asks
exactly if it is in `acquire()`) and that the device is given up before the release
(`DeviceMatchesStage`). A second invariant on top of it, `Answers`, is about what clients are told:
the outcome fits the stage, a session that nobody has begun to close is in no closure, an abort
waits for the next await of its POST, and what has expired is among the closures
(`AnswersMatchStage`). `RecentKeeps` and `RememberKeeps` say what trimming the closures does to
them, for which the sessions that end together must be finitely many; they are, because finitely
many have come (`FinitelyMany`). `SessionsUseLock` shows that the sessions, seen through the
variables of the lock alone, are a behaviour of `ExclusiveLock`, which `Implements` shows
`TargetLock` to implement: what the one module takes for granted about the lock is what the other
one provides. It needs that no session asks twice (`AskedOnce`). `LockGoesAtRelease` adds the
direction that an invariant cannot state: a session loses the lock by its own `release()` and by
nothing else that happens to it.

`ControllerProofs`, under `ControllerAssumption`: `TypeCorrect`, `ClosesClean`, `TapeTracked`,
`TapeExclusive`, `PageRestored`, `RecorderStoppedFirst`. The invariant has three parts. On
recordings: what OBS records belongs to a recording that has come far enough (`TapeIsOfRecorder`),
an active one is `this.video` (`RecorderIsVideo`), one start is at it at a time (`StartingAlone`),
what a stop has read was started (`SeenHasStarted`), and the marks on the page are those of a start
in progress (`MarksInSetup`). On OBS: its lock is held by somebody who uses it (`WorkspaceIsUsed`)
and is kept from warm-up to finalizing until a recorded lapse (`WorkspaceKept`). On `close()`: each
step it has passed has cleared its field (`FieldsCleared`), no recording goes on (`NoneGoesOn`,
`EndIsAwaited`), and what is on the device is what a field knows of (`NothingForgotten`); hence a
last step without failures leaves nothing.

`SessionsProofs` also proves theorems of three components that sessions meet, each through a named
instance of its module (`Mcp`, `Catalog`, `Transfer`). An instance does not bring the component's
assumption along, so that it is a hypothesis of each of these theorems.

- `Mcp` (`McpServer`, under `McpAssumption`): `McpTypeCorrect` and `McpSessionInHand`. Where a
  handler is suspended fits its tool (`CallFits`); the chain of promises holds each call that goes
  through the coordinator once, and all but the first wait (`ChainOfCalls`). So one call at a time
  opens, uses or closes a session, and each live session that no request was lost about is the
  current one or that of the call whose turn it is (`SessionsInTurn`).
- `Catalog` (`TargetCatalog`, under `CatalogAssumption`): `CatalogTypeCorrect` and
  `CatalogSessions`. As long as no other phone of its name and version has come or gone (`TwinsStay`),
  by a cable or by a failing query, and its own version could be read, every list has a phone under
  the id it had at first: the cache, the lists
  on their way to the page, and the sessions (`IdsStay`). The lock of that id is then a lock of the
  phone. `CatalogIdsClear` has no such condition: at any one time no two phones of a list, of the
  cache, of the page or among the locked ones have one id: phones of one name in a list are numbered
  in the order of their serials (`NumbersApart`), whichever versions could not be read (`IdsApart`).
  What fails beyond `TwinsStay` is therefore only the meaning of an id over time.
- `Transfer` (`RecordingTransfer`, under `TransferAssumption`): `TransferTypeCorrect`,
  `TransferDirectoriesKnown`, `RecordingsEndWithSession`, `StopDelivers`. A directory is an
  artifact, the entry of the session, or that of a start in progress (`Accounted`); what is
  registered after the end was registered late (`OnlyLateOnes`); an entry is overwritten only after
  a failed stop or by a start that overtook the end (`LostForReason`, which rests on `EntryInUse`).
  `StopDelivers` has an invariant of its own, `Undisturbed`: short of a failure, there is one start
  at a time, what is recorded has the session's entry, that entry is of the path given last, and the
  testbench has no artifact but the one that is being downloaded.

`PageCommandsProofs`, under `PageAssumption`: `TypeCorrect`, `RetriesSafe`, `WindowsRestored` and
`BufferNewest`. Its invariant has a part for each kind of request. `RequestsFit` ties the place of a
request to what it has done: as many rounds are done as its handler has left behind, and a second
attempt comes after a render that its first one met. `CapturesFit` says that, as long as nothing
else touches the windows, one capture at a time is at work, it stays in the window it has measured,
and the size it has saved is the one the user wants. `CollectionsFit` says that, as long as no two
collections overlap, the buffer, the batch of the collection in progress and the events the driver
still has follow one another without a gap; what `splice` keeps is then the newest, for every limit.

`DeviceCommandsProofs`, under `DeviceAssumption`: `TypeCorrect`, `ForwardsRemoved`,
`ContextRestored` and `HonestNavigation`. `Tracked` says that a port is forwarded otherwise than
before the session only if it is in `forwardedPorts`, which `RemoveForwards` empties, that such a
port was free before, and that a request about to forward one found it free. `SwitchesAlone` says of
calm sessions that one request at a time is between reading the context and restoring it, that it
will restore the page's, and that it has not left it before it asks for the native one; `Truthful`
says what each request knows at each of its stages. Handlers are sorted by what they do to the
switching (`Apart`, `GoesOn`, `Leaves`).

`RemoteConnectionProofs`, under `RemoteAssumption`: `TypeCorrect`, `ConnectionWatched`, `NoSwitch`.
The invariant adds to the types that a call that is past its check aims at the host of the
credential it holds (`CallsAim`), so that `assertActivationAvailable` speaks about the host that is
then activated. `NoSwitch` needs `LeavesItsHost` besides: a `disconnect()` that waits for a host and was
not overtaken has the credential of that host, which is still the active one. Then each step that
can end the connection with a host is one that `NoSilentSwitch` names (`Turns`), and all others keep
it (`HostKept`). `CredentialsGenuine` (`Genuine`, inductive with the invariant) says that whatever is
active, saved or in the hands of a call was issued by its host to that client, the empty one of a
pairing aside.

`SessionFilesProofs`, under `FilesAssumption`: `TypeCorrect`, `FilesFollow`, `QuotaKept`. An asset
has a session as its scope only once that was started (`ScopesStarted`), a directory was asked for
and is removed where a start is undone (`DirectoriesAsked`), and until the testbench stops an upload
has its file (`FilesThere`). A refused DELETE may come at any time, and is excepted for the session
it robs only. The quota holds because it holds for the claims on it, uploads in
progress included (`ClaimsWithinQuota`), to which only an upload or a binding adds.

`PersistentLockProofs`, under `PersistentAssumption`: `TypeCorrect`, `Exclusive` and
`LeftoverFound`. Parts of the invariant hold whatever happens: `DirectoryOrNothing` (what is in the
directory), `AtWorkIsUp` (who is at work has a process), `RollbackIsLate`, `HeirIsOfHouse` (a
handoff is to another claim of the process). The other part, `Owned`, holds until the first lapse:
from `mkdir` to `rm` there is one claim, it still has its directory, with the contents that belong
to its stage, and nobody who judged that directory stale is about to remove it.
`ExclusiveUnlessLapse` alone says nothing of the claims between `mkdir` and the writing of
`owner.json`, which a removal can hit. `LeftoverFound` is the safety behind `LeftoverIsReclaimed`:
until a lapse, an `owner.json` with no claim behind it is stale for everybody who reads it, or names the
pid of an unrelated program, or that of a Testbench started again under it, with another
`processStartedAt`, whose `cleanup()` has yet to remove it (`LeftoverIsFound`, inductive beside
`IndInv`).

`DirectoryIsLock` (`LockBetweenCrashes`) is the refinement of `ExclusiveLock` step by step: the
owner is the claim that uses the target; `Fill` is `Grant`, `Rewrite` is `Pass`, `Unlink` is
`Release`, `GiveUp` is `Refuse`, the truncation of `owner.json` is the moment the heir asks, and
everything else that claims, `cleanup()` and the clock do is a stutter (`TryingStutters`). It rests
on `Owned`, which makes the owner unique and lets `release()` find its own name, and on `HeirsWait`:
an heir is still waiting when the rewriting ends. A crash is excepted because it answers several
claims at once, for which `ExclusiveLock` has no step.

`LapsesCaused` says where the lapses come from: a torn read of `owner.json` and a lost name take a
handoff, a late removal a process that died. `CauseInv` says why: without handoffs a directory that can be read is
not taken for one that stayed empty (`ReadInTime`, for processes that keep within the grace period,
as `Age` assumes); without a crash every directory is that of a claim, and nobody has judged one
stale (`NothingStale`). `SafeWithoutCrash` draws the conclusion: without both, exclusion holds
without exception; and `ImplementsWithoutCrash`, that the directory then implements `ExclusiveLock`
as it stands.

Every safety invariant and action property of the passing runs is the subject of one of these
theorems. `SessionsUseLock`, `LockGoesAtRelease`, `OnlyClosingStrands`, `CatalogIdsClear`,
`CredentialsGenuine`, `LapsesCaused`, `SafeWithoutCrash` and `ImplementsWithoutCrash` say more than the runs check, and are stated beside their proofs. Only
model-checked are the liveness properties of section 3, which are out of the prover's reach, and
what fails: `OneSessionPerDevice` and the predicates of the known divergences.

## 5. What is not modelled

Geometry, settings, discovery, setup, diagnosis, command line and presentation: I/O, formatting or
computations without concurrent state. Inside the modelled parts: status codes and messages; the
events of the OBS connection, whose waits are abstracted to their outcome; scenes of OBS and their
restoring; what page scripts compute, and fetch mocks; signatures and encryption; that a
read of a JSON file does not wait for the updates that are queued (json-file-store.ts:12-22); the
identity and discovery requests that `connect_testbench` awaits before it queues, and the sessions that
the server closes itself when an MCP client connects or disconnects; the
streaming of files; cameras and media of a device, which are commands to adb; the escalation of
signals to the Appium process; what is left when the process exits right after `stop()`; and the rights of
a client per request while it is being revoked (`remote-api-controller.ts:382`).
