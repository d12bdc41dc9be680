---------------------------- MODULE TargetCatalog ----------------------------
(***************************************************************************)
(* Which devices there are and by which ids they can be asked for: the     *)
(* monitor that polls adb (setup/android-device-monitor.ts; the one for    *)
(* iPhones is its twin), the inspection of the devices                     *)
(* (android-device-service.ts), the catalogue with its cache               *)
(* (target-catalog-service.ts), the events of the workbench and the web    *)
(* page that follows them (ui/client).  Sessions are seen from here only   *)
(* as a lock that is named by a target's id and a device that is in use.   *)
(*                                                                         *)
(* Phones only, numbered in the order of their serial numbers.  What adb   *)
(* prints and what each phone is asked afterwards are read in one step.    *)
(***************************************************************************)
EXTENDS Naturals, FiniteSets

CONSTANTS
  Devices,
  Model,       \* what a phone calls itself
  Version,     \* its version
  Present,     \* the phones that are connected and usable when the server starts
  PageLoads,   \* requests GET /v1/workbench of the page
  ClientLoads, \* those of them that may also be another client's GET /v1/targets
  Flaky,       \* the phones that may fail to answer when they are asked
  MaxEvents,   \* how often a phone, a command or a connection changes or fails
  None,
  AdbError     \* what the monitor notes when adb fails

ASSUME CatalogAssumption == /\ Devices \subseteq Nat /\ MaxEvents \in Nat
                            /\ Model \in [Devices -> STRING]
                            /\ Version \in [Devices -> STRING \ {"unread"}]
                            /\ ClientLoads \subseteq PageLoads

VARIABLES
  plugged,    \* the phones
  seen,       \* AndroidDeviceMonitor.fingerprint
  cache,      \* TargetCatalogService.cached
  loads,      \* the requests: where each is, what it found, which is older
  page,       \* WorkbenchStore: what it shows, its timer, busy; and its EventStream
  sessions,   \* the locks that are held, by id, with the device each session uses
  spent,      \* how many of MaxEvents have happened
  rivalled, blind
              \* history: phones whose id may have changed; a change of which the page
              \* cannot know

vars == <<plugged, seen, cache, loads, page, sessions, spent, rivalled, blind>>

\* Mutant: a phone that is listed counts, whether or not it can be used.
Connected == {d \in Devices : plugged[d] # "absent"}

\* The phones whose options are `compatible`.
Ready == {d \in Devices : plugged[d] = "ready"}

\* What `adb devices -l` says; it knows nothing of the browsers on a phone.
Listing(state) == [d \in Devices |-> IF state[d] = "bare" THEN "ready" ELSE state[d]]

\* The readable id of a phone, without its version where that could not be asked.
Base(d, unread) == <<Model[d], IF d \in unread THEN "unread" ELSE Version[d]>>

\* Phones of the same readable id are numbered in the order of their serial numbers; one
\* that is alone keeps the plain id.
MobileTargets(found, unread) ==
  LET Rivals(d) == {e \in found : Base(e, unread) = Base(d, unread)}
      Position(d) == IF Rivals(d) = {d} THEN 0 ELSE Cardinality({e \in Rivals(d) : e <= d})
  IN  {[device |-> d, id |-> <<Base(d, unread), Position(d)>>] : d \in found}

Right == MobileTargets(Ready, {})

Ids == ({Model[d] : d \in Devices} \X ({Version[d] : d \in Devices} \union {"unread"})) \X Nat
Targets == [device : Devices, id : Ids]
Idle == [at |-> "idle", of |-> "client", found |-> {}, order |-> "newest"]
Asked(of) == [Idle EXCEPT !.at = "asked", !.of = of]

TypeOK ==
  /\ plugged \in [Devices -> {"absent", "unauthorized", "bare", "ready"}]
  /\ seen \in [Devices -> {"absent", "unauthorized", "ready"}] \union {None, AdbError}
  /\ cache \in (SUBSET Targets) \union {None}
  /\ loads \in [PageLoads -> [at : {"idle", "asked", "read", "sent"}, of : {"page", "client"},
                             found : SUBSET Targets, order : {"newest", "older", "late"}]]
  /\ page \in [shown : SUBSET Targets, timer : BOOLEAN, connected : BOOLEAN,
               mutation : PageLoads \union {None}]
  /\ sessions \subseteq Targets
  /\ spent \in 0 .. MaxEvents
  /\ rivalled \subseteq Devices /\ blind \in BOOLEAN

Init ==
  /\ plugged = [d \in Devices |-> IF d \in Present THEN "ready" ELSE "absent"]
  /\ seen = None /\ cache = None
  /\ loads = [l \in PageLoads |-> Idle]
  /\ page = [shown |-> {}, timer |-> TRUE, connected |-> FALSE, mutation |-> None]
  /\ sessions = {} /\ spent = 0 /\ rivalled = {} /\ blind = FALSE

Spend == spent < MaxEvents /\ spent' = spent + 1

Twins(devices) == {d \in Devices : \E e \in devices \ {d} : Base(e, {}) = Base(d, {})}

\* A phone is plugged in, unplugged, unlocked, gets or loses Chrome.
Change(d, state) ==
  /\ state # plugged[d] /\ Spend
  /\ plugged' = [plugged EXCEPT ![d] = state]
  /\ rivalled' = IF "ready" \in {state, plugged[d]} THEN rivalled \union Twins({d}) ELSE rivalled
  /\ blind' = (blind \/ seen = None \/ Listing(plugged') \in {Listing(plugged), seen})
  /\ UNCHANGED <<seen, cache, loads, page, sessions>>

-----------------------------------------------------------------------------
(* The monitor                                                             *)

\* WorkbenchEvents.publish to the streams there are; the page sets its timer.  An event
\* while the stream is down is lost: a new stream says nothing of what was missed.
Publish ==
  /\ page' = [page EXCEPT !.timer = @ \/ page.connected]
  /\ blind' = (blind \/ ~page.connected)

NotifyEnvironmentChanged == cache' = None /\ Publish

CheckNow(result) ==
  /\ IF seen # None /\ result # seen
     THEN NotifyEnvironmentChanged
     ELSE UNCHANGED <<cache, page, blind>>
  /\ seen' = result
  /\ UNCHANGED <<plugged, loads, sessions, rivalled>>

Check == CheckNow(Listing(plugged)) /\ UNCHANGED spent
CheckFails == CheckNow(AdbError) /\ Spend

-----------------------------------------------------------------------------
(* The catalogue                                                           *)

\* Any client lists the targets, or asks for an id the cache does not know.
List(l) ==
  /\ loads[l].at = "idle"
  /\ loads' = [loads EXCEPT ![l] = Asked("client")]
  /\ UNCHANGED <<plugged, seen, cache, page, sessions, spent, rivalled, blind>>

Shown(l) == loads[l].of = "page"

\* A request has found these phones, those of `unread` without their versions.
Reads(l, found, unread) ==
  /\ loads' = [o \in PageLoads |->
                 IF o = l
                 THEN [loads[l] EXCEPT !.at = "read", !.found = MobileTargets(found, unread)]
                 ELSE IF Shown(l) /\ Shown(o) /\ loads[o].at # "asked" /\ loads[o].order = "newest"
                 THEN [loads[o] EXCEPT !.order = "older"] ELSE loads[o]]
  /\ rivalled' = rivalled \union unread
                 \union (found \intersect Twins((Ready \ found) \union unread))
  /\ blind' = (blind \/ (Shown(l) /\ MobileTargets(found, unread) # Right))
  /\ UNCHANGED <<plugged, seen, cache, page, sessions>>

\* DoctorService.inspect: adb may give no list, and each phone may fail to tell whether it has
\* Chrome, without which it is left out, or which version it has.
Inspect(l) ==
  /\ loads[l].at = "asked"
  /\ \E found \in SUBSET Ready, unread \in SUBSET Flaky :
       /\ unread \subseteq found /\ (found = {} \/ Ready \ found \subseteq Flaky)
       /\ IF found = Ready /\ unread = {} THEN UNCHANGED spent ELSE Spend
       /\ Reads(l, found, unread)

\* TargetCatalogService.update: after the other checks, whatever has happened to the cache.
Update(l) ==
  /\ loads[l].at = "read"
  /\ cache' = loads[l].found
  /\ loads' = [loads EXCEPT ![l] = IF Shown(l) THEN [@ EXCEPT !.at = "sent"] ELSE Idle]
  /\ UNCHANGED <<plugged, seen, page, sessions, spent, rivalled, blind>>

\* Mutant: reading the cache keeps it alive.
ExpireUnread ==
  /\ cache # None /\ cache = {}
  /\ cache' = None
  /\ UNCHANGED <<plugged, seen, loads, page, sessions, spent, rivalled, blind>>

\* TARGET_CACHE_TTL_MS passes; from then on the cache counts for nothing.
Expire ==
  /\ cache # None
  /\ cache' = None
  /\ UNCHANGED <<plugged, seen, loads, page, sessions, spent, rivalled, blind>>

\* TargetCatalogService.resolve finds the id; the session takes the lock of that name and
\* starts on the phone.
StartSession(target) ==
  /\ cache # None /\ target \in cache
  /\ \A s \in sessions : s.id # target.id
  /\ plugged[target.device] = "ready"
  /\ sessions' = sessions \union {target}
  /\ UNCHANGED <<plugged, seen, cache, loads, page, spent, rivalled, blind>>

EndSession(s) ==
  /\ sessions' = sessions \ {s}
  /\ UNCHANGED <<plugged, seen, cache, loads, page, spent, rivalled, blind>>

-----------------------------------------------------------------------------
(* The page                                                                *)

StreamDrops ==
  /\ page.connected /\ Spend
  /\ page' = [page EXCEPT !.connected = FALSE]
  /\ UNCHANGED <<plugged, seen, cache, loads, sessions, rivalled, blind>>

\* The page's `connected` event starts no refresh.
StreamConnects ==
  /\ ~page.connected
  /\ page' = [page EXCEPT !.connected = TRUE]
  /\ UNCHANGED <<plugged, seen, cache, loads, sessions, spent, rivalled, blind>>

Refreshing(l) ==
  /\ loads[l].at = "idle"
  /\ loads' = [loads EXCEPT ![l] = Asked("page")]
  /\ UNCHANGED <<plugged, seen, cache, sessions, rivalled, blind>>

\* The timer of scheduleRefresh; while the page is busy it is set again.
Refresh(l) ==
  /\ page.timer /\ page.mutation = None
  /\ page' = [page EXCEPT !.timer = FALSE]
  /\ Refreshing(l)
  /\ UNCHANGED spent

\* WorkbenchStore.mutate: what the user asked for is done, the refresh after it begins.
Mutate(l) ==
  /\ page.mutation = None /\ Spend
  /\ page' = [page EXCEPT !.mutation = l]
  /\ Refreshing(l)

Done(l) == IF page.mutation = l THEN None ELSE page.mutation

\* The answers of two requests may come in any order; the later one to come stays.
Show(l) ==
  /\ loads[l].at = "sent"
  /\ page' = [page EXCEPT !.shown = loads[l].found, !.mutation = Done(l)]
  /\ blind' = (blind \/ loads[l].order = "late")
  /\ loads' = [o \in PageLoads |->
                 IF o = l THEN Idle
                 ELSE IF loads[o].order = "older" /\ loads[l].order = "newest"
                 THEN [loads[o] EXCEPT !.order = "late"] ELSE loads[o]]
  /\ UNCHANGED <<plugged, seen, cache, sessions, spent, rivalled>>

\* A request of the page fails; what it shows stays.
AnswerIsLost(l) ==
  /\ loads[l].at = "sent" /\ Spend
  /\ page' = [page EXCEPT !.mutation = Done(l)]
  /\ loads' = [loads EXCEPT ![l] = Idle]
  /\ blind' = TRUE
  /\ UNCHANGED <<plugged, seen, cache, sessions, rivalled>>

-----------------------------------------------------------------------------
LoadStep(l) == Inspect(l) \/ Update(l) \/ Show(l)

Next ==
  \/ \E d \in Devices, state \in {"absent", "unauthorized", "bare", "ready"} : Change(d, state)
  \/ Check \/ CheckFails \/ Expire \/ StreamDrops \/ StreamConnects
  \/ \E l \in ClientLoads : List(l)
  \/ \E l \in PageLoads : LoadStep(l)
  \/ \E l \in PageLoads : Refresh(l) \/ Mutate(l) \/ AnswerIsLost(l)
  \/ \E t \in (IF cache = None THEN {} ELSE cache) : StartSession(t)
  \/ \E s \in sessions : EndSession(s)

\* Timers fire and requests are answered.  Nothing makes a client ask, a user act or a
\* session end.
Fairness ==
  /\ WF_vars(Check) /\ WF_vars(Expire) /\ WF_vars(StreamConnects)
  /\ WF_vars(\E l \in PageLoads : Refresh(l))
  /\ \A l \in PageLoads : WF_vars(LoadStep(l))

Spec == Init /\ [][Next]_vars /\ Fairness

-----------------------------------------------------------------------------
(* Properties                                                              *)

\* Once the phones have come to rest, the catalogue stops handing out what it listed before: a
\* listing in flight may fill the cache after it was invalidated (target-catalog-service.ts:43),
\* but not for longer than the cache lives.  And the page shows them, unless one of the ways to
\* miss a change occurred: it lies before the monitor's first check, between two checks or out
\* of adb's sight, its event met a broken stream, or the answer to the refresh was lost, wrong,
\* or overtaken by an older one (workbench-store.ts:118, android-device-monitor.ts:45).
ViewsCatchUp == <>[](cache \in {None, Right} /\ (blind \/ page.shown = Right))

\* The lock is named by the id, the device is what the id stands for: two sessions meet on
\* one phone only if its version could not be read, or another of its name and version came or
\* went, was left out of a list or listed without a version (target-catalog-service.ts:209,
\* android-device-service.ts:255, session-manager.ts:92).
OneSessionUnlessRivalled ==
  \A s, t \in sessions : s # t /\ s.device = t.device => s.device \in rivalled

\* README.md:320: "Different devices can run in parallel; access to the same serial target is
\* queued by the server".
OneSessionPerDevice == \A s, t \in sessions : s.device = t.device => s = t
===============================================================================
