----------------------------- MODULE DeviceCommands -----------------------------
(***************************************************************************)
(* What the commands of a session do to a phone beside its page: Safari of *)
(* a connected iPhone is navigated through its address bar                 *)
(* (src/src/automation/ios-physical-safari-navigator.ts) and pictures of   *)
(* the screen are taken (src/src/recording/geometry.ts) in the native      *)
(* context of Appium, which every command of the session shares; local     *)
(* addresses are forwarded to an Android device for the duration of the    *)
(* session (android-usb-network.ts).                                       *)
(*                                                                         *)
(* An action is what happens between two requests to Appium or adb.        *)
(***************************************************************************)
EXTENDS Naturals, FiniteSets

CONSTANTS
  Calls,     \* requests of the session's client
  Ports,
  MaxFaults  \* bound

ASSUME DeviceAssumption == Ports # {} /\ MaxFaults \in Nat

VARIABLES
  device,    \* what the session runs on
  linkable,  \* supportsInitialDeeplink()
  call,      \* each request: where its handler is suspended, and what it knows
  context,   \* the context of the Appium session
  session,   \* "open", "closing", "closed"
  mapping,   \* the device's ports: not forwarded, to the same port, to another one
  before,    \* what they were before the session
  forwardedPorts,  \* AndroidUsbNetwork.forwardedPorts
  calm,      \* history: nothing disturbed the switching of contexts so far
  leaked,    \* history: a forwarding could not be removed, or was being set up during the close
  faults

vars == <<device, linkable, call, context, session, mapping, before, forwardedPorts, calm, leaked, faults>>
usb == <<mapping, before, forwardedPorts, leaked>>
setting == <<device, linkable, session>>

Kinds     == {"navigate", "picture", "gesture"}
Contexts  == {"web", "native"}
Pcs == {"idle", "issued", "reading", "linking", "toNative", "typing", "confirming", "looking",
        "restoring", "changing", "preparing", "forwarding", "loading", "gesturing"}
Answers == {"none", "ok", "failed"}

CallStates ==
  [kind : Kinds, pc : Pcs, answer : Answers,
   link : BOOLEAN,      \* through a deep link, not the address field
   original : Contexts, \* originalContext
   known : BOOLEAN,     \* originalUrl is defined
   sameHost : BOOLEAN,  \* the host asked for is the one shown before
   landed : BOOLEAN,    \* the address asked for is shown
   late : BOOLEAN,
   told : {"ok", "fallBack", "failed"}, round : {1, 2}, port : Ports,
   there : BOOLEAN]     \* history: the address was shown when it ended

TypeOK ==
  /\ device \in {"android", "iphone"} /\ linkable \in BOOLEAN
  /\ call \in [Calls -> CallStates]
  /\ context \in Contexts /\ session \in {"open", "closing", "closed"}
  /\ mapping \in [Ports -> {"none", "same", "other"}] /\ before \in [Ports -> {"none", "same", "other"}]
  /\ forwardedPorts \subseteq Ports
  /\ \A p \in forwardedPorts : leaked \/ mapping[p] = "same"
  /\ calm \in BOOLEAN /\ leaked \in BOOLEAN /\ faults \in 0..MaxFaults

Idle == [kind |-> "gesture", pc |-> "idle", answer |-> "none", link |-> FALSE, original |-> "web",
         known |-> FALSE, sameHost |-> FALSE, landed |-> FALSE, late |-> FALSE,
         told |-> "ok", round |-> 1, port |-> CHOOSE p \in Ports : TRUE, there |-> TRUE]

Init ==
  /\ device \in {"android", "iphone"} /\ linkable \in BOOLEAN
  /\ (device = "android" => ~linkable)
  /\ call = [k \in Calls |-> Idle]
  /\ context = "web" /\ session = "open"
  /\ before \in [Ports -> {"none", "same", "other"}] /\ mapping = before
  /\ (device = "iphone" => \A p \in Ports : before[p] = "none")
  /\ forwardedPorts = {}
  /\ calm = TRUE /\ leaked = FALSE /\ faults = 0

Fault == faults < MaxFaults /\ faults' = faults + 1

Goes(k, pc) == call' = [call EXCEPT ![k].pc = pc]

\* The handler ends; its client may have given up before (AbortableOperation), which does not
\* end a navigation.
Ends(k, told) ==
  call' = [call EXCEPT ![k] = [Idle EXCEPT !.answer = told, !.there = call[k].landed \/ ~call[k].known]]

\* Between the request for the context and the one that restores it.
Switching(k) == call[k].pc \in {"linking", "toNative", "typing", "confirming", "looking", "restoring"}

-------------------------------------------------------------------------------
(* The requests                                                            *)

\* navigate().
Navigate(k) ==
  /\ call[k].pc = "idle" /\ session = "open"
  /\ \E p \in Ports, sameHost, shown \in BOOLEAN :
       /\ (device = "android" => ~sameHost) /\ (shown => sameHost)
       /\ call' = [call EXCEPT ![k] = [Idle EXCEPT
            !.kind = "navigate", !.pc = "issued", !.sameHost = sameHost, !.landed = shown,
            !.port = IF device = "android" THEN p ELSE @]]
  /\ UNCHANGED <<setting, context, usb, calm, faults>>

\* captureScreenshot() of the screen or of the page: pictures and bounds of the screen.
Picture(k) ==
  /\ call[k].pc = "idle" /\ session = "open"
  /\ call' = [call EXCEPT ![k] = [Idle EXCEPT !.kind = "picture", !.pc = "issued"]]
  /\ UNCHANGED <<setting, context, usb, calm, faults>>

\* tap(), swipe(), pinch(), and the commands of Appium.
Gesture(k) ==
  /\ call[k].pc = "idle" /\ session = "open"
  /\ call' = [call EXCEPT ![k] = [Idle EXCEPT !.kind = "gesture", !.pc = "issued"]]
  /\ UNCHANGED <<setting, context, usb, calm, faults>>

\* InteractiveController begins; a session that is being closed is not found any more.
Begin(k) ==
  /\ call[k].pc = "issued"
  /\ IF session # "open" THEN Ends(k, "failed")
     ELSE call' = [call EXCEPT
       ![k].pc = CASE call[k].kind = "gesture" -> "gesturing"
                   [] call[k].kind = "navigate" /\ device = "android" -> "preparing"
                   [] OTHER -> "reading",
       ![k].link = call[k].kind = "navigate" /\ linkable]
  /\ UNCHANGED <<setting, context, usb, calm, faults>>

\* appiumCommand(); MobileGestures.perform().
Gestured(k) ==
  /\ call[k].pc = "gesturing"
  /\ \E told \in {"ok", "failed"} : Ends(k, told)
  /\ UNCHANGED <<setting, context, usb, calm, faults>>

\* IOS_NATIVE_NAVIGATION_TIMEOUT_MS: one deadline for the whole navigation.
Expire(k) ==
  /\ call[k].kind = "navigate" /\ device = "iphone" /\ call[k].pc \notin {"idle", "issued"}
  /\ ~call[k].late
  /\ call' = [call EXCEPT ![k].late = TRUE]
  /\ UNCHANGED <<setting, context, usb, calm, faults>>

-------------------------------------------------------------------------------
(* The native context                                                      *)

\* The context is asked for, to be restored later; the address it shows, if it can be had.
ReadContext(k) ==
  /\ call[k].pc = "reading" /\ ~call[k].late
  /\ \E known \in BOOLEAN :
       /\ known => call[k].kind = "navigate" /\ context = "web"
       /\ call' = [call EXCEPT ![k].original = context, ![k].known = known,
                               ![k].pc = IF call[k].link THEN "linking" ELSE "toNative"]
  /\ calm' = (calm /\ \A j \in Calls \ {k} : ~Switching(j))
  /\ UNCHANGED <<setting, context, usb, faults>>

\* mobile: deepLink; a device that does not know it is navigated through the address field.
DeepLink(k) ==
  /\ call[k].pc = "linking" /\ ~call[k].late
  /\ \/ Goes(k, "toNative")
     \/ call' = [call EXCEPT ![k].link = FALSE, ![k].pc = "reading"]
  /\ UNCHANGED <<setting, context, usb, calm, faults>>

ToNative(k) ==
  /\ call[k].pc = "toNative" /\ ~call[k].late
  /\ context' = "native"
  /\ Goes(k, IF call[k].kind = "picture" THEN "looking" ELSE IF call[k].link THEN "confirming" ELSE "typing")
  /\ UNCHANGED <<setting, usb, calm, faults>>

\* The address field is found, emptied and filled, and Return pressed.
EnterAddress(k) ==
  /\ call[k].pc = "typing" /\ ~call[k].late
  /\ Goes(k, "confirming")
  /\ UNCHANGED <<setting, context, usb, calm, faults>>

\* Safari opens the address.
Land(k) ==
  /\ call[k].pc \in {"toNative", "confirming", "restoring", "changing"} /\ ~call[k].landed
  /\ (call[k].pc = "toNative" => call[k].link)
  /\ call' = [call EXCEPT ![k].landed = TRUE]
  /\ UNCHANGED <<setting, context, usb, calm, faults>>

\* waitForAddress(): the address field shows the host.
Confirm(k) ==
  /\ call[k].pc = "confirming" /\ ~call[k].late
  /\ call[k].landed \/ call[k].sameHost
  /\ Goes(k, "restoring")
  /\ UNCHANGED <<setting, context, usb, calm, faults>>

\* It does not before the deadline: what follows a deep link is the address field.
Unconfirmed(k) ==
  /\ call[k].pc = "confirming" /\ call[k].late
  /\ call' = [call EXCEPT ![k].pc = "restoring", ![k].told = IF call[k].link THEN "fallBack" ELSE "failed"]
  /\ UNCHANGED <<setting, context, usb, calm, faults>>

\* screenScreenshot(), nativeWebViewRect(): one picture or one rectangle.
Look(k) ==
  /\ call[k].pc = "looking"
  /\ Goes(k, "restoring")
  /\ UNCHANGED <<setting, context, usb, calm, faults>>

\* What comes after the context was restored.
Restored(k) ==
  CASE call[k].kind = "picture" /\ call[k].told = "ok" /\ call[k].round = 1 ->
         call' = [call EXCEPT ![k].round = 2, ![k].pc = "reading"]
    [] call[k].kind = "navigate" /\ call[k].told = "ok" -> Goes(k, "changing")
    [] call[k].told = "fallBack" ->
         call' = [call EXCEPT ![k].link = FALSE, ![k].told = "ok", ![k].pc = "reading"]
    [] OTHER -> Ends(k, call[k].told)

\* Only after a confirmed deep link is the deadline of the navigation that of the restoring, too.
TooLateToRestore(k) ==
  call[k].kind = "navigate" /\ call[k].link /\ call[k].told = "ok" /\ call[k].late
    /\ call[k].original = "web"

\* Mutant: the context is restored when everything went well only.
RestoreAfterSuccess(k) ==
  /\ call[k].pc = "restoring" /\ ~TooLateToRestore(k)
  /\ context' = IF call[k].told = "ok" THEN call[k].original ELSE context
  /\ Restored(k)
  /\ UNCHANGED <<setting, usb, calm, faults>>

\* restoreWebContext(), which tries until it is done; finally of a picture.
RestoreContext(k) ==
  /\ call[k].pc = "restoring" /\ ~TooLateToRestore(k)
  /\ context' = IF call[k].kind = "picture" \/ call[k].original = "web" THEN call[k].original ELSE context
  /\ Restored(k)
  /\ UNCHANGED <<setting, usb, calm, faults>>

\* The deadline has passed since the address was confirmed.
NotRestored(k) ==
  /\ call[k].pc = "restoring" /\ TooLateToRestore(k)
  /\ Ends(k, "failed")
  /\ calm' = FALSE
  /\ UNCHANGED <<setting, context, usb, faults>>

\* Mutant: nobody waits for the address to change.
ChangedAtOnce(k) ==
  /\ call[k].pc = "changing" /\ ~call[k].late
  /\ Ends(k, "ok")
  /\ UNCHANGED <<setting, context, usb, calm, faults>>

\* waitForChangedWebUrl(): when the host does not tell, the address must be another one.
Changed(k) ==
  /\ call[k].pc = "changing"
  /\ (call[k].known /\ call[k].sameHost => call[k].landed)
  /\ Ends(k, "ok")
  /\ UNCHANGED <<setting, context, usb, calm, faults>>

\* remaining(): nothing is asked of Appium after the deadline.
OutOfTime(k) ==
  /\ call[k].late
  /\ \/ /\ call[k].pc \in {"reading", "linking", "toNative"}
        /\ Ends(k, "failed")
     \/ /\ call[k].pc = "typing"
        /\ call' = [call EXCEPT ![k].pc = "restoring", ![k].told = "failed"]
     \/ /\ call[k].pc = "changing" /\ call[k].known /\ call[k].sameHost
        /\ Ends(k, "failed")
  /\ UNCHANGED <<setting, context, usb, calm, faults>>

\* A request to Appium fails, or is not waited for any longer; one that selects the native
\* context may have done so.
AppiumFails(k) ==
  /\ Fault
  /\ \/ /\ call[k].pc \in {"reading", "linking"}
        /\ Ends(k, "failed") /\ UNCHANGED <<context, calm>>
     \/ /\ call[k].pc = "toNative"
        /\ context' \in {context, "native"}
        /\ IF call[k].kind = "picture"
             THEN call' = [call EXCEPT ![k].pc = "restoring", ![k].told = "failed"] /\ UNCHANGED calm
             ELSE Ends(k, "failed") /\ calm' = (calm /\ context' = context)
     \/ /\ call[k].pc \in {"typing", "confirming", "looking"}
        /\ call' = [call EXCEPT ![k].pc = "restoring", ![k].told = "failed"]
        /\ UNCHANGED <<context, calm>>
     \/ /\ call[k].pc = "restoring"
        /\ Ends(k, "failed") /\ calm' = FALSE /\ UNCHANGED context
     \/ /\ call[k].pc = "changing"
        /\ Ends(k, "failed") /\ UNCHANGED <<context, calm>>
  /\ UNCHANGED <<setting, usb>>

\* The session of the driver is deleted: Appium refuses everything.
Gone(k) ==
  /\ session = "closed" /\ (Switching(k) \/ call[k].pc \in {"reading", "changing", "gesturing"})
  /\ Ends(k, "failed")
  /\ UNCHANGED <<setting, context, usb, calm, faults>>

-------------------------------------------------------------------------------
(* Forwarding to an Android device                                         *)

\* prepare(): a port this session forwards needs nothing; one that is forwarded to itself is
\* used, one that is forwarded elsewhere is not touched.
Prepare(k) ==
  /\ call[k].pc = "preparing"
  /\ IF call[k].port \in forwardedPorts THEN Goes(k, "loading")
     ELSE CASE mapping[call[k].port] = "none"  -> Goes(k, "forwarding")
            [] mapping[call[k].port] = "same"  -> Goes(k, "loading")
            [] mapping[call[k].port] = "other" -> Ends(k, "failed")
  /\ UNCHANGED <<setting, context, usb, calm, faults>>

\* Mutant: every port that can be used is taken for one this session forwards.
ForwardAll(k) ==
  /\ call[k].pc = "forwarding"
  /\ mapping' = [mapping EXCEPT ![call[k].port] = "same"]
  /\ forwardedPorts' = {p \in Ports : mapping'[p] = "same"}
  /\ Goes(k, "loading")
  /\ UNCHANGED <<setting, context, before, calm, leaked, faults>>

\* adb reverse.
Forward(k) ==
  /\ call[k].pc = "forwarding"
  /\ mapping' = [mapping EXCEPT ![call[k].port] = "same"]
  /\ forwardedPorts' = forwardedPorts \union {call[k].port}
  /\ Goes(k, "loading")
  /\ UNCHANGED <<setting, context, before, calm, leaked, faults>>

\* The page is loaded; the browser of a session that is being closed is gone.
Load(k) ==
  /\ call[k].pc = "loading"
  /\ Ends(k, IF session = "open" THEN "ok" ELSE "failed")
  /\ UNCHANGED <<setting, context, usb, calm, faults>>

\* adb fails, or takes too long, which does not say that it has not forwarded the port.
AdbFails(k) ==
  /\ Fault
  /\ \/ call[k].pc = "preparing" /\ UNCHANGED usb
     \/ /\ call[k].pc = "forwarding"
        /\ mapping' \in {mapping, [mapping EXCEPT ![call[k].port] = "same"]}
        /\ leaked' = (leaked \/ mapping' # mapping)
        /\ UNCHANGED <<before, forwardedPorts>>
  /\ Ends(k, "failed")
  /\ UNCHANGED <<setting, context, calm>>

\* BrowserSession.close() deletes the session of the driver first ...
Close ==
  /\ session = "open"
  /\ session' = "closing"
  /\ UNCHANGED <<device, linkable, call, context, usb, calm, faults>>

\* ... and then, whether or not that succeeded, removes the forwardings.  What could not be
\* removed is forgotten with AndroidUsbNetwork; so is what is being set up.
RemoveForwards ==
  /\ session = "closing"
  /\ session' = "closed"
  /\ \E kept \in SUBSET forwardedPorts :
       /\ IF kept = {} THEN UNCHANGED faults ELSE Fault
       /\ mapping' = [p \in Ports |-> IF p \in forwardedPorts \ kept THEN "none" ELSE mapping[p]]
       /\ forwardedPorts' = {}
       /\ leaked' = (leaked \/ kept # {} \/ \E k \in Calls : call[k].pc \in {"preparing", "forwarding"})
  /\ UNCHANGED <<device, linkable, call, context, before, calm>>

Handler(k) ==
  \/ Begin(k) \/ Gone(k)
  \/ /\ session # "closed"
     /\ \/ Gestured(k) \/ Expire(k)
        \/ ReadContext(k) \/ DeepLink(k) \/ ToNative(k) \/ EnterAddress(k) \/ Land(k)
        \/ Confirm(k) \/ Unconfirmed(k) \/ Look(k) \/ RestoreContext(k) \/ NotRestored(k)
        \/ Changed(k) \/ OutOfTime(k) \/ AppiumFails(k)
  \/ Prepare(k) \/ Forward(k) \/ Load(k) \/ AdbFails(k)

Next ==
  \/ \E k \in Calls : Navigate(k) \/ Picture(k) \/ Gesture(k) \/ Handler(k)
  \/ Close \/ RemoveForwards

Spec == Init /\ [][Next]_vars

-------------------------------------------------------------------------------
(* Properties                                                              *)

\* Navigations and pictures of the screen, failed, refused and aborted ones included, leave the
\* session in the context of the page, where its other commands belong; unless two of them
\* overlapped, the request to restore it failed, or the deadline passed right after a deep link
\* was confirmed.
WebContextIsRestored ==
  calm /\ session = "open" /\ (\A k \in Calls : ~Switching(k)) => context = "web"

\* A client that is told that Safari was navigated finds the address there, when the testbench
\* could see which one was shown before.
NavigationIsHonest ==
  \A k \in Calls : call[k].pc = "idle" /\ call[k].answer = "ok" => call[k].there

\* Once the session is closed, the ports of the device are forwarded as they were before it:
\* what it forwarded is removed, what others forwarded is not.
ForwardsEndWithSession ==
  session = "closed" /\ ~leaked => mapping = before
================================================================================
