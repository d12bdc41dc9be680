------------------------- MODULE DeviceCommandsProofs -------------------------
(***************************************************************************)
(* DeviceCommands for any number of requests, ports and failures: the      *)
(* forwardings of a device are, when its session is closed, what they were *)
(* before; the context of the page is restored; and who is told that a     *)
(* navigation succeeded finds it has.                                      *)
(***************************************************************************)
EXTENDS DeviceCommands, TLAPS

\* Until something is lost sight of, the ports are as they were but for those the session
\* forwarded, which were free; a request that is about to forward a port has found it free;
\* and when the session is closed nobody is about to.
Tracked ==
  ~leaked =>
    /\ \A p \in Ports : mapping[p] = IF p \in forwardedPorts THEN "same" ELSE before[p]
    /\ \A p \in forwardedPorts : before[p] = "none"
    /\ \A k \in Calls : call[k].pc = "forwarding" => before[call[k].port] = "none"
    /\ session = "closed" =>
         forwardedPorts = {} /\ \A k \in Calls : call[k].pc \notin {"preparing",
             "forwarding"}

IndInv == TypeOK /\ Tracked

LEMMA IdleTyped ==
  /\ Idle.kind = "gesture" /\ Idle.pc = "idle"
  /\ Idle \in CallStates
<1>1. (CHOOSE p \in Ports : TRUE) \in Ports
  BY DeviceAssumption DEF DeviceAssumption
<1> QED BY <1>1 DEF Idle, CallStates, Kinds, Pcs, Answers, Contexts

LEMMA InitIndInv == Init => IndInv
<1> SUFFICES ASSUME Init
             PROVE  IndInv
  OBVIOUS
<1>1. faults \in 0..MaxFaults
  BY DeviceAssumption DEF DeviceAssumption, Init
<1>2. TypeOK
  <2>1. call \in [Calls -> CallStates]
    BY IdleTyped DEF Init
  <2>2. forwardedPorts \subseteq Ports /\ \A p \in forwardedPorts : leaked \/ mapping[p] = "same"
    BY DEF Init
  <2> QED BY <1>1, <2>1, <2>2 DEF Init, TypeOK, Contexts
<1>3. Tracked
  BY IdleTyped DEF Init, Tracked
<1> QED BY <1>2, <1>3 DEF IndInv

LEMMA FaultCounts ==
  ASSUME TypeOK, Fault
  PROVE  faults' \in 0..MaxFaults
BY DeviceAssumption DEF DeviceAssumption, TypeOK, Fault

\* A request that ends becomes idle.
LEMMA EndsTyped ==
  ASSUME TypeOK, NEW k \in Calls, NEW told \in {"ok", "failed"}, Ends(k, told)
  PROVE  /\ call' \in [Calls -> CallStates]
         /\ call'[k].pc = "idle"
         /\ \A j \in Calls \ {k} : call'[j] = call[j]
<1>1. (call[k].landed \/ ~call[k].known) \in BOOLEAN
  OBVIOUS
<1> DEFINE new == [Idle EXCEPT !.answer = told, !.there = call[k].landed \/ ~call[k].known]
<1>2. new \in CallStates /\ new.pc = "idle"
  BY <1>1, IdleTyped DEF Idle, CallStates, Answers
<1>3. call' = [call EXCEPT ![k] = new]
  BY DEF Ends
<1> HIDE DEF new
<1> QED BY <1>2, <1>3 DEF TypeOK

\* Every handler leaves every request in a state of its type.
LEMMA CallsTyped ==
  ASSUME TypeOK, NEW k \in Calls,
         Navigate(k) \/ Picture(k) \/ Gesture(k) \/ Handler(k)
  PROVE  call' \in [Calls -> CallStates]
<1> DEFINE Typed == call' \in [Calls -> CallStates]
<1>0. call \in [Calls -> CallStates] /\ call[k] \in CallStates
  BY DEF TypeOK
<1> USE DEF CallStates, Kinds, Pcs, Answers, Contexts
<1>1. CASE Navigate(k)
  <2>1. PICK p \in Ports, sameHost \in BOOLEAN, shown \in BOOLEAN :
          call' = [call EXCEPT ![k] = [Idle EXCEPT
                    !.kind = "navigate", !.pc = "issued", !.sameHost = sameHost,
                        !.landed = shown,
                    !.port = IF device = "android" THEN p ELSE @]]
    BY <1>1 DEF Navigate
  <2>2. (IF device = "android" THEN p ELSE Idle.port) \in Ports
    BY IdleTyped
  <2> QED BY <1>0, <2>1, <2>2, IdleTyped
<1>2. CASE Picture(k)
  <2>1. call' = [call EXCEPT ![k] = [Idle EXCEPT !.kind = "picture", !.pc = "issued"]]
    BY <1>2 DEF Picture
  <2>2. [Idle EXCEPT !.kind = "picture", !.pc = "issued"] \in CallStates
    BY IdleTyped
  <2> QED BY <1>0, <2>1, <2>2
<1>3. CASE Gesture(k)
  <2>1. call' = [call EXCEPT ![k] = [Idle EXCEPT !.kind = "gesture", !.pc = "issued"]]
    BY <1>3 DEF Gesture
  <2>2. [Idle EXCEPT !.kind = "gesture", !.pc = "issued"] \in CallStates
    BY IdleTyped
  <2> QED BY <1>0, <2>1, <2>2
<1>4. CASE Begin(k)
  BY <1>0, <1>4, EndsTyped DEF Begin
<1>5. CASE Gone(k)
  BY <1>0, <1>5, EndsTyped DEF Gone
<1>6. CASE Gestured(k)
  BY <1>0, <1>6, EndsTyped DEF Gestured
<1>7. CASE Expire(k)
  BY <1>0, <1>7 DEF Expire
<1>8. CASE ReadContext(k)
  BY <1>0, <1>8 DEF ReadContext, TypeOK
<1>9. CASE DeepLink(k)
  BY <1>0, <1>9 DEF DeepLink, Goes
<1>10. CASE ToNative(k)
  BY <1>0, <1>10 DEF ToNative, Goes
<1>11. CASE EnterAddress(k)
  BY <1>0, <1>11 DEF EnterAddress, Goes
<1>12. CASE Land(k)
  BY <1>0, <1>12 DEF Land
<1>13. CASE Confirm(k)
  BY <1>0, <1>13 DEF Confirm, Goes
<1>14. CASE Unconfirmed(k)
  <2>1. PICK told \in {"fallBack", "failed"} :
          call' = [call EXCEPT ![k].pc = "restoring", ![k].told = told]
    BY <1>14 DEF Unconfirmed
  <2>2. [call[k] EXCEPT !.pc = "restoring", !.told = told] \in CallStates
    BY <1>0, <2>1
  <2>3. call' = [call EXCEPT ![k] = [call[k] EXCEPT !.pc = "restoring", !.told = told]]
    BY <1>0, <2>1
  <2> QED BY <1>0, <2>2, <2>3
<1>15. CASE Look(k)
  BY <1>0, <1>15 DEF Look, Goes
<1>16. CASE RestoreContext(k)
  BY <1>0, <1>16, EndsTyped DEF RestoreContext, Restored, Goes
<1>17. CASE NotRestored(k)
  BY <1>0, <1>17, EndsTyped DEF NotRestored
<1>18. CASE Changed(k)
  BY <1>0, <1>18, EndsTyped DEF Changed
<1>19. CASE OutOfTime(k)
  BY <1>0, <1>19, EndsTyped DEF OutOfTime
<1>20. CASE AppiumFails(k)
  BY <1>0, <1>20, EndsTyped DEF AppiumFails
<1>21. CASE Prepare(k)
  <2>1. mapping[call[k].port] \in {"none", "same", "other"}
    BY <1>0 DEF TypeOK
  <2>2. CASE Ends(k, "failed")
    BY <2>2, EndsTyped
  <2>3. CASE \E pc \in {"loading", "forwarding"} : Goes(k, pc)
    BY <1>0, <2>3 DEF Goes
  <2> QED BY <1>21, <2>1, <2>2, <2>3 DEF Prepare
<1>22. CASE Forward(k)
  BY <1>0, <1>22 DEF Forward, Goes
<1>23. CASE Load(k)
  BY <1>0, <1>23, EndsTyped DEF Load
<1>24. CASE AdbFails(k)
  BY <1>0, <1>24, EndsTyped DEF AdbFails
<1> QED BY <1>1, <1>2, <1>3, <1>4, <1>5, <1>6, <1>7, <1>8, <1>9, <1>10, <1>11, <1>12,
    <1>13, <1>14, <1>15, <1>16, <1>17, <1>18, <1>19, <1>20, <1>21, <1>22, <1>23,
    <1>24 DEF Handler

\* The requests that are neither about to forward a port nor touch the forwardings.
Keeps(k) ==
  /\ \A j \in Calls \ {k} : call'[j] = call[j]
  /\ UNCHANGED <<usb, session>>
  /\ call'[k].pc = "forwarding" => call[k].pc = "forwarding" /\ call'[k].port = call[k].port
  /\ call'[k].pc = "preparing" => call[k].pc = "preparing" \/ session = "open"

\* Such a step changes nothing Tracked speaks about.
LEMMA KeepsTracked ==
  ASSUME IndInv, NEW k \in Calls, Keeps(k)
  PROVE  Tracked'
BY DEF Keeps, Tracked, usb, IndInv, TypeOK

LEMMA HandlersKeep ==
  ASSUME IndInv, NEW k \in Calls,
         Navigate(k) \/ Picture(k) \/ Gesture(k) \/ Handler(k)
  PROVE  Keeps(k) \/ Prepare(k) \/ Forward(k) \/ AdbFails(k)
<1>0. call \in [Calls -> CallStates] /\ TypeOK
  BY DEF IndInv, TypeOK
<1> USE DEF Keeps, setting
<1>1. CASE Navigate(k)
  <2>1. PICK new \in CallStates : new.pc = "issued" /\ call' = [call EXCEPT ![k] = new]
    <3>1. PICK p \in Ports, sameHost \in BOOLEAN, shown \in BOOLEAN :
            call' = [call EXCEPT ![k] = [Idle EXCEPT
                      !.kind = "navigate", !.pc = "issued", !.sameHost = sameHost,
                      !.landed = shown, !.port = IF device = "android" THEN p ELSE @]]
      BY <1>1 DEF Navigate
    <3>2. (IF device = "android" THEN p ELSE Idle.port) \in Ports
      BY IdleTyped DEF CallStates
    <3>3. [Idle EXCEPT !.kind = "navigate", !.pc = "issued", !.sameHost = sameHost,
             !.landed = shown, !.port = IF device = "android" THEN p ELSE @] \in CallStates
      BY <3>2, IdleTyped DEF CallStates, Kinds, Pcs
    <3> QED BY <3>1, <3>3, IdleTyped DEF CallStates
  <2> QED BY <1>0, <1>1, <2>1 DEF Navigate
<1>2. CASE Picture(k)
  BY <1>0, <1>2, IdleTyped DEF Picture
<1>3. CASE Gesture(k)
  BY <1>0, <1>3, IdleTyped DEF Gesture
<1>4. CASE Begin(k)
  <2>1. CASE Ends(k, "failed")
    BY <1>0, <1>4, <2>1, EndsTyped DEF Begin
  <2>2. CASE session = "open"
    BY <1>0, <1>4, <2>2 DEF Begin, CallStates
  <2> QED BY <1>4, <2>1, <2>2 DEF Begin
<1>5. CASE Gone(k)
  BY <1>0, <1>5, EndsTyped DEF Gone
<1>6. CASE Gestured(k)
  BY <1>0, <1>6, EndsTyped DEF Gestured
<1>7. CASE Expire(k)
  BY <1>0, <1>7 DEF Expire, CallStates
<1>8. CASE ReadContext(k)
  BY <1>0, <1>8 DEF ReadContext
<1>9. CASE DeepLink(k)
  BY <1>0, <1>9 DEF DeepLink, Goes, CallStates
<1>10. CASE ToNative(k)
  BY <1>0, <1>10 DEF ToNative, Goes
<1>11. CASE EnterAddress(k)
  BY <1>0, <1>11 DEF EnterAddress, Goes
<1>12. CASE Land(k)
  BY <1>0, <1>12 DEF Land
<1>13. CASE Confirm(k)
  BY <1>0, <1>13 DEF Confirm, Goes
<1>14. CASE Unconfirmed(k)
  BY <1>0, <1>14 DEF Unconfirmed
<1>15. CASE Look(k)
  BY <1>0, <1>15 DEF Look, Goes
<1>16. CASE RestoreContext(k)
  <2>1. call[k].told \in {"ok", "fallBack", "failed"} /\ call[k] \in CallStates
    BY <1>0 DEF CallStates
  <2>2. CASE call[k].told # "fallBack" /\ Ends(k, call[k].told)
    BY <1>0, <1>16, <2>1, <2>2, EndsTyped DEF RestoreContext
  <2>3. CASE ~(call[k].told # "fallBack" /\ Ends(k, call[k].told))
    BY <1>0, <1>16, <2>1, <2>3 DEF RestoreContext, Restored, Goes, CallStates
  <2> QED BY <2>2, <2>3
<1>17. CASE NotRestored(k)
  BY <1>0, <1>17, EndsTyped DEF NotRestored
<1>18. CASE Changed(k)
  BY <1>0, <1>18, EndsTyped DEF Changed
<1>19. CASE OutOfTime(k)
  <2>1. CASE Ends(k, "failed")
    BY <1>0, <1>19, <2>1, EndsTyped DEF OutOfTime
  <2>2. CASE ~Ends(k, "failed")
    BY <1>0, <1>19, <2>2 DEF OutOfTime, CallStates
  <2> QED BY <2>1, <2>2
<1>20. CASE AppiumFails(k)
  <2>1. CASE Ends(k, "failed")
    BY <1>0, <1>20, <2>1, EndsTyped DEF AppiumFails
  <2>2. CASE ~Ends(k, "failed")
    BY <1>0, <1>20, <2>2 DEF AppiumFails, CallStates
  <2> QED BY <2>1, <2>2
<1>21. CASE Load(k)
  BY <1>0, <1>21, EndsTyped DEF Load
<1> QED BY <1>1, <1>2, <1>3, <1>4, <1>5, <1>6, <1>7, <1>8, <1>9, <1>10, <1>11, <1>12,
    <1>13, <1>14, <1>15, <1>16, <1>17, <1>18, <1>19, <1>20, <1>21 DEF Handler

LEMMA TypeStep ==
  ASSUME TypeOK, Next
  PROVE  TypeOK'
<1> USE FaultCounts DEF Contexts, setting, usb
<1>1. ASSUME NEW k \in Calls, Navigate(k) \/ Picture(k) \/ Gesture(k)
      PROVE  TypeOK'
  <2>1. call' \in [Calls -> CallStates]
    BY <1>1, CallsTyped
  <2> QED BY <1>1, <2>1 DEF TypeOK, Navigate, Picture, Gesture
<1>2. ASSUME NEW k \in Calls, Handler(k)
      PROVE  TypeOK'
  <2>1. call' \in [Calls -> CallStates]
    BY <1>2, CallsTyped
  <2>2. call[k].port \in Ports /\ call[k].original \in Contexts
    BY DEF TypeOK, CallStates
  <2>3. /\ device' \in {"android", "iphone"} /\ linkable' \in BOOLEAN
        /\ session' \in {"open", "closing", "closed"}
        /\ calm' \in BOOLEAN
        /\ context' \in Contexts
    BY <1>2, <2>2 DEF TypeOK, Handler, Begin, Gone, Gestured, Expire, ReadContext, DeepLink,
       ToNative, EnterAddress, Land, Confirm, Unconfirmed, Look, RestoreContext,
           NotRestored,
       Changed, OutOfTime, AppiumFails, Prepare, Forward, Load, AdbFails
  <2>4. faults' \in 0..MaxFaults
    BY <1>2 DEF TypeOK, Handler, Begin, Gone, Gestured, Expire, ReadContext, DeepLink,
       ToNative, EnterAddress, Land, Confirm, Unconfirmed, Look, RestoreContext,
           NotRestored,
       Changed, OutOfTime, AppiumFails, Prepare, Forward, Load, AdbFails
  <2>5. /\ mapping' \in [Ports -> {"none", "same", "other"}]
        /\ before' \in [Ports -> {"none", "same", "other"}]
        /\ forwardedPorts' \subseteq Ports
        /\ \A p \in forwardedPorts' : leaked' \/ mapping'[p] = "same"
        /\ leaked' \in BOOLEAN
    <3>1. CASE Forward(k)
      BY <3>1, <2>2 DEF TypeOK, Forward
    <3>2. CASE AdbFails(k)
      <4>1. CASE UNCHANGED usb
        BY <4>1 DEF TypeOK
      <4>2. CASE ~UNCHANGED usb
        BY <3>2, <4>2, <2>2 DEF TypeOK, AdbFails
      <4> QED BY <4>1, <4>2
    <3>3. CASE UNCHANGED usb
      BY <3>3 DEF TypeOK
    <3> QED BY <1>2, <3>1, <3>2, <3>3 DEF Handler, Begin, Gone, Gestured, Expire,
        ReadContext,
           DeepLink, ToNative, EnterAddress, Land, Confirm, Unconfirmed, Look,
               RestoreContext,
           NotRestored, Changed, OutOfTime, AppiumFails, Prepare, Load
  <2> QED BY <2>1, <2>3, <2>4, <2>5 DEF TypeOK
<1>3. CASE Close
  BY <1>3 DEF TypeOK, Close
<1>4. CASE RemoveForwards
  BY <1>4 DEF TypeOK, RemoveForwards
<1> QED BY <1>1, <1>2, <1>3, <1>4 DEF Next

LEMMA TrackedStep ==
  ASSUME IndInv, Next
  PROVE  Tracked'
<1> USE DEF IndInv
<1>0. TypeOK /\ \A k \in Calls : call[k].port \in Ports
  BY DEF TypeOK, CallStates
<1>1. ASSUME NEW k \in Calls, Prepare(k)
      PROVE  Tracked'
  <2>1. mapping[call[k].port] \in {"none", "same", "other"}
    BY <1>0 DEF TypeOK
  <2>2. CASE Ends(k, "failed")
    BY <1>0, <1>1, <2>2, EndsTyped DEF Prepare, Tracked, usb, setting
  <2>3. CASE Goes(k, "loading")
    BY <1>0, <1>1, <2>3 DEF Goes, Prepare, Tracked, usb, setting, TypeOK, CallStates
  <2>4. CASE Goes(k, "forwarding")
    <3>1. call[k].port \notin forwardedPorts /\ mapping[call[k].port] = "none"
      <4>1. call'[k].pc = "forwarding"
        BY <1>0, <2>4 DEF Goes, TypeOK, CallStates
      <4>2. ~Goes(k, "loading")
        BY <1>0, <4>1 DEF Goes, TypeOK, CallStates
      <4>3. ~Ends(k, "failed")
        BY <1>0, <4>1, EndsTyped
      <4> QED BY <1>1, <2>1, <4>2, <4>3 DEF Prepare
    <3>2. ~leaked => before[call[k].port] = "none"
      BY <1>0, <3>1 DEF Tracked
    <3> QED BY <1>0, <1>1, <2>4, <3>2 DEF Goes, Prepare, Tracked, usb, setting, TypeOK
  <2> QED BY <1>1, <2>1, <2>2, <2>3, <2>4 DEF Prepare
<1>2. ASSUME NEW k \in Calls, Forward(k)
      PROVE  Tracked'
  BY <1>0, <1>2 DEF Forward, Goes, Tracked, setting, TypeOK, CallStates
<1>3. ASSUME NEW k \in Calls, AdbFails(k)
      PROVE  Tracked'
  <2>1. /\ call'[k].pc = "idle" /\ \A j \in Calls \ {k} : call'[j] = call[j]
        /\ UNCHANGED <<before, forwardedPorts, session>>
        /\ leaked' \/ (~leaked /\ UNCHANGED mapping) \/ leaked
    BY <1>0, <1>3, EndsTyped DEF AdbFails, usb, setting
  <2>2. leaked => leaked'
    BY <1>3 DEF AdbFails, usb
  <2> QED BY <1>0, <2>1, <2>2 DEF Tracked, TypeOK
<1>4. CASE Close
  BY <1>4 DEF Close, Tracked, usb
<1>5. CASE RemoveForwards
  <2>1. PICK kept \in SUBSET forwardedPorts :
          /\ mapping' = [p \in Ports |-> IF p \in forwardedPorts \ kept THEN "none" ELSE mapping[p]]
          /\ leaked' = (leaked \/ kept # {}
                          \/ \E k \in Calls : call[k].pc \in {"preparing", "forwarding"})
    BY <1>5 DEF RemoveForwards
  <2>2. forwardedPorts' = {} /\ UNCHANGED <<before, call>>
    BY <1>5 DEF RemoveForwards
  <2>3. ASSUME ~leaked'
        PROVE  /\ ~leaked /\ kept = {}
               /\ \A k \in Calls : call[k].pc \notin {"preparing", "forwarding"}
    <3>1. ~leaked /\ ~(kept # {})
      BY <2>1, <2>3, Zenon
    <3>2. ~\E k \in Calls : call[k].pc \in {"preparing", "forwarding"}
      BY <2>1, <2>3, Zenon
    <3> QED BY <3>1, <3>2
  <2>4. ASSUME ~leaked', NEW p \in Ports
        PROVE  mapping'[p] = before[p]
    BY <2>1, <2>3, <2>4 DEF Tracked
  <2> QED BY <2>2, <2>3, <2>4 DEF Tracked
<1> QED BY <1>1, <1>2, <1>3, <1>4, <1>5, HandlersKeep, KeepsTracked DEF Next

LEMMA StepIndInv == IndInv /\ [Next]_vars => IndInv'
<1> SUFFICES ASSUME IndInv, [Next]_vars
             PROVE  IndInv'
  OBVIOUS
<1>1. CASE Next
  BY <1>1, TypeStep, TrackedStep DEF IndInv
<1>2. CASE UNCHANGED vars
  BY <1>2 DEF vars, IndInv, TypeOK, Tracked
<1> QED BY <1>1, <1>2

LEMMA Inductive == Spec => []IndInv
BY InitIndInv, StepIndInv, PTL DEF Spec

\* The state of requests, contexts and forwardings keeps its types.
THEOREM TypeCorrect == Spec => []TypeOK
<1>1. IndInv => TypeOK
  BY DEF IndInv
<1> QED BY <1>1, Inductive, PTL

\* However many requests forward ports at the same time, the session gives back exactly what
\* it took.
THEOREM ForwardsRemoved == Spec => []ForwardsEndWithSession
<1>1. IndInv => ForwardsEndWithSession
  BY DEF IndInv, TypeOK, Tracked, ForwardsEndWithSession
<1> QED BY <1>1, Inductive, PTL

-------------------------------------------------------------------------------
(* Navigations and pictures.                                               *)

\* What a request knows at each of its stages: which address was shown is known to navigations
\* of an iPhone only, and the address asked for has landed, or is of the host that was there
\* before, once it was confirmed.
Truthful(c) ==
  /\ c.pc = "idle" /\ c.answer = "ok" => c.there
  /\ c.known => /\ c.kind = "navigate"
                /\ c.pc \notin {"issued", "gesturing", "preparing", "forwarding", "loading"}
  /\ c.pc = "looking" => c.kind = "picture"
  /\ c.kind = "navigate" /\ c.pc = "restoring" /\ c.told = "ok" => c.landed \/ c.sameHost
  /\ c.pc = "changing" => c.landed \/ c.sameHost

AllTruthful == \A k \in Calls : Truthful(call[k])

\* While nothing disturbs them, switches do not overlap; each will go back to the page, which it
\* has not left before it asks for the native context.
SwitchesAlone ==
  calm /\ session # "closed" =>
    /\ \A j, k \in Calls : Switching(j) /\ Switching(k) => j = k
    /\ \A k \in Calls : Switching(k) => call[k].original = "web"
    /\ \A k \in Calls : call[k].pc \in {"linking", "toNative"} => context = "web"
    /\ (\A k \in Calls : ~Switching(k)) => context = "web"

\* What is left of a request that has ended.
LEMMA EndsKnown ==
  ASSUME TypeOK, NEW k \in Calls, NEW told \in {"ok", "failed"}, Ends(k, told)
  PROVE  /\ call'[k].pc = "idle" /\ call'[k].answer = told /\ call'[k].kind = "gesture"
         /\ ~call'[k].known
         /\ call'[k].there = (call[k].landed \/ ~call[k].known)
         /\ \A j \in Calls \ {k} : call'[j] = call[j]
<1> DEFINE new == [Idle EXCEPT !.answer = told, !.there = call[k].landed \/ ~call[k].known]
<1>1. call' = [call EXCEPT ![k] = new]
  BY DEF Ends
<1>2. call'[k] = new /\ \A j \in Calls \ {k} : call'[j] = call[j]
  BY <1>1 DEF TypeOK
<1>3. /\ new.pc = "idle" /\ new.answer = told /\ new.kind = "gesture" /\ ~new.known
      /\ new.there = (call[k].landed \/ ~call[k].known)
  BY DEF Idle
<1> QED BY <1>2, <1>3

\* Whatever a request does, it stays truthful and touches no other.
LEMMA TruthfulStep ==
  ASSUME TypeOK, AllTruthful, NEW k \in Calls,
         Navigate(k) \/ Picture(k) \/ Gesture(k) \/ Handler(k)
  PROVE  AllTruthful'
<1> SUFFICES Truthful(call'[k]) /\ \A j \in Calls \ {k} : call'[j] = call[j]
  BY DEF AllTruthful
<1> DEFINE Goal == Truthful(call'[k]) /\ \A j \in Calls \ {k} : call'[j] = call[j]
<1>0. call \in [Calls -> CallStates] /\ call[k] \in CallStates /\ Truthful(call[k])
  BY DEF TypeOK, AllTruthful
<1>ends. ASSUME NEW told \in {"ok", "failed"}, Ends(k, told),
                told = "ok" => call[k].landed \/ ~call[k].known
         PROVE  Goal
  BY <1>ends, EndsKnown DEF Truthful
<1> SUFFICES Goal
  OBVIOUS
<1> HIDE DEF Goal
<1>asked. ASSUME NEW new, call' = [call EXCEPT ![k] = new], new.pc = "issued", ~new.known
          PROVE  Goal
  BY <1>0, <1>asked DEF Truthful, Goal
<1>1. CASE Navigate(k)
  <2>1. PICK p \in Ports, sameHost \in BOOLEAN, shown \in BOOLEAN :
          call' = [call EXCEPT ![k] = [Idle EXCEPT
                    !.kind = "navigate", !.pc = "issued", !.sameHost = sameHost,
                    !.landed = shown, !.port = IF device = "android" THEN p ELSE @]]
    BY <1>1 DEF Navigate
  <2> DEFINE new == [Idle EXCEPT
                    !.kind = "navigate", !.pc = "issued", !.sameHost = sameHost,
                    !.landed = shown, !.port = IF device = "android" THEN p ELSE @]
  <2>2. new.pc = "issued" /\ ~new.known
    BY DEF Idle
  <2> QED BY <1>asked, <2>1, <2>2
<1>2. CASE Picture(k)
  <2> DEFINE new == [Idle EXCEPT !.kind = "picture", !.pc = "issued"]
  <2>1. call' = [call EXCEPT ![k] = new] /\ new.pc = "issued" /\ ~new.known
    BY <1>2 DEF Picture, Idle
  <2> QED BY <1>asked, <2>1
<1>3. CASE Gesture(k)
  <2> DEFINE new == [Idle EXCEPT !.kind = "gesture", !.pc = "issued"]
  <2>1. call' = [call EXCEPT ![k] = new] /\ new.pc = "issued" /\ ~new.known
    BY <1>3 DEF Gesture, Idle
  <2> QED BY <1>asked, <2>1
<1> USE <1>0 DEF Truthful, CallStates
<1>4. CASE Begin(k)
  <2>1. CASE Ends(k, "failed")
    BY <1>ends, <2>1
  <2>2. CASE ~Ends(k, "failed")
    BY <1>4, <2>2 DEF Begin, Goal
  <2> QED BY <2>1, <2>2
<1>5. CASE Gone(k)
  BY <1>5, <1>ends DEF Gone
<1>6. CASE Gestured(k)
  BY <1>6, <1>ends DEF Gestured
<1>7. CASE Expire(k)
  BY <1>7 DEF Expire, Goal
<1>8. CASE ReadContext(k)
  BY <1>8 DEF ReadContext, Goal
<1>9. CASE DeepLink(k)
  BY <1>9 DEF DeepLink, Goes, Goal
<1>10. CASE ToNative(k)
  BY <1>10 DEF ToNative, Goes, Goal
<1>11. CASE EnterAddress(k)
  BY <1>11 DEF EnterAddress, Goes, Goal
<1>12. CASE Land(k)
  BY <1>12 DEF Land, Goal
<1>13. CASE Confirm(k)
  BY <1>13 DEF Confirm, Goes, Goal
<1>14. CASE Unconfirmed(k)
  BY <1>14 DEF Unconfirmed, Goal
<1>15. CASE Look(k)
  BY <1>15 DEF Look, Goes, Goal
<1>16. CASE RestoreContext(k)
  <2>1. call[k].told \in {"ok", "fallBack", "failed"}
    OBVIOUS
  <2>2. CASE call[k].told # "fallBack" /\ Ends(k, call[k].told)
    <3>1. CASE call[k].kind = "navigate" /\ call[k].told = "ok"
      <4>1. Goes(k, "changing")
        BY <1>16, <3>1 DEF RestoreContext, Restored
      <4>2. call'[k].pc = "changing"
        BY <4>1 DEF Goes
      <4> QED BY <2>1, <2>2, <4>2, EndsKnown
    <3>2. CASE ~(call[k].kind = "navigate" /\ call[k].told = "ok")
      BY <1>ends, <2>1, <2>2, <3>2
    <3> QED BY <3>1, <3>2
  <2>3. CASE ~(call[k].told # "fallBack" /\ Ends(k, call[k].told))
    BY <1>16, <2>1, <2>3 DEF RestoreContext, Restored, Goes, Goal
  <2> QED BY <2>2, <2>3
<1>17. CASE NotRestored(k)
  BY <1>17, <1>ends DEF NotRestored
<1>18. CASE Changed(k)
  BY <1>18, <1>ends DEF Changed
<1>19. CASE OutOfTime(k)
  <2>1. CASE Ends(k, "failed")
    BY <1>ends, <2>1
  <2>2. CASE ~Ends(k, "failed")
    BY <1>19, <2>2 DEF OutOfTime, Goal
  <2> QED BY <2>1, <2>2
<1>20. CASE AppiumFails(k)
  <2>1. CASE Ends(k, "failed")
    BY <1>ends, <2>1
  <2>2. CASE ~Ends(k, "failed")
    BY <1>20, <2>2 DEF AppiumFails, Goal
  <2> QED BY <2>1, <2>2
<1>21. CASE Prepare(k)
  <2>1. CASE Ends(k, "failed")
    BY <1>ends, <2>1
  <2>2. CASE \E pc \in {"loading", "forwarding"} : Goes(k, pc)
    BY <1>21, <2>2 DEF Goes, Prepare, Goal
  <2>3. mapping[call[k].port] \in {"none", "same", "other"}
    BY DEF TypeOK
  <2> QED BY <1>21, <2>1, <2>2, <2>3 DEF Prepare
<1>22. CASE Forward(k)
  BY <1>22 DEF Forward, Goes, Goal
<1>23. CASE Load(k)
  BY <1>23, <1>ends DEF Load
<1>24. CASE AdbFails(k)
  BY <1>24, <1>ends DEF AdbFails
<1> QED BY <1>1, <1>2, <1>3, <1>4, <1>5, <1>6, <1>7, <1>8, <1>9, <1>10, <1>11, <1>12,
    <1>13, <1>14, <1>15, <1>16, <1>17, <1>18, <1>19, <1>20, <1>21, <1>22, <1>23,
    <1>24 DEF Handler, Goal

\* A request that neither switches nor touches the context leaves the others' switching alone.
Apart(k) ==
  /\ \A j \in Calls \ {k} : call'[j] = call[j]
  /\ ~Switching(k) /\ ~Switching(k)'
  /\ UNCHANGED <<context, calm, session>>

\* One that switches goes on with the same context to restore, in the same context if it is
\* not in the native one yet.
GoesOn(k) ==
  /\ \A j \in Calls \ {k} : call'[j] = call[j]
  /\ Switching(k) /\ Switching(k)'
  /\ call'[k].original = call[k].original
  /\ call'[k].pc \in {"linking", "toNative"} =>
       call[k].pc \in {"linking", "toNative"} /\ context' = context
  /\ UNCHANGED <<calm, session>>

\* One that ends its switch leaves the context of the page, or disturbs.
Leaves(k) ==
  /\ \A j \in Calls \ {k} : call'[j] = call[j]
  /\ Switching(k) /\ ~Switching(k)'
  /\ calm' => calm /\ \/ context' = call[k].original
                      \/ call[k].pc \in {"linking", "toNative"} /\ context' = context
  /\ UNCHANGED session

LEMMA SwitchKept ==
  ASSUME TypeOK, SwitchesAlone, NEW k \in Calls, Apart(k) \/ GoesOn(k) \/ Leaves(k)
  PROVE  SwitchesAlone'
<1>1. CASE Apart(k)
  BY <1>1 DEF Apart, SwitchesAlone, Switching
<1>2. CASE GoesOn(k)
  <2> SUFFICES ASSUME calm, session # "closed"
               PROVE  SwitchesAlone'
    BY <1>2 DEF GoesOn, SwitchesAlone
  <2>1. \A j \in Calls \ {k} : ~Switching(j) /\ ~Switching(j)'
    BY <1>2 DEF GoesOn, SwitchesAlone, Switching
  <2>2. call'[k].original = "web"
    BY <1>2 DEF GoesOn, SwitchesAlone
  <2>3. call'[k].pc \in {"linking", "toNative"} => context' = "web"
    BY <1>2 DEF GoesOn, SwitchesAlone
  <2> QED BY <1>2, <2>1, <2>2, <2>3 DEF GoesOn, SwitchesAlone, Switching
<1>3. CASE Leaves(k)
  <2> SUFFICES ASSUME calm', session # "closed"
               PROVE  SwitchesAlone'
    BY <1>3 DEF Leaves, SwitchesAlone
  <2>1. \A j \in Calls \ {k} : ~Switching(j) /\ ~Switching(j)'
    BY <1>3 DEF Leaves, SwitchesAlone, Switching
  <2>2. context' = "web"
    BY <1>3 DEF Leaves, SwitchesAlone
  <2> QED BY <1>3, <2>1, <2>2 DEF Leaves, SwitchesAlone, Switching
<1> QED BY <1>1, <1>2, <1>3

\* The request reads the context: either it is the page's, and nobody else switches, or the
\* calm is over.
LEMMA ReadContextKept ==
  ASSUME TypeOK, SwitchesAlone, NEW k \in Calls, ReadContext(k), session # "closed"
  PROVE  SwitchesAlone'
<1>0. call \in [Calls -> CallStates]
  BY DEF TypeOK
<1> SUFFICES ASSUME calm'
             PROVE  SwitchesAlone'
  BY DEF SwitchesAlone
<1>1. /\ \A j \in Calls \ {k} : call'[j] = call[j]
      /\ call'[k].original = context
      /\ context' = context
  BY <1>0 DEF ReadContext, CallStates
<1>2. calm /\ \A j \in Calls \ {k} : ~Switching(j) /\ ~Switching(j)'
  BY <1>1 DEF ReadContext, Switching
<1>3. ~Switching(k)
  BY DEF ReadContext, Switching
<1>4. context = "web"
  BY <1>2, <1>3 DEF SwitchesAlone
<1> QED BY <1>1, <1>2, <1>4 DEF SwitchesAlone, Switching

\* All the other handlers are of one of the three kinds.
LEMMA HandlersSwitch ==
  ASSUME TypeOK, SwitchesAlone, session # "closed", NEW k \in Calls,
         Navigate(k) \/ Picture(k) \/ Gesture(k) \/ Handler(k)
  PROVE  Apart(k) \/ GoesOn(k) \/ Leaves(k) \/ ReadContext(k)
<1>0. call \in [Calls -> CallStates] /\ call[k] \in CallStates
  BY DEF TypeOK
<1>ends. ASSUME NEW told \in {"ok", "failed"}, Ends(k, told)
         PROVE  ~Switching(k)' /\ \A j \in Calls \ {k} : call'[j] = call[j]
  BY <1>ends, EndsTyped DEF Switching
<1>asked. ASSUME NEW new, call' = [call EXCEPT ![k] = new], new.pc = "issued",
                 call[k].pc = "idle", UNCHANGED <<context, calm, session>>
          PROVE  Apart(k)
  BY <1>0, <1>asked DEF Apart, Switching
<1>1. CASE Navigate(k)
  <2>1. PICK p \in Ports, sameHost \in BOOLEAN, shown \in BOOLEAN :
          call' = [call EXCEPT ![k] = [Idle EXCEPT
                    !.kind = "navigate", !.pc = "issued", !.sameHost = sameHost,
                    !.landed = shown, !.port = IF device = "android" THEN p ELSE @]]
    BY <1>1 DEF Navigate
  <2> DEFINE new == [Idle EXCEPT
                    !.kind = "navigate", !.pc = "issued", !.sameHost = sameHost,
                    !.landed = shown, !.port = IF device = "android" THEN p ELSE @]
  <2>2. new.pc = "issued"
    BY DEF Idle
  <2>3. call[k].pc = "idle" /\ UNCHANGED <<context, calm, session>>
    BY <1>1 DEF Navigate, setting
  <2> QED BY <1>asked, <2>1, <2>2, <2>3
<1>2. CASE Picture(k)
  <2> DEFINE new == [Idle EXCEPT !.kind = "picture", !.pc = "issued"]
  <2>1. call' = [call EXCEPT ![k] = new] /\ new.pc = "issued"
    BY <1>2 DEF Picture, Idle
  <2>2. call[k].pc = "idle" /\ UNCHANGED <<context, calm, session>>
    BY <1>2 DEF Picture, setting
  <2> QED BY <1>asked, <2>1, <2>2
<1>3. CASE Gesture(k)
  <2> DEFINE new == [Idle EXCEPT !.kind = "gesture", !.pc = "issued"]
  <2>1. call' = [call EXCEPT ![k] = new] /\ new.pc = "issued"
    BY <1>3 DEF Gesture, Idle
  <2>2. call[k].pc = "idle" /\ UNCHANGED <<context, calm, session>>
    BY <1>3 DEF Gesture, setting
  <2> QED BY <1>asked, <2>1, <2>2
<1> USE <1>0 DEF CallStates, setting
<1>4. CASE Begin(k)
  <2>1. CASE Ends(k, "failed")
    BY <1>4, <1>ends, <2>1 DEF Begin, Apart, Switching
  <2>2. CASE ~Ends(k, "failed")
    BY <1>4, <2>2 DEF Begin, Apart, Switching
  <2> QED BY <2>1, <2>2
<1>6. CASE Gestured(k)
  BY <1>6, <1>ends DEF Gestured, Apart, Switching
<1>7. CASE Expire(k)
  BY <1>7 DEF Expire, Apart, GoesOn, Switching
<1>9. CASE DeepLink(k)
  <2>1. CASE Goes(k, "toNative")
    BY <1>9, <2>1 DEF DeepLink, Goes, GoesOn, Switching
  <2>2. CASE ~Goes(k, "toNative")
    BY <1>9, <2>2 DEF DeepLink, Leaves, Switching
  <2> QED BY <2>1, <2>2
<1>10. CASE ToNative(k)
  BY <1>10 DEF ToNative, Goes, GoesOn, Switching
<1>11. CASE EnterAddress(k)
  BY <1>11 DEF EnterAddress, Goes, GoesOn, Switching
<1>12. CASE Land(k)
  BY <1>12 DEF Land, Apart, GoesOn, Switching
<1>13. CASE Confirm(k)
  BY <1>13 DEF Confirm, Goes, GoesOn, Switching
<1>14. CASE Unconfirmed(k)
  BY <1>14 DEF Unconfirmed, GoesOn, Switching
<1>15. CASE Look(k)
  BY <1>15 DEF Look, Goes, GoesOn, Switching
<1>16. CASE RestoreContext(k)
  <2>1. /\ Switching(k) /\ UNCHANGED <<calm, session>>
        /\ calm => call[k].original = "web"
    BY <1>16 DEF RestoreContext, Switching, SwitchesAlone
  <2>2. calm => context' = call[k].original
    BY <1>16, <2>1 DEF RestoreContext
  <2>3. ~Switching(k)' /\ \A j \in Calls \ {k} : call'[j] = call[j]
    <3>1. CASE call[k].told # "fallBack" /\ Ends(k, call[k].told)
      BY <3>1, <1>ends
    <3>2. CASE ~(call[k].told # "fallBack" /\ Ends(k, call[k].told))
      BY <1>16, <3>2 DEF RestoreContext, Restored, Goes, Switching
    <3> QED BY <3>1, <3>2
  <2> QED BY <2>1, <2>2, <2>3 DEF Leaves
<1>17. CASE NotRestored(k)
  BY <1>17, <1>ends DEF NotRestored, Leaves, Switching
<1>18. CASE Changed(k)
  BY <1>18, <1>ends DEF Changed, Apart, Switching
<1>19. CASE OutOfTime(k)
  <2>1. CASE Ends(k, "failed")
    <3>1. call[k].pc # "typing"
      BY <1>19, <2>1, EndsTyped DEF OutOfTime
    <3> QED BY <1>19, <1>ends, <2>1, <3>1 DEF OutOfTime, Apart, Leaves, Switching
  <2>2. CASE ~Ends(k, "failed")
    BY <1>19, <2>2 DEF OutOfTime, GoesOn, Switching
  <2> QED BY <2>1, <2>2
<1>20. CASE AppiumFails(k)
  <2>1. CASE Ends(k, "failed")
    <3>1. call'[k].pc # "restoring"
      BY <2>1, EndsTyped
    <3>2. CASE call[k].pc \in {"reading", "changing"}
      BY <1>20, <1>ends, <2>1, <3>2 DEF AppiumFails, Apart, Switching
    <3>3. CASE call[k].pc \in {"linking", "toNative", "restoring"}
      <4>1. /\ UNCHANGED session
            /\ calm' => calm /\ call[k].pc # "restoring" /\ context' = context
        <5>1. CASE call[k].pc = "linking"
          BY <1>20, <5>1 DEF AppiumFails, setting
        <5>2. CASE call[k].pc = "toNative"
          <6>1. ~(call' = [call EXCEPT ![k].pc = "restoring", ![k].told = "failed"])
            BY <1>0, <3>1
          <6> QED BY <1>20, <5>2, <6>1 DEF AppiumFails, setting
        <5>3. CASE call[k].pc = "restoring"
          BY <1>20, <5>3 DEF AppiumFails, setting
        <5> QED BY <3>3, <5>1, <5>2, <5>3
      <4>2. \A j \in Calls \ {k} : call'[j] = call[j]
        BY <1>ends, <2>1
      <4>3. Switching(k) /\ ~Switching(k)'
        BY <1>ends, <2>1, <3>3 DEF Switching
      <4>4. Leaves(k)
        BY <4>1, <4>2, <4>3, <3>3 DEF Leaves
      <4> QED BY <4>4
    <3> QED BY <1>20, <3>1, <3>2, <3>3 DEF AppiumFails
  <2>2. CASE ~Ends(k, "failed")
    BY <1>20, <2>2 DEF AppiumFails, GoesOn, Switching
  <2> QED BY <2>1, <2>2
<1>21. CASE Prepare(k)
  <2>1. CASE Ends(k, "failed")
    BY <1>21, <1>ends, <2>1 DEF Prepare, Apart, Switching
  <2>2. CASE \E pc \in {"loading", "forwarding"} : Goes(k, pc)
    BY <1>21, <2>2 DEF Goes, Prepare, Apart, Switching
  <2>3. mapping[call[k].port] \in {"none", "same", "other"}
    BY DEF TypeOK
  <2> QED BY <1>21, <2>1, <2>2, <2>3 DEF Prepare
<1>22. CASE Forward(k)
  BY <1>22 DEF Forward, Goes, Apart, Switching
<1>23. CASE Load(k)
  BY <1>23, <1>ends DEF Load, Apart, Switching
<1>24. CASE AdbFails(k)
  BY <1>24, <1>ends DEF AdbFails, Apart, Switching
<1> QED BY <1>1, <1>2, <1>3, <1>4, <1>6, <1>7, <1>9, <1>10, <1>11, <1>12, <1>13, <1>14,
    <1>15, <1>16, <1>17, <1>18, <1>19, <1>20, <1>21, <1>22, <1>23, <1>24 DEF Handler, Gone

\* What a request does leaves the session's state alone.
LEMMA SessionStays ==
  ASSUME NEW k \in Calls, Navigate(k) \/ Picture(k) \/ Gesture(k) \/ Handler(k)
  PROVE  session' = session
BY DEF setting, Navigate, Picture, Gesture, Handler, Begin, Gone, Gestured, Expire,
   ReadContext, DeepLink, ToNative, EnterAddress, Land, Confirm, Unconfirmed, Look,
   RestoreContext, NotRestored, Changed, OutOfTime, AppiumFails, Prepare, Forward, Load, AdbFails

LEMMA RequestsStep ==
  ASSUME TypeOK, AllTruthful, SwitchesAlone, [Next]_vars
  PROVE  AllTruthful' /\ SwitchesAlone'
<1>1. ASSUME NEW k \in Calls, Navigate(k) \/ Picture(k) \/ Gesture(k) \/ Handler(k)
      PROVE  AllTruthful' /\ SwitchesAlone'
  <2>1. AllTruthful'
    BY <1>1, TruthfulStep
  <2>2. CASE session = "closed"
    BY <1>1, <2>1, <2>2, SessionStays DEF SwitchesAlone
  <2>3. CASE session # "closed"
    BY <1>1, <2>1, <2>3, HandlersSwitch, SwitchKept, ReadContextKept
  <2> QED BY <2>2, <2>3
<1>2. CASE Close
  BY <1>2 DEF Close, AllTruthful, SwitchesAlone, Switching
<1>3. CASE RemoveForwards
  BY <1>3 DEF RemoveForwards, AllTruthful, SwitchesAlone
<1>4. CASE UNCHANGED vars
  BY <1>4 DEF vars, AllTruthful, SwitchesAlone, Switching
<1> QED BY <1>1, <1>2, <1>3, <1>4 DEF Next

LEMMA Requests == Spec => [](AllTruthful /\ SwitchesAlone)
<1>1. Init => AllTruthful /\ SwitchesAlone
  BY DEF Init, Idle, AllTruthful, Truthful, SwitchesAlone, Switching
<1>2. IndInv /\ AllTruthful /\ SwitchesAlone /\ [Next]_vars => (AllTruthful /\ SwitchesAlone)'
  BY RequestsStep DEF IndInv
<1> QED BY <1>1, <1>2, Inductive, PTL DEF Spec

\* However many navigations and pictures follow each other and fail, they leave the context of
\* the page behind unless they overlapped or could not restore it.
THEOREM ContextRestored == Spec => []WebContextIsRestored
<1>1. SwitchesAlone => WebContextIsRestored
  BY DEF SwitchesAlone, WebContextIsRestored
<1> QED BY <1>1, Requests, PTL

\* Whatever overlaps it, a navigation that succeeds has landed, where that can be seen.
THEOREM HonestNavigation == Spec => []NavigationIsHonest
<1>1. AllTruthful => NavigationIsHonest
  BY DEF AllTruthful, Truthful, NavigationIsHonest
<1> QED BY <1>1, Requests, PTL
================================================================================
