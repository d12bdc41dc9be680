-------------------------- MODULE PageCommandsProofs --------------------------
(***************************************************************************)
(* PageCommands for any requests, windows, renders, events and failures of *)
(* the driver: a retried action is never done twice, a capture gives its   *)
(* window its size back, and the buffer holds the newest events.           *)
(***************************************************************************)
EXTENDS PageCommands, SequenceTheorems, TLAPS

-------------------------------------------------------------------------------
(* Requests                                                                *)

\* What is known of a request.
RequestType ==
  [kind : Kinds, pc : Pcs, answer : Answers, left : BOOLEAN, late : BOOLEAN,
   round : {1, 2}, attempt : {1, 2}, first : 0..MaxRenders, from : 0..MaxRenders,
   to : 0..MaxRenders, saved : Sizes, fine : BOOLEAN, batch : Seq(1..MaxEvents),
   acts : 0..2, renders : 0..MaxRenders]

\* The places of a handler are those of its kind of command.
PlaceFits(kind, pc) ==
  /\ pc \in {"finding", "found"} => kind \in OnElement
  /\ pc = "aiming" => kind = "drag"
  /\ pc \in {"polling", "pausing"} => kind \in {"wait", "download", "click", "type"}
  /\ pc \in {"loading", "inspecting"} => kind = "navigate"
  /\ pc \in {"measuring", "measured", "enlarged", "restoring"} => kind = "fullPage"
  /\ pc \in {"draining", "pushing"} => kind = "diagnostics"

\* As many rounds of an action are done as its handler has left behind.
RoundFits(c) ==
  IF c.pc = "idle"
    THEN c.kind \in OnElement =>
           /\ c.acts <= Rounds(c.kind)
           /\ c.answer = "ok" => c.acts = Rounds(c.kind)
           /\ c.answer \in {"stale", "vanished", "notFound"} => c.acts < Rounds(c.kind)
    ELSE c.answer = "none" /\ c.round <= Rounds(c.kind) /\ c.acts = c.round - 1

\* What is remembered of the renders of the page, which are p by now: that a second attempt
\* comes after a render, and that an element it has found was not there before.
AttemptFits(c, p) ==
  /\ c.first <= p /\ c.from <= p
  /\ c.pc \notin {"finding", "aiming", "found"} => c.attempt = 1
  /\ c.kind # "drag" =>
       /\ c.pc = "found" /\ c.attempt = 1 => c.first = c.from
       /\ c.pc = "finding" /\ c.attempt = 2 => c.first < p
       /\ c.pc = "found" /\ c.attempt = 2 => c.first < c.from
       /\ c.answer = "stale" => c.renders >= 2

Fits(c, p) == PlaceFits(c.kind, c.pc) /\ RoundFits(c) /\ AttemptFits(c, p)

RequestsFit ==
  /\ call \in [Calls -> RequestType]
  /\ page \in 0..MaxRenders
  /\ \A k \in Calls : Fits(call[k], page)

LEMMA RoundsTyped == \A kind : Rounds(kind) \in {1, 2}
BY DEF Rounds

LEMMA InitRequests == PageAssumption /\ Init => RequestsFit
<1> SUFFICES ASSUME PageAssumption, Init
             PROVE  RequestsFit
  OBVIOUS
<1>1. Idle("command") \in RequestType
  BY EmptySeq DEF PageAssumption, Idle, RequestType, Kinds, Pcs, Answers, Sizes
<1>2. Fits(Idle("command"), 0)
  BY DEF Fits, Idle, PlaceFits, RoundFits, AttemptFits, OnElement
<1>3. call = [k \in Calls |-> Idle("command")] /\ page = 0
  BY DEF Init
<1> QED BY <1>1, <1>2, <1>3 DEF RequestsFit, PageAssumption

\* One request moves on, and the page may render itself meanwhile.
LEMMA RequestKeeps ==
  ASSUME RequestsFit, NEW k \in Calls, NEW new \in RequestType,
         call' = [call EXCEPT ![k] = new], page' \in 0..MaxRenders, page <= page',
         Fits(new, page')
  PROVE  RequestsFit'
<1>1. call' \in [Calls -> RequestType] /\ call'[k] = new
  BY DEF RequestsFit
<1>2. ASSUME NEW j \in Calls, j # k
      PROVE  Fits(call'[j], page')
  <2>1. call'[j] = call[j] /\ Fits(call[j], page) /\ call[j] \in RequestType
    BY <1>2 DEF RequestsFit
  <2>2. AttemptFits(call[j], page')
    <3> DEFINE c == call[j]
    <3>1. /\ c.first \in 0..MaxRenders /\ c.from \in 0..MaxRenders
          /\ page \in 0..MaxRenders /\ AttemptFits(c, page)
      BY <2>1 DEF Fits, RequestType, RequestsFit
    <3> HIDE DEF c
    <3>2. /\ c.first <= page' /\ c.from <= page'
          /\ c.first < page => c.first < page'
      BY <3>1 DEF AttemptFits
    <3>3. AttemptFits(c, page')
      BY <3>1, <3>2 DEF AttemptFits
    <3> QED BY <3>3 DEF c
  <2> QED BY <2>1, <2>2 DEF Fits
<1> QED BY <1>1, <1>2 DEF RequestsFit

\* How the answer to a request is kept.
Ended(c, told) ==
  [Idle(c.kind) EXCEPT !.answer = told, !.acts = c.acts, !.renders = page - c.first]

LEMMA EndedFits ==
  ASSUME PageAssumption, RequestsFit, NEW k \in Calls, NEW told \in Answers, call[k].pc # "idle",
         told = "ok" => call[k].kind \notin OnElement,
         told = "stale" /\ call[k].kind # "drag" => page >= call[k].first + 2
  PROVE  /\ Ended(call[k], told) \in RequestType
         /\ Fits(Ended(call[k], told), page)
<1> DEFINE c == call[k]
           new == Ended(c, told)
<1>1. /\ c \in RequestType /\ Fits(c, page)
      /\ page \in 0..MaxRenders /\ MaxRenders \in Nat
  BY DEF RequestsFit, PageAssumption
<1> HIDE DEF c
<1>2. /\ c.kind \in Kinds /\ c.acts \in 0..2 /\ c.first \in 0..MaxRenders /\ c.first <= page
      /\ c.round \in {1, 2} /\ c.acts = c.round - 1 /\ c.round <= Rounds(c.kind)
      /\ c.pc # "idle"
  BY <1>1 DEF RequestType, Fits, AttemptFits, RoundFits, c
<1>3. page - c.first \in 0..MaxRenders
  BY <1>1, <1>2
<1>4. /\ new.kind = c.kind /\ new.pc = "idle" /\ new.answer = told /\ new.acts = c.acts
      /\ new.renders = page - c.first /\ new.first = 0 /\ new.from = 0 /\ new.attempt = 1
  BY DEF Ended, Idle
<1>5. new \in RequestType
  <2>1. Idle(c.kind) \in RequestType
    BY <1>1, <1>2, EmptySeq DEF Idle, RequestType, Pcs, Answers, Sizes
  <2> QED BY <1>2, <1>3, <2>1 DEF Ended, RequestType
<1> HIDE DEF new
<1>6. PlaceFits(new.kind, new.pc)
  BY <1>4 DEF PlaceFits
<1>7. RoundFits(new)
  BY <1>2, <1>4, RoundsTyped DEF RoundFits, c
<1>8. AttemptFits(new, page)
  BY <1>1, <1>2, <1>4 DEF AttemptFits, c
<1> QED BY <1>5, <1>6, <1>7, <1>8 DEF Fits, new, c

\* A request is answered.
LEMMA EndsKeeps ==
  ASSUME PageAssumption, RequestsFit, NEW k \in Calls, NEW told \in Answers, call[k].pc # "idle",
         told = "ok" => call[k].kind \notin OnElement,
         told = "stale" /\ call[k].kind # "drag" => page >= call[k].first + 2,
         Ends(k, told), UNCHANGED page
  PROVE  RequestsFit'
<1>1. call' = [call EXCEPT ![k] = Ended(call[k], told)]
  BY DEF Ends, Ended, RequestsFit
<1>2. page' \in 0..MaxRenders /\ page <= page'
  BY DEF RequestsFit, PageAssumption
<1>3. Ended(call[k], told) \in RequestType /\ Fits(Ended(call[k], told), page')
  BY EndedFits
<1> QED BY <1>1, <1>2, <1>3, RequestKeeps

\* A handler goes on that is not looking for an element.
LEMMA GoesKeeps ==
  ASSUME PageAssumption, RequestsFit, NEW k \in Calls, NEW pc \in Pcs \ {"idle", "found", "aiming"},
         call[k].pc \notin {"idle", "finding", "aiming", "found"},
         PlaceFits(call[k].kind, pc),
         NEW new \in RequestType, call' = [call EXCEPT ![k] = new],
         new.pc = pc, new.kind = call[k].kind, new.answer = call[k].answer,
         new.round = call[k].round, new.acts = call[k].acts, new.attempt = call[k].attempt,
         new.first = call[k].first, new.from = call[k].from, new.renders = call[k].renders,
         page' \in 0..MaxRenders, page <= page'
  PROVE  RequestsFit'
<1>1. Fits(call[k], page) /\ call[k] \in RequestType /\ page \in 0..MaxRenders
  BY DEF RequestsFit
<1>2. RoundFits(new)
  BY <1>1 DEF Fits, RoundFits
<1>3. AttemptFits(new, page')
  <2>1. new.attempt = 1 /\ new.answer = "none"
    BY <1>1 DEF Fits, RoundFits, AttemptFits
  <2>2. new.first <= page' /\ new.from <= page'
    <3>1. new.first \in Nat /\ new.from \in Nat /\ page \in Nat /\ page' \in Nat
      BY <1>1 DEF RequestType, PageAssumption
    <3>2. new.first <= page /\ new.from <= page
      BY <1>1 DEF Fits, AttemptFits
    <3> QED BY <3>1, <3>2
  <2> QED BY <2>1, <2>2 DEF AttemptFits
<1> QED BY <1>1, <1>2, <1>3, RequestKeeps DEF Fits

\* What of a request the argument speaks of, when its handler has gone on to pc.
LEMMA GoesOn ==
  ASSUME PageAssumption, RequestsFit, NEW k \in Calls, NEW pc \in Pcs \ {"idle", "found", "aiming"},
         Goes(k, pc), call[k].pc \notin {"idle", "finding", "aiming", "found"},
         PlaceFits(call[k].kind, pc), page' \in 0..MaxRenders, page <= page'
  PROVE  RequestsFit'
<1> DEFINE new == [call[k] EXCEPT !.pc = pc]
<1>1. call' = [call EXCEPT ![k] = new]
  BY DEF Goes, RequestsFit
<1>2. /\ new \in RequestType
      /\ new.pc = pc /\ new.kind = call[k].kind /\ new.answer = call[k].answer
      /\ new.round = call[k].round /\ new.acts = call[k].acts /\ new.attempt = call[k].attempt
      /\ new.first = call[k].first /\ new.from = call[k].from /\ new.renders = call[k].renders
  <2>1. call[k] \in RequestType
    BY DEF RequestsFit
  <2> HIDE DEF RequestsFit
  <2> QED BY <2>1 DEF RequestType
<1> HIDE DEF new
<1> QED BY <1>1, <1>2, GoesKeeps

LEMMA PageSame ==
  ASSUME PageAssumption, RequestsFit, UNCHANGED page
  PROVE  page' \in 0..MaxRenders /\ page <= page'
BY DEF RequestsFit, PageAssumption

\* The page renders itself, no handler moves.
LEMMA RenderKeeps ==
  ASSUME PageAssumption, RequestsFit, UNCHANGED call, page' \in 0..MaxRenders, page <= page'
  PROVE  RequestsFit'
<1>1. ASSUME NEW j \in Calls
      PROVE  Fits(call'[j], page')
  <2>1. call'[j] = call[j] /\ Fits(call[j], page) /\ call[j] \in RequestType
    BY DEF RequestsFit
  <2>2. AttemptFits(call[j], page')
    BY <2>1 DEF Fits, AttemptFits, RequestType, RequestsFit, PageAssumption
  <2> QED BY <2>1, <2>2 DEF Fits
<1> QED BY <1>1 DEF RequestsFit

LEMMA IssueKeeps ==
  ASSUME PageAssumption, RequestsFit, NEW k \in Calls, NEW kind \in Kinds, Issue(k, kind)
  PROVE  RequestsFit'
<1> DEFINE new == [Idle(kind) EXCEPT !.pc = "issued"]
<1>1. Idle(kind) \in RequestType
  BY EmptySeq DEF PageAssumption, Idle, RequestType, Pcs, Answers, Sizes
<1>2. /\ new \in RequestType
      /\ new.pc = "issued" /\ new.kind = kind /\ new.answer = "none" /\ new.round = 1
      /\ new.acts = 0 /\ new.attempt = 1 /\ new.first = 0 /\ new.from = 0
  BY <1>1 DEF RequestType, Pcs, Idle
<1>3. call' = [call EXCEPT ![k] = new] /\ page' = page
  BY DEF Issue, host
<1> HIDE DEF new
<1>4. PlaceFits(new.kind, new.pc)
  BY <1>2 DEF PlaceFits
<1>5. RoundFits(new)
  BY <1>2, RoundsTyped DEF RoundFits
<1>6. AttemptFits(new, page')
  BY <1>2, <1>3 DEF AttemptFits, RequestsFit, PageAssumption
<1> QED BY <1>2, <1>3, <1>4, <1>5, <1>6, RequestKeeps, PageSame DEF Fits

\* The handlers that do not look for elements, up to their answers.
LEMMA RoutedKeeps ==
  ASSUME PageAssumption, RequestsFit, NEW k \in Calls, Routed(k)
  PROVE  RequestsFit'
<1>1. call[k].pc = "issued" /\ page' = page /\ call[k].kind \in Kinds \ {"clear"}
  BY DEF Routed, host, RequestsFit, RequestType
<1>2. CASE Ends(k, "failed")
  BY <1>1, <1>2, EndsKeeps DEF Answers
<1>3. CASE Goes(k, Start(call[k].kind))
  <2> DEFINE pc == Start(call[k].kind)
  <2>1. /\ pc \in Pcs \ {"idle", "found", "aiming"}
        /\ PlaceFits(call[k].kind, pc)
    BY <1>1 DEF Start, Pcs, PlaceFits, OnElement, Kinds, OnWindow
  <2> HIDE DEF pc
  <2>2. Goes(k, pc)
    BY <1>3 DEF pc
  <2> QED BY <1>1, <2>1, <2>2, PageSame, GoesOn
<1> QED BY <1>2, <1>3 DEF Routed

LEMMA WaitKeeps ==
  ASSUME PageAssumption, RequestsFit, NEW k \in Calls,
         Leave(k) \/ Expire(k) \/ Poll(k) \/ Pause(k) \/ GiveUp(k)
  PROVE  RequestsFit'
<1>1. call[k].pc \in {"polling", "pausing", "loading"} /\ page' = page
  BY DEF Leave, Expire, Poll, Pause, GiveUp, host
<1>2. call[k] \in RequestType /\ PlaceFits(call[k].kind, call[k].pc)
  BY DEF RequestsFit, Fits
<1>3. CASE Leave(k) \/ Expire(k)
  <2>1. PICK new \in {[call[k] EXCEPT !.left = TRUE], [call[k] EXCEPT !.late = TRUE]} :
          call' = [call EXCEPT ![k] = new]
    BY <1>3 DEF Leave, Expire, RequestsFit
  <2>2. /\ new \in RequestType
        /\ new.pc = call[k].pc /\ new.kind = call[k].kind /\ new.answer = call[k].answer
        /\ new.round = call[k].round /\ new.acts = call[k].acts /\ new.attempt = call[k].attempt
        /\ new.first = call[k].first /\ new.from = call[k].from /\ new.renders = call[k].renders
    <3>1. CASE new = [call[k] EXCEPT !.left = TRUE]
      BY <1>2, <3>1 DEF RequestType
    <3>2. CASE new = [call[k] EXCEPT !.late = TRUE]
      BY <1>2, <3>2 DEF RequestType
    <3> QED BY <2>1, <3>1, <3>2
  <2>3. call[k].pc \in Pcs \ {"idle", "found", "aiming"}
    BY <1>1 DEF Pcs
  <2> QED BY <1>1, <1>2, <2>1, <2>2, <2>3, PageSame, GoesKeeps
<1>4. ASSUME NEW told \in {"aborted", "timeout"}, Ends(k, told)
      PROVE  RequestsFit'
  BY <1>1, <1>4, EndsKeeps DEF Answers
<1>5. CASE Poll(k)
  <2>1. call[k].kind \in {"wait", "download", "click", "type"} /\ call[k].pc = "polling"
    BY <1>2, <1>5 DEF Poll, PlaceFits
  <2>2. CASE call[k].kind \in {"wait", "download"} /\ Ends(k, "ok")
    <3>1. call[k].kind \notin OnElement
      BY <2>2 DEF OnElement
    <3> QED BY <1>1, <2>2, <3>1, EndsKeeps DEF Answers
  <2>3. CASE call[k].kind \notin {"wait", "download"} /\ Goes(k, "finding")
    <3>1. PlaceFits(call[k].kind, "finding") /\ "finding" \in Pcs \ {"idle", "found", "aiming"}
      BY <2>1, <2>3 DEF PlaceFits, OnElement, Pcs
    <3> QED BY <1>1, <2>1, <2>3, <3>1, PageSame, GoesOn
  <2>4. CASE Goes(k, "pausing")
    <3>1. PlaceFits(call[k].kind, "pausing") /\ "pausing" \in Pcs \ {"idle", "found", "aiming"}
      BY <2>1 DEF PlaceFits, Pcs
    <3> QED BY <1>1, <2>1, <2>4, <3>1, PageSame, GoesOn
  <2> QED BY <1>4, <1>5, <2>2, <2>3, <2>4 DEF Poll
<1>6. CASE Pause(k)
  <2>1. PlaceFits(call[k].kind, "polling") /\ "polling" \in Pcs \ {"idle", "found", "aiming"}
        /\ call[k].pc = "pausing" /\ Goes(k, "polling")
    BY <1>2, <1>6 DEF Pause, PlaceFits, Pcs
  <2> QED BY <1>1, <2>1, PageSame, GoesOn
<1>7. CASE GiveUp(k)
  BY <1>4, <1>7 DEF GiveUp
<1> QED BY <1>3, <1>5, <1>6, <1>7

LEMMA CommandKeeps ==
  ASSUME PageAssumption, RequestsFit, NEW k \in Calls,
         size \in [Windows -> Sizes], open \subseteq Windows,
         \/ Load(k) \/ Inspect(k) \/ Command(k) \/ Devtools(k) \/ ToolsFound(k)
         \/ UseWindow(k) \/ Measure(k) \/ Enlarge(k) \/ Shoot(k) \/ RestoreSize(k)
  PROVE  RequestsFit'
<1>1. call[k] \in RequestType /\ PlaceFits(call[k].kind, call[k].pc)
  BY DEF RequestsFit, Fits
<1>2. ASSUME NEW told \in {"ok", "failed"}, Ends(k, told), UNCHANGED page, call[k].pc # "idle",
             call[k].kind \notin OnElement
      PROVE  RequestsFit'
  BY <1>2, EndsKeeps DEF Answers
<1>3. CASE Load(k)
  <2>1. /\ call[k].pc = "loading" /\ Goes(k, "inspecting")
        /\ "inspecting" \in Pcs \ {"idle", "found", "aiming"}
        /\ PlaceFits(call[k].kind, "inspecting")
    BY <1>1, <1>3 DEF Load, PlaceFits, Pcs
  <2>2. page' \in 0..MaxRenders /\ page <= page'
    BY <1>3 DEF Load, RequestsFit, PageAssumption
  <2> QED BY <2>1, <2>2, GoesOn
<1>4. CASE Measure(k)
  <2> DEFINE new == [call[k] EXCEPT !.pc = "measured", !.saved = size[current]]
  <2>1. /\ call' = [call EXCEPT ![k] = new] /\ page' = page
        /\ call[k].pc = "measuring" /\ size[current] \in Sizes
    BY <1>4 DEF Measure, RequestsFit, Serves, host
  <2>2. /\ new \in RequestType /\ new.pc = "measured"
        /\ "measured" \in Pcs \ {"idle", "found", "aiming"}
        /\ new.kind = call[k].kind /\ new.answer = call[k].answer
        /\ new.round = call[k].round /\ new.acts = call[k].acts /\ new.attempt = call[k].attempt
        /\ new.first = call[k].first /\ new.from = call[k].from /\ new.renders = call[k].renders
    BY <1>1, <2>1 DEF RequestType, Pcs
  <2>3. PlaceFits(call[k].kind, "measured")
    BY <1>1, <2>1 DEF PlaceFits
  <2> HIDE DEF new
  <2> QED BY <2>1, <2>2, <2>3, PageSame, GoesKeeps
<1>5. CASE Enlarge(k) \/ Shoot(k)
  <2>1. PICK pc \in {"enlarged", "restoring"} : Goes(k, pc)
    BY <1>5 DEF Enlarge, Shoot
  <2>2. call[k].pc \in {"measured", "enlarged"} /\ page' = page
    BY <1>5 DEF Enlarge, Shoot, host
  <2>3. PlaceFits(call[k].kind, pc) /\ pc \in Pcs \ {"idle", "found", "aiming"}
    BY <1>1, <2>1, <2>2 DEF PlaceFits, Pcs
  <2> QED BY <2>1, <2>2, <2>3, PageSame, GoesOn
<1>6. CASE Inspect(k) \/ Command(k) \/ Devtools(k) \/ ToolsFound(k)
  <2>1. PICK told \in {"ok", "failed"} : Ends(k, told)
    BY <1>6 DEF Inspect, Command, Devtools, ToolsFound
  <2>2. page' = page /\ call[k].pc # "idle" /\ call[k].kind \notin OnElement
    BY <1>1, <1>6 DEF Inspect, Command, Devtools, ToolsFound, host, PlaceFits, OnElement
  <2> QED BY <1>2, <2>1, <2>2
<1>7. CASE UseWindow(k)
  <2>1. page' = page /\ call[k].pc # "idle" /\ call[k].kind \notin OnElement /\ Ends(k, "ok")
    BY <1>7 DEF UseWindow, OnElement
  <2> QED BY <1>2, <2>1
<1>8. CASE RestoreSize(k)
  <2>1. page' = page /\ call[k].pc # "idle" /\ call[k].kind \notin OnElement
    BY <1>1, <1>8 DEF RestoreSize, PlaceFits, OnElement, host
  <2>2. PICK told \in {"ok", "failed"} : Ends(k, told)
    BY <1>8 DEF RestoreSize
  <2> QED BY <1>2, <2>1, <2>2
<1> QED BY <1>3, <1>4, <1>5, <1>6, <1>7, <1>8

\* The collections.
LEMMA CollectKeeps ==
  ASSUME PageAssumption, RequestsFit, NEW k \in Calls, log \in Seq(1..MaxEvents),
         Drain(k) \/ Push(k) \/ Collected(k) \/ Clear(k)
  PROVE  RequestsFit'
<1>1. call[k] \in RequestType /\ PlaceFits(call[k].kind, call[k].pc)
  BY DEF RequestsFit, Fits
<1>2. page' = page
  BY DEF Drain, Push, Collected, Clear, host
<1>3. ASSUME NEW b \in Seq(1..MaxEvents),
             call' = [call EXCEPT ![k] = [call[k] EXCEPT !.pc = "pushing", !.batch = b]],
             call[k].pc \in {"draining", "pushing"}
      PROVE  RequestsFit'
  <2> DEFINE new == [call[k] EXCEPT !.pc = "pushing", !.batch = b]
  <2>1. /\ new \in RequestType /\ new.pc = "pushing"
        /\ "pushing" \in Pcs \ {"idle", "found", "aiming"}
        /\ new.kind = call[k].kind /\ new.answer = call[k].answer
        /\ new.round = call[k].round /\ new.acts = call[k].acts /\ new.attempt = call[k].attempt
        /\ new.first = call[k].first /\ new.from = call[k].from /\ new.renders = call[k].renders
    BY <1>1 DEF RequestType, Pcs
  <2>2. PlaceFits(call[k].kind, "pushing")
    BY <1>1, <1>3 DEF PlaceFits
  <2>3. call' = [call EXCEPT ![k] = new] /\ call[k].pc \notin {"idle", "finding", "aiming", "found"}
    BY <1>3
  <2> HIDE DEF new
  <2> QED BY <1>2, <2>1, <2>2, <2>3, PageSame, GoesKeeps
<1>4. CASE Drain(k)
  <2>1. call' = [call EXCEPT ![k] = [call[k] EXCEPT !.pc = "pushing", !.batch = log]]
        /\ call[k].pc = "draining"
    BY <1>4 DEF Drain, RequestsFit
  <2> QED BY <1>3, <2>1
<1>5. CASE Push(k)
  <2>1. call[k].pc = "pushing" /\ call[k].batch \in Seq(1..MaxEvents) /\ call[k].batch # <<>>
    BY <1>1, <1>5 DEF Push, RequestType
  <2>2. Tail(call[k].batch) \in Seq(1..MaxEvents)
    BY <2>1, HeadTailProperties
  <2>3. [call[k] EXCEPT !.batch = Tail(call[k].batch)]
          = [call[k] EXCEPT !.pc = "pushing", !.batch = Tail(call[k].batch)]
    BY <1>1, <2>1 DEF RequestType
  <2>4. call' = [call EXCEPT ![k] = [call[k] EXCEPT !.batch = Tail(call[k].batch)]]
    BY <1>5 DEF Push, RequestsFit
  <2> QED BY <1>3, <2>1, <2>2, <2>3, <2>4
<1>6. CASE Collected(k) \/ Clear(k)
  <2>1. call[k].pc # "idle" /\ call[k].kind \notin OnElement
    BY <1>1, <1>6 DEF Collected, Clear, PlaceFits, OnElement
  <2>2. PICK told \in {"ok", "failed"} : Ends(k, told)
    BY <1>6 DEF Collected, Clear
  <2> QED BY <1>2, <2>1, <2>2, EndsKeeps DEF Answers
<1> QED BY <1>4, <1>5, <1>6

\* The element is looked for, and found or not.
LEMMA FindKeeps ==
  ASSUME PageAssumption, RequestsFit, NEW k \in Calls, Find(k) \/ Aim(k)
  PROVE  RequestsFit'
<1> DEFINE c == call[k]
<1>1. /\ c \in RequestType /\ Fits(c, page) /\ page' = page
      /\ page \in 0..MaxRenders /\ c.pc \in {"finding", "aiming"}
  BY DEF RequestsFit, Find, Aim, host
<1>2. ASSUME NEW told \in {"notFound", "vanished"}, Ends(k, told)
      PROVE  RequestsFit'
  BY <1>1, <1>2, EndsKeeps DEF Answers
<1>3. CASE Find(k) /\ present
  <2> DEFINE pc == IF c.kind = "drag" THEN "aiming" ELSE "found"
             first == IF c.attempt = 1 THEN page ELSE c.first
             new == [c EXCEPT !.pc = pc, !.from = page, !.first = first]
  <2>1. call' = [call EXCEPT ![k] = new] /\ c.pc = "finding"
    BY <1>3 DEF Find, RequestsFit
  <2>2. pc \in {"aiming", "found"} /\ first \in 0..MaxRenders
    BY <1>1 DEF RequestType
  <2>3. /\ new \in RequestType /\ new.pc = pc /\ new.from = page /\ new.first = first
        /\ new.kind = c.kind /\ new.answer = c.answer /\ new.round = c.round
        /\ new.acts = c.acts /\ new.attempt = c.attempt
    BY <1>1, <2>2 DEF RequestType, Pcs
  <2> HIDE DEF new
  <2>4. PlaceFits(new.kind, new.pc)
    BY <1>1, <2>1, <2>3 DEF PlaceFits, Fits
  <2>5. RoundFits(new)
    BY <1>1, <2>1, <2>2, <2>3 DEF RoundFits, Fits
  <2>6. AttemptFits(new, page)
    <3>1. c.answer = "none" /\ first <= page /\ new.from <= page
      BY <1>1, <2>1, <2>3 DEF RoundFits, Fits, AttemptFits
    <3>2. c.kind # "drag" => (pc = "found") /\ (c.attempt = 1 => first = page)
                             /\ (c.attempt = 2 => first < page)
      BY <1>1, <2>1 DEF Fits, AttemptFits
    <3> HIDE DEF pc, first
    <3> QED BY <2>2, <2>3, <3>1, <3>2 DEF AttemptFits
  <2> QED BY <1>1, <2>1, <2>3, <2>4, <2>5, <2>6, PageSame, RequestKeeps DEF Fits
<1>4. CASE Aim(k) /\ present
  <2> DEFINE new == [c EXCEPT !.pc = "found", !.to = page]
  <2>1. call' = [call EXCEPT ![k] = new] /\ c.pc = "aiming" /\ c.kind = "drag"
    BY <1>1, <1>4 DEF Aim, RequestsFit, Fits, PlaceFits
  <2>2. /\ new \in RequestType /\ new.pc = "found" /\ new.from = c.from /\ new.first = c.first
        /\ new.kind = c.kind /\ new.answer = c.answer /\ new.round = c.round
        /\ new.acts = c.acts /\ new.attempt = c.attempt
    BY <1>1 DEF RequestType, Pcs
  <2> HIDE DEF new
  <2>3. PlaceFits(new.kind, new.pc)
    BY <2>1, <2>2 DEF PlaceFits, OnElement
  <2>4. RoundFits(new)
    BY <1>1, <2>1, <2>2 DEF RoundFits, Fits
  <2>5. AttemptFits(new, page)
    BY <1>1, <2>1, <2>2 DEF AttemptFits, Fits
  <2> QED BY <1>1, <2>1, <2>2, <2>3, <2>4, <2>5, PageSame, RequestKeeps DEF Fits
<1>5. CASE ~present
  <2>1. PICK told \in {"notFound", "vanished"} : Ends(k, told)
    BY <1>5 DEF Find, Aim
  <2> QED BY <1>2, <2>1
<1> QED BY <1>3, <1>4, <1>5

\* The element is used, or was stale.
LEMMA ExecuteKeeps ==
  ASSUME PageAssumption, RequestsFit, NEW k \in Calls, Execute(k)
  PROVE  RequestsFit'
<1> DEFINE c == call[k]
<1>1. /\ c \in RequestType /\ Fits(c, page) /\ page' = page
      /\ page \in 0..MaxRenders /\ c.pc = "found"
  BY DEF RequestsFit, Execute, host
<1>2. /\ c.kind \in OnElement /\ c.answer = "none" /\ c.round <= Rounds(c.kind)
      /\ c.acts = c.round - 1 /\ c.round \in {1, 2} /\ Rounds(c.kind) \in {1, 2}
      /\ c.kind \in Kinds /\ c.attempt \in {1, 2}
  BY <1>1, RoundsTyped DEF Fits, PlaceFits, RoundFits, RequestType
<1>3. CASE Fresh(k) /\ c.round < Rounds(c.kind)
  <2>0. PICK n \in 0..2 : n = 1
    OBVIOUS
  <2> DEFINE new == [c EXCEPT !.acts = n, !.round = 2, !.attempt = 1, !.pc = "finding"]
  <2>1. c.acts + 1 = n /\ c.round + 1 = 2 /\ Rounds(c.kind) = 2
    BY <1>2, <1>3, <2>0
  <2>2. call' = [call EXCEPT ![k] = new]
    BY <1>3, <2>0, <2>1 DEF Execute, Done, RequestsFit
  <2>3. /\ new \in RequestType /\ new.pc = "finding" /\ new.from = c.from /\ new.first = c.first
        /\ new.kind = c.kind /\ new.answer = c.answer /\ new.round = 2
        /\ new.acts = 1 /\ new.attempt = 1
    BY <1>1, <2>0 DEF RequestType, Pcs
  <2> HIDE DEF new
  <2>4. PlaceFits(new.kind, new.pc)
    BY <1>2, <2>3 DEF PlaceFits
  <2>5. RoundFits(new)
    BY <1>2, <2>1, <2>3 DEF RoundFits
  <2>6. AttemptFits(new, page)
    BY <1>1, <1>2, <2>3 DEF AttemptFits, Fits
  <2> QED BY <1>1, <2>2, <2>3, <2>4, <2>5, <2>6, PageSame, RequestKeeps DEF Fits
<1>4. CASE Fresh(k) /\ ~(c.round < Rounds(c.kind))
  <2> DEFINE new == [Idle(c.kind) EXCEPT !.answer = "ok", !.acts = c.acts + 1]
  <2>1. c.acts + 1 = Rounds(c.kind) /\ c.acts + 1 \in 0..2
    BY <1>2, <1>4
  <2>2. call' = [call EXCEPT ![k] = new]
    BY <1>4 DEF Execute, Done, RequestsFit
  <2>3. Idle(c.kind) \in RequestType
    BY <1>2, EmptySeq DEF PageAssumption, Idle, RequestType, Pcs, Answers, Sizes
  <2>4. /\ new.pc = "idle" /\ new.from = 0 /\ new.first = 0
        /\ new.kind = c.kind /\ new.answer = "ok" /\ new.acts = Rounds(c.kind)
        /\ new.attempt = 1
    BY <2>1 DEF Idle
  <2>5. new \in RequestType
    BY <2>1, <2>3 DEF RequestType, Answers
  <2> HIDE DEF new
  <2>6. PlaceFits(new.kind, new.pc)
    BY <2>4 DEF PlaceFits
  <2>7. RoundFits(new)
    BY <1>2, <2>4 DEF RoundFits
  <2>8. AttemptFits(new, page)
    BY <1>1, <2>4 DEF AttemptFits
  <2> QED BY <1>1, <2>2, <2>5, <2>6, <2>7, <2>8, PageSame, RequestKeeps DEF Fits
<1>5. CASE ~Fresh(k) /\ c.attempt = 1
  <2> DEFINE pc == IF c.kind = "drag" THEN "aiming" ELSE "finding"
             new == [c EXCEPT !.attempt = 2, !.pc = pc]
  <2>0. pc \in {"aiming", "finding"} /\ (pc = "aiming" => c.kind = "drag")
    OBVIOUS
  <2>1. call' = [call EXCEPT ![k] = new]
    BY <1>5 DEF Execute, RequestsFit
  <2> HIDE DEF pc
  <2>2. /\ new \in RequestType /\ new.pc = pc /\ new.from = c.from /\ new.first = c.first
        /\ new.kind = c.kind /\ new.answer = c.answer /\ new.round = c.round
        /\ new.acts = c.acts /\ new.attempt = 2
    BY <1>1, <2>0 DEF RequestType, Pcs
  <2> HIDE DEF new
  <2>3. PlaceFits(new.kind, new.pc)
    BY <1>2, <2>0, <2>2 DEF PlaceFits
  <2>4. RoundFits(new)
    BY <1>2, <2>0, <2>2 DEF RoundFits
  <2>5. AttemptFits(new, page)
    <3>1. new.first <= page /\ new.from <= page /\ new.pc \in {"finding", "aiming"}
      BY <1>1, <2>0, <2>2 DEF Fits, AttemptFits
    <3>2. c.kind # "drag" => c.first < page
      BY <1>1, <1>5 DEF Fits, AttemptFits, Fresh, RequestType
    <3> QED BY <1>2, <2>2, <3>1, <3>2 DEF AttemptFits
  <2> QED BY <1>1, <2>1, <2>2, <2>3, <2>4, <2>5, PageSame, RequestKeeps DEF Fits
<1>6. CASE ~Fresh(k) /\ c.attempt # 1
  <2>1. Ends(k, "stale")
    BY <1>6 DEF Execute
  <2>2. c.kind # "drag" => page >= c.first + 2
    <3>1. c.kind # "drag" => c.first < c.from
      BY <1>1, <1>2, <1>6 DEF Fits, AttemptFits, RequestType
    <3>2. c.kind # "drag" => c.from # page /\ c.from <= page
      BY <1>1, <1>6 DEF Fits, AttemptFits, Fresh
    <3>3. c.first \in Nat /\ c.from \in Nat /\ page \in Nat
      BY <1>1 DEF RequestType
    <3> QED BY <3>1, <3>2, <3>3
  <2> QED BY <1>1, <2>1, <2>2, EndsKeeps DEF Answers
<1> QED BY <1>3, <1>4, <1>5, <1>6

\* What the driver throws.
LEMMA ThrownKeeps ==
  ASSUME PageAssumption, RequestsFit, NEW k \in Calls, NEW acted \in BOOLEAN,
         AtDriver(k), Thrown(k, acted)
  PROVE  RequestsFit'
<1> DEFINE c == call[k]
<1>1. /\ c \in RequestType /\ Fits(c, page) /\ page' = page
      /\ page \in 0..MaxRenders /\ c.pc \notin {"idle", "issued", "polling", "pausing"}
  BY DEF RequestsFit, Thrown, AtDriver
<1>2. /\ c.answer = "none" /\ c.round <= Rounds(c.kind)
      /\ c.acts = c.round - 1 /\ c.round \in {1, 2} /\ Rounds(c.kind) \in {1, 2}
      /\ c.kind \in Kinds
  BY <1>1, RoundsTyped DEF Fits, RoundFits, RequestType
<1>3. CASE c.pc \in {"measured", "enlarged"}
  <2> DEFINE new == [c EXCEPT !.pc = "restoring", !.fine = FALSE]
  <2>1. call' = [call EXCEPT ![k] = new] /\ c.pc \notin {"idle", "finding", "aiming", "found"}
    BY <1>3 DEF Thrown, RequestsFit
  <2>2. /\ new \in RequestType /\ new.pc = "restoring"
        /\ "restoring" \in Pcs \ {"idle", "found", "aiming"}
        /\ new.kind = c.kind /\ new.answer = c.answer
        /\ new.round = c.round /\ new.acts = c.acts /\ new.attempt = c.attempt
        /\ new.first = c.first /\ new.from = c.from /\ new.renders = c.renders
    BY <1>1 DEF RequestType, Pcs
  <2>3. PlaceFits(c.kind, "restoring")
    BY <1>1, <1>3 DEF PlaceFits, Fits
  <2> HIDE DEF new
  <2> QED BY <1>1, <2>1, <2>2, <2>3, PageSame, GoesKeeps
<1>4. CASE c.pc \in {"draining", "pushing"}
  <2>1. Ends(k, "ok") /\ c.kind \notin OnElement
    BY <1>1, <1>4 DEF Thrown, Fits, PlaceFits, OnElement
  <2> QED BY <1>1, <2>1, EndsKeeps DEF Answers
<1>5. CASE c.pc \in {"finding", "aiming"} /\ c.attempt = 2
  <2>1. Ends(k, "vanished")
    BY <1>5 DEF Thrown
  <2> QED BY <1>1, <2>1, EndsKeeps DEF Answers
<1>6. CASE /\ c.pc \notin {"measured", "enlarged", "draining", "pushing"}
           /\ ~(c.pc \in {"finding", "aiming"} /\ c.attempt = 2)
  <2> DEFINE told == IF browser THEN "failed" ELSE "lost"
             acts == c.acts + IF acted /\ c.pc = "found" THEN 1 ELSE 0
             new == [Idle(c.kind) EXCEPT !.answer = told, !.acts = acts]
  <2>1. acts \in 0..2 /\ acts <= Rounds(c.kind)
    BY <1>2
  <2>2. call' = [call EXCEPT ![k] = new]
    BY <1>6 DEF Thrown, RequestsFit
  <2>3. Idle(c.kind) \in RequestType
    BY <1>2, EmptySeq DEF PageAssumption, Idle, RequestType, Pcs, Answers, Sizes
  <2>4. /\ new.pc = "idle" /\ new.from = 0 /\ new.first = 0
        /\ new.kind = c.kind /\ new.answer \in {"failed", "lost"} /\ new.acts = acts
        /\ new.attempt = 1
    BY <2>1 DEF Idle
  <2> HIDE DEF acts
  <2>5. new \in RequestType
    BY <2>1, <2>3 DEF RequestType, Answers
  <2> HIDE DEF new
  <2>6. PlaceFits(new.kind, new.pc)
    BY <2>4 DEF PlaceFits
  <2>7. RoundFits(new)
    BY <1>2, <2>1, <2>4 DEF RoundFits
  <2>8. AttemptFits(new, page)
    BY <1>1, <2>4 DEF AttemptFits
  <2> QED BY <1>1, <2>2, <2>5, <2>6, <2>7, <2>8, PageSame, RequestKeeps DEF Fits
<1> QED BY <1>3, <1>4, <1>5, <1>6

-------------------------------------------------------------------------------
(* The types of the rest                                                   *)

WindowTyped ==
  /\ session \in BOOLEAN /\ browser \in BOOLEAN /\ present \in BOOLEAN
  /\ open \subseteq Windows /\ current \in open \union {None}
  /\ size \in [Windows -> Sizes] /\ wanted \in [Windows -> Sizes \ {"full"}]
  /\ calm \in BOOLEAN

DiagnosisTyped ==
  /\ log \in Seq(1..MaxEvents) /\ buffer \in Seq(1..MaxEvents) /\ Len(buffer) <= EventLimit
  /\ seen \in 0..MaxEvents /\ cleared \in 0..MaxEvents
  /\ single \in BOOLEAN

CountsTyped == mix \in Mixes /\ events \in 0..MaxEvents /\ faults \in 0..MaxFaults

LEMMA RequestIssues ==
  ASSUME NEW k \in Calls, Request(k)
  PROVE  \E kind \in Kinds : Issue(k, kind)
<1> USE DEF Kinds, OnElement, OnWindow
<1>1. CASE ActOn(k) \/ SetWindow(k) \/ Diagnose(k)
  BY <1>1 DEF ActOn, SetWindow, Diagnose
<1>2. CASE Picture(k) \/ Navigate(k) \/ WaitFor(k) \/ WaitForFile(k) \/ Steer(k)
           \/ SetCondition(k) \/ Capture(k) \/ FindTools(k)
  BY <1>2 DEF Picture, Navigate, WaitFor, WaitForFile, Steer, SetCondition, Capture, FindTools
<1> QED BY <1>1, <1>2 DEF Request

LEMMA RequestsStep ==
  ASSUME PageAssumption, RequestsFit, WindowTyped, DiagnosisTyped, [Next]_vars
  PROVE  RequestsFit'
<1>1. CASE UNCHANGED vars
  BY <1>1, PageSame, RenderKeeps DEF vars, host
<1>2. ASSUME NEW k \in Calls, Request(k)
      PROVE  RequestsFit'
  BY <1>2, RequestIssues, IssueKeeps
<1>3. ASSUME NEW k \in Calls, Leave(k) \/ Expire(k)
      PROVE  RequestsFit'
  BY <1>3, WaitKeeps
<1>4. ASSUME NEW k \in Calls, Handler(k)
      PROVE  RequestsFit'
  <2>1. CASE Routed(k)
    BY <2>1, RoutedKeeps
  <2>2. CASE Poll(k) \/ Pause(k) \/ GiveUp(k)
    BY <2>2, WaitKeeps
  <2>3. CASE \/ Load(k) \/ Inspect(k) \/ Command(k) \/ Devtools(k) \/ ToolsFound(k)
             \/ UseWindow(k) \/ Measure(k) \/ Enlarge(k) \/ Shoot(k) \/ RestoreSize(k)
    BY <2>3, CommandKeeps DEF WindowTyped
  <2>4. CASE Drain(k) \/ Push(k) \/ Collected(k) \/ Clear(k)
    BY <2>4, CollectKeeps DEF DiagnosisTyped
  <2>5. CASE Find(k) \/ Aim(k)
    BY <2>5, FindKeeps
  <2>6. CASE Execute(k)
    BY <2>6, ExecuteKeeps
  <2>7. CASE Unserved(k) \/ DriverFails(k)
    BY <2>7, ThrownKeeps DEF Unserved, DriverFails
  <2> QED BY <1>4, <2>1, <2>2, <2>3, <2>4, <2>5, <2>6, <2>7 DEF Handler
<1>5. CASE CloseSession \/ Quit \/ Lose \/ LogEvent
  BY <1>5, PageSame, RenderKeeps DEF CloseSession, Quit, Lose, LogEvent, host
<1>6. CASE Render
  <2>1. UNCHANGED call /\ page' \in 0..MaxRenders /\ page <= page'
    BY <1>6 DEF Render, RequestsFit, PageAssumption
  <2> QED BY <2>1, RenderKeeps
<1> QED BY <1>1, <1>2, <1>3, <1>4, <1>5, <1>6 DEF Next

\* What the handlers leave alone.
Quiet(k) ==
  \/ Request(k) \/ Leave(k) \/ Expire(k) \/ Routed(k) \/ Poll(k) \/ Pause(k) \/ GiveUp(k)
  \/ Inspect(k) \/ Command(k) \/ Devtools(k) \/ ToolsFound(k) \/ Find(k) \/ Aim(k) \/ Execute(k)
  \/ Shoot(k) \/ Collected(k)

LEMMA QuietChangesNothing ==
  ASSUME NEW k \in Calls, Quiet(k)
  PROVE  UNCHANGED <<mix, window, diagnosis, host, events, faults>>
<1>1. CASE Request(k)
  BY <1>1, RequestIssues DEF Issue
<1>2. CASE Leave(k) \/ Expire(k) \/ Routed(k) \/ Poll(k) \/ Pause(k) \/ GiveUp(k)
  BY <1>2 DEF Leave, Expire, Routed, Poll, Pause, GiveUp
<1>3. CASE Inspect(k) \/ Command(k) \/ Devtools(k) \/ ToolsFound(k) \/ Shoot(k) \/ Collected(k)
  BY <1>3 DEF Inspect, Command, Devtools, ToolsFound, Shoot, Collected
<1>4. CASE Find(k) \/ Aim(k) \/ Execute(k)
  BY <1>4 DEF Find, Aim, Execute
<1> QED BY <1>1, <1>2, <1>3, <1>4 DEF Quiet

LEMMA WindowsStep ==
  ASSUME PageAssumption, RequestsFit, WindowTyped, [Next]_vars
  PROVE  WindowTyped'
<1> USE DEF WindowTyped
<1>1. CASE UNCHANGED vars
  BY <1>1 DEF vars, window, host
<1>2. ASSUME NEW k \in Calls, Quiet(k)
      PROVE  WindowTyped'
  BY <1>2, QuietChangesNothing DEF window, host
<1>3. ASSUME NEW k \in Calls, Drain(k) \/ Push(k) \/ Clear(k)
      PROVE  WindowTyped'
  BY <1>3 DEF Drain, Push, Clear, window, host
<1>4. ASSUME NEW k \in Calls, Load(k)
      PROVE  WindowTyped'
  BY <1>4 DEF Load, window
<1>5. ASSUME NEW k \in Calls, UseWindow(k)
      PROVE  WindowTyped'
  <2>1. UNCHANGED <<session, present>> /\ calm' \in BOOLEAN
    BY <1>5 DEF UseWindow
  <2>2. CASE /\ call[k].kind = "resize" /\ Serves
             /\ \E s \in Sizes \ {"full"} : /\ size' = [size EXCEPT ![current] = s]
                                            /\ wanted' = [wanted EXCEPT ![current] = s]
             /\ UNCHANGED <<open, current, browser>>
    <3>1. PICK s \in Sizes \ {"full"} : /\ size' = [size EXCEPT ![current] = s]
                                       /\ wanted' = [wanted EXCEPT ![current] = s]
      BY <2>2
    <3>2. size' \in [Windows -> Sizes] /\ wanted' \in [Windows -> Sizes \ {"full"}]
      BY <3>1
    <3> QED BY <2>1, <2>2, <3>2
  <2>3. CASE /\ call[k].kind = "switchWindow" /\ browser
             /\ current' \in open
             /\ UNCHANGED <<open, size, wanted, browser>>
    BY <2>1, <2>3
  <2>4. CASE /\ call[k].kind = "newWindow" /\ Serves
             /\ \E w \in Windows \ open : open' = open \union {w} /\ current' = w
             /\ UNCHANGED <<size, wanted, browser>>
    BY <2>1, <2>4
  <2>5. CASE /\ call[k].kind = "closeWindow" /\ Serves
             /\ open' = open \ {current} /\ current' = None
             /\ size' = [size EXCEPT ![current] = "small"]
             /\ wanted' = [wanted EXCEPT ![current] = "small"]
             /\ browser' = (open' # {})
    BY <2>1, <2>5 DEF Sizes
  <2> QED BY <1>5, <2>2, <2>3, <2>4, <2>5 DEF UseWindow
<1>6. ASSUME NEW k \in Calls, Measure(k)
      PROVE  WindowTyped'
  BY <1>6 DEF Measure, host
<1>7. ASSUME NEW k \in Calls, Enlarge(k) \/ RestoreSize(k)
      PROVE  WindowTyped'
  <2>1. PICK s \in Sizes : size' = [size EXCEPT ![current] = s]
    BY <1>7 DEF Enlarge, RestoreSize, Sizes, RequestsFit, RequestType
  <2> QED BY <1>7, <2>1 DEF Enlarge, RestoreSize, host
<1>8. ASSUME NEW k \in Calls, Unserved(k) \/ DriverFails(k)
      PROVE  WindowTyped'
  <2>1. PICK acted \in BOOLEAN : Thrown(k, acted)
    BY <1>8 DEF Unserved, DriverFails
  <2>2. session' \in BOOLEAN /\ calm' \in BOOLEAN
    BY <2>1 DEF Thrown
  <2> QED BY <2>1, <2>2 DEF Thrown
<1>9. CASE CloseSession \/ Quit \/ Lose \/ Render \/ LogEvent
  BY <1>9 DEF CloseSession, Quit, Lose, Render, LogEvent, window, host
<1> QED BY <1>1, <1>2, <1>3, <1>4, <1>5, <1>6, <1>7, <1>8, <1>9 DEF Next, Handler, Quiet

-------------------------------------------------------------------------------
(* Captures                                                                *)

\* As long as no capture is disturbed there is one at a time, it stays in the window it has
\* measured, and no other window is touched.
OneCapture ==
  \A j, k \in Calls : Capturing(j) /\ Capturing(k) => j = k

Restored ==
  (\A k \in Calls : ~Capturing(k)) => \A w \in Windows : size[w] = wanted[w]

CaptureFits(k) ==
  /\ current \in open /\ call[k].saved = wanted[current]
  /\ \A w \in Windows \ {current} : size[w] = wanted[w]
  /\ call[k].pc = "measured" => size[current] = wanted[current]

CapturesFit ==
  calm /\ browser =>
    OneCapture /\ Restored /\ \A k \in Calls : Capturing(k) => CaptureFits(k)

\* Nobody's captures are touched.
LEMMA CapturesSame ==
  ASSUME CapturesFit, UNCHANGED <<open, current, size, wanted>>,
         calm' /\ browser' => calm /\ browser,
         \A j \in Calls : \/ call'[j] = call[j]
                          \/ ~Capturing(j) /\ ~Capturing(j)'
  PROVE  CapturesFit'
<1> SUFFICES ASSUME calm', browser'
             PROVE  OneCapture' /\ Restored' /\ \A k \in Calls : Capturing(k)' => CaptureFits(k)'
  BY DEF CapturesFit
<1>1. OneCapture /\ Restored /\ \A k \in Calls : Capturing(k) => CaptureFits(k)
  BY DEF CapturesFit
<1>2. \A j \in Calls : /\ Capturing(j)' <=> Capturing(j)
                       /\ Capturing(j) => call'[j] = call[j]
  BY DEF Capturing
<1>3. OneCapture' /\ Restored'
  BY <1>1, <1>2 DEF OneCapture, Restored
<1>4. ASSUME NEW k \in Calls, Capturing(k)'
      PROVE  CaptureFits(k)'
  BY <1>1, <1>2, <1>4 DEF CaptureFits
<1> QED BY <1>3, <1>4

\* One handler moves that captures neither before nor after.
LEMMA CapturesMoved ==
  ASSUME RequestsFit, CapturesFit, UNCHANGED <<open, current, size, wanted>>,
         calm' /\ browser' => calm /\ browser, NEW k \in Calls, ~Capturing(k),
         NEW new, call' = [call EXCEPT ![k] = new],
         new.pc \notin {"measured", "enlarged", "restoring"}
  PROVE  CapturesFit'
<1>1. call \in [Calls -> RequestType]
  BY DEF RequestsFit
<1>2. call'[k] = new /\ \A j \in Calls \ {k} : call'[j] = call[j]
  BY <1>1
<1>3. ~Capturing(k)'
  BY <1>2 DEF Capturing
<1> QED BY <1>2, <1>3, CapturesSame

LEMMA InitCaptures == Init => CapturesFit
<1> SUFFICES ASSUME Init
             PROVE  CapturesFit
  OBVIOUS
<1>1. \A k \in Calls : ~Capturing(k)
  BY DEF Init, Capturing, Idle
<1>2. \A w \in Windows : size[w] = wanted[w]
  BY DEF Init
<1> QED BY <1>1, <1>2 DEF CapturesFit, OneCapture, Restored

\* A handler that is not at a capture goes on or ends.
LEMMA EndsOutside ==
  ASSUME RequestsFit, CapturesFit, UNCHANGED <<open, current, size, wanted>>,
         calm' /\ browser' => calm /\ browser, NEW k \in Calls, ~Capturing(k),
         NEW told, Ends(k, told)
  PROVE  CapturesFit'
<1> DEFINE new == Ended(call[k], told)
<1>1. call' = [call EXCEPT ![k] = new] /\ new.pc = "idle"
  BY DEF Ends, Ended, Idle, RequestsFit
<1> HIDE DEF new
<1> QED BY <1>1, CapturesMoved

LEMMA MovesOutside ==
  ASSUME RequestsFit, CapturesFit, UNCHANGED <<open, current, size, wanted>>,
         calm' /\ browser' => calm /\ browser, NEW k \in Calls, ~Capturing(k),
         NEW pc \in Pcs \ {"measured", "enlarged", "restoring"}, Goes(k, pc)
  PROVE  CapturesFit'
<1> DEFINE new == [call[k] EXCEPT !.pc = pc]
<1>1. call' = [call EXCEPT ![k] = new] /\ new.pc = pc
  BY DEF Goes, RequestsFit, RequestType
<1> HIDE DEF new
<1> QED BY <1>1, CapturesMoved

\* The next place of a handler that looks for an element and uses it.
LEMMA SearchMoves ==
  ASSUME RequestsFit, NEW k \in Calls, Find(k) \/ Aim(k) \/ Execute(k)
  PROVE  \E new : /\ call' = [call EXCEPT ![k] = new]
                  /\ new.pc \in {"aiming", "found", "finding", "idle"}
<1>0. call \in [Calls -> RequestType] /\ call[k] \in RequestType
  BY DEF RequestsFit
<1>1. CASE \E told : Ends(k, told)
  <2>1. PICK told : Ends(k, told)
    BY <1>1
  <2>2. Ended(call[k], told).pc = "idle"
    BY DEF Ended, Idle
  <2> QED BY <1>0, <2>1, <2>2 DEF Ends, Ended
<1>2. CASE Find(k) /\ present
  <2> DEFINE new == [call[k] EXCEPT !.pc = IF call[k].kind = "drag" THEN "aiming" ELSE "found",
                                    !.from = page,
                                    !.first = IF call[k].attempt = 1 THEN page ELSE @]
  <2>1. new.pc \in {"aiming", "found"}
    BY <1>0 DEF RequestType
  <2>2. call' = [call EXCEPT ![k] = new]
    BY <1>0, <1>2 DEF Find
  <2> HIDE DEF new
  <2> QED BY <2>1, <2>2
<1>3. CASE Aim(k) /\ present
  <2>1. [call[k] EXCEPT !.pc = "found", !.to = page].pc = "found"
    BY <1>0 DEF RequestType
  <2> QED BY <1>0, <1>3, <2>1 DEF Aim
<1>4. CASE Execute(k) /\ Done(k)
  <2> DEFINE on == [call[k] EXCEPT !.acts = @ + 1, !.round = @ + 1, !.attempt = 1,
                                   !.pc = "finding"]
             end == [Idle(call[k].kind) EXCEPT !.answer = "ok", !.acts = call[k].acts + 1]
  <2>1. on.pc = "finding" /\ end.pc = "idle"
    BY <1>0 DEF RequestType, Idle
  <2>2. call' = [call EXCEPT ![k] = on] \/ call' = [call EXCEPT ![k] = end]
    BY <1>0, <1>4 DEF Done
  <2> HIDE DEF on, end
  <2>3. \E new \in {on, end} : call' = [call EXCEPT ![k] = new]
    BY <2>2
  <2> QED BY <2>1, <2>3
<1>5. CASE /\ Execute(k)
           /\ call' = [call EXCEPT ![k].attempt = 2,
                        ![k].pc = IF call[k].kind = "drag" THEN "aiming" ELSE "finding"]
  <2> DEFINE new == [call[k] EXCEPT !.attempt = 2,
                                    !.pc = IF call[k].kind = "drag" THEN "aiming" ELSE "finding"]
  <2>1. new.pc \in {"aiming", "finding"}
    BY <1>0 DEF RequestType
  <2>2. call' = [call EXCEPT ![k] = new]
    BY <1>0, <1>5
  <2> HIDE DEF new
  <2> QED BY <2>1, <2>2
<1> QED BY <1>1, <1>2, <1>3, <1>4, <1>5 DEF Find, Aim, Execute
\* The next place of a handler the driver has thrown at.
LEMMA ThrownMoves ==
  ASSUME RequestsFit, NEW k \in Calls, NEW acted \in BOOLEAN, Thrown(k, acted)
  PROVE  \E new : /\ call' = [call EXCEPT ![k] = new]
                  /\ new.pc = IF call[k].pc \in {"measured", "enlarged"}
                                THEN "restoring" ELSE "idle"
<1>1. call \in [Calls -> RequestType] /\ call[k] \in RequestType
  BY DEF RequestsFit
<1>2. CASE call[k].pc \in {"measured", "enlarged"}
  <2> DEFINE new == [call[k] EXCEPT !.pc = "restoring", !.fine = FALSE]
  <2>1. call' = [call EXCEPT ![k] = new] /\ new.pc = "restoring"
    BY <1>1, <1>2 DEF Thrown, RequestType
  <2> HIDE DEF new
  <2> QED BY <1>2, <2>1
<1>3. CASE call[k].pc \notin {"measured", "enlarged"} /\ \E told : Ends(k, told)
  <2>1. PICK told : Ends(k, told)
    BY <1>3
  <2>2. call' = [call EXCEPT ![k] = Ended(call[k], told)] /\ Ended(call[k], told).pc = "idle"
    BY <1>1, <2>1 DEF Ends, Ended, Idle
  <2> HIDE DEF Ended
  <2> QED BY <1>3, <2>2
<1>4. CASE call[k].pc \notin {"measured", "enlarged"} /\ ~\E told : Ends(k, told)
  <2> DEFINE new == [Idle(call[k].kind) EXCEPT
                       !.answer = IF browser THEN "failed" ELSE "lost",
                       !.acts = call[k].acts + IF acted /\ call[k].pc = "found" THEN 1 ELSE 0]
  <2>1. call' = [call EXCEPT ![k] = new] /\ new.pc = "idle"
    BY <1>1, <1>4 DEF Thrown, Idle
  <2> HIDE DEF new
  <2> QED BY <1>4, <2>1
<1> QED BY <1>2, <1>3, <1>4

\* The handlers that do not touch the windows.
LEMMA CapturesQuiet ==
  ASSUME PageAssumption, RequestsFit, CapturesFit, NEW k \in Calls, Quiet(k), ~Shoot(k)
  PROVE  CapturesFit'
<1> USE DEF Capturing
<1>1. UNCHANGED <<open, current, size, wanted, calm, browser>>
  BY QuietChangesNothing DEF window, host
<1>2. call \in [Calls -> RequestType] /\ call[k] \in RequestType
  BY DEF RequestsFit
<1>3. CASE Request(k)
  <2>1. PICK kind \in Kinds : Issue(k, kind)
    BY <1>3, RequestIssues
  <2>2. call' = [call EXCEPT ![k] = [Idle(kind) EXCEPT !.pc = "issued"]] /\ call[k].pc = "idle"
    BY <2>1 DEF Issue
  <2>3. [Idle(kind) EXCEPT !.pc = "issued"].pc = "issued"
    BY DEF Idle
  <2> QED BY <1>1, <2>2, <2>3, CapturesMoved
<1>4. CASE Leave(k) \/ Expire(k)
  <2>1. PICK new : /\ call' = [call EXCEPT ![k] = new] /\ new.pc = call[k].pc
                   /\ call[k].pc \in {"polling", "pausing", "loading"}
    <3>1. CASE Leave(k)
      <4>1. [call[k] EXCEPT !.left = TRUE].pc = call[k].pc
        BY <1>2 DEF RequestType
      <4> QED BY <1>2, <3>1, <4>1 DEF Leave
    <3>2. CASE Expire(k)
      <4>1. [call[k] EXCEPT !.late = TRUE].pc = call[k].pc
        BY <1>2 DEF RequestType
      <4> QED BY <1>2, <3>2, <4>1 DEF Expire
    <3> QED BY <1>4, <3>1, <3>2
  <2> QED BY <1>1, <2>1, CapturesMoved
<1>5. CASE \/ Routed(k) \/ Poll(k) \/ Pause(k) \/ GiveUp(k) \/ Inspect(k)
           \/ Command(k) \/ Devtools(k) \/ ToolsFound(k) \/ Collected(k)
  <2>1. /\ call[k].pc \in {"issued", "polling", "pausing", "loading", "inspecting", "commanding",
                           "pushing"}
        /\ \/ \E told : Ends(k, told)
           \/ \E pc \in {"polling", "pausing", "finding", "measuring", "loading", "draining",
                         "commanding"} : Goes(k, pc)
    <3>1. CASE Routed(k)
      <4>1. Start(call[k].kind) \in {"polling", "pausing", "finding", "measuring", "loading",
                                     "draining", "commanding"}
        BY <1>2 DEF Start, RequestType, Kinds
      <4> QED BY <3>1, <4>1 DEF Routed
    <3>2. CASE Poll(k) \/ Pause(k) \/ GiveUp(k)
      BY <3>2 DEF Poll, Pause, GiveUp
    <3>3. CASE Inspect(k) \/ Command(k) \/ Devtools(k) \/ ToolsFound(k) \/ Collected(k)
      BY <3>3 DEF Inspect, Command, Devtools, ToolsFound, Collected
    <3> QED BY <1>5, <3>1, <3>2, <3>3
  <2>2. ASSUME NEW pc \in {"polling", "pausing", "finding", "measuring", "loading", "draining",
                           "commanding"}, Goes(k, pc)
        PROVE  CapturesFit'
    <3>1. pc \in Pcs \ {"measured", "enlarged", "restoring"} /\ ~Capturing(k)
      BY <2>1 DEF Pcs
    <3> QED BY <1>1, <2>2, <3>1, MovesOutside
  <2>3. ASSUME NEW told, Ends(k, told)
        PROVE  CapturesFit'
    BY <1>1, <2>1, <2>3, EndsOutside
  <2> QED BY <2>1, <2>2, <2>3
<1>6. CASE Find(k) \/ Aim(k) \/ Execute(k)
  <2>1. call[k].pc \in {"finding", "aiming", "found"}
    BY <1>6 DEF Find, Aim, Execute
  <2>2. PICK new : /\ call' = [call EXCEPT ![k] = new]
                   /\ new.pc \in {"aiming", "found", "finding", "idle"}
    BY <1>6, SearchMoves
  <2> QED BY <1>1, <2>1, <2>2, CapturesMoved
<1> QED BY <1>3, <1>4, <1>5, <1>6 DEF Quiet

\* The commands to the windows, when nobody's capture is disturbed.
LEMMA CapturesCommanded ==
  ASSUME PageAssumption, RequestsFit, WindowTyped, CapturesFit, NEW k \in Calls, UseWindow(k)
  PROVE  CapturesFit'
<1>1. call[k].pc = "commanding" /\ ~Capturing(k) /\ Ends(k, "ok")
      /\ calm' = (calm /\ ~Disturbed(k))
  BY DEF UseWindow, Capturing
<1>2. \A j \in Calls : Capturing(j)' <=> (Capturing(j) /\ j # k)
  <2>1. call' = [call EXCEPT ![k] = Ended(call[k], "ok")] /\ Ended(call[k], "ok").pc = "idle"
    BY <1>1 DEF Ends, Ended, Idle, RequestsFit
  <2> HIDE DEF Ended
  <2>2. /\ call \in [Calls -> RequestType] /\ call'[k].pc = "idle"
        /\ \A j \in Calls \ {k} : call'[j] = call[j]
    BY <2>1 DEF RequestsFit
  <2> QED BY <2>2 DEF Capturing
<1> SUFFICES ASSUME calm', browser'
             PROVE  CapturesFit'
  BY DEF CapturesFit
<1>3. browser /\ calm /\ \A j \in Calls : ~Capturing(j)
  <2>1. browser
    BY DEF UseWindow, Serves
  <2> QED BY <1>1, <2>1 DEF Disturbed
<1>4. \A w \in Windows : size[w] = wanted[w]
  BY <1>3 DEF CapturesFit, Restored
<1>5. \A j \in Calls : ~Capturing(j)'
  BY <1>2, <1>3
<1>6. \A w \in Windows : size'[w] = wanted'[w]
  <2>1. CASE UNCHANGED <<size, wanted>>
    BY <1>4, <2>1
  <2>2. CASE \E s \in Sizes : /\ size' = [size EXCEPT ![current] = s]
                              /\ wanted' = [wanted EXCEPT ![current] = s]
    BY <1>4, <2>2 DEF WindowTyped
  <2> QED BY <2>1, <2>2 DEF UseWindow, Sizes
<1> QED BY <1>5, <1>6 DEF CapturesFit, OneCapture, Restored

\* A capture begins, goes on, and gives the window its size back.
LEMMA CapturesGoOn ==
  ASSUME PageAssumption, RequestsFit, WindowTyped, CapturesFit, NEW k \in Calls,
         Measure(k) \/ Enlarge(k) \/ Shoot(k) \/ RestoreSize(k)
  PROVE  CapturesFit'
<1> SUFFICES ASSUME calm', browser'
             PROVE  CapturesFit'
  BY DEF CapturesFit
<1>1. call \in [Calls -> RequestType] /\ call[k] \in RequestType
  BY DEF RequestsFit
<1>2. /\ calm /\ browser /\ current \in open /\ current \in Windows
      /\ UNCHANGED <<open, current, wanted>>
  BY DEF Measure, Enlarge, Shoot, RestoreSize, Serves, WindowTyped, window, host
<1>3. OneCapture /\ Restored /\ \A j \in Calls : Capturing(j) => CaptureFits(j)
  BY <1>2 DEF CapturesFit
<1>4. \A j \in Calls \ {k} : ~Capturing(j)
  <2>1. CASE Measure(k)
    BY <2>1 DEF Measure, Disturbed
  <2>2. CASE Enlarge(k) \/ Shoot(k) \/ RestoreSize(k)
    <3>1. Capturing(k)
      BY <2>2 DEF Enlarge, Shoot, RestoreSize, Capturing
    <3> QED BY <1>3, <3>1 DEF OneCapture
  <2> QED BY <2>1, <2>2
<1>5. \A j \in Calls \ {k} : call'[j] = call[j]
  BY <1>1 DEF Measure, Enlarge, Shoot, RestoreSize, Goes, Ends
<1>6. \A j \in Calls \ {k} : ~Capturing(j)'
  BY <1>4, <1>5 DEF Capturing
<1>7. OneCapture'
  BY <1>6 DEF OneCapture
<1>8. CASE Measure(k)
  <2>1. call'[k].pc = "measured" /\ call'[k].saved = size[current] /\ size' = size
    BY <1>1, <1>8 DEF Measure, RequestType
  <2>2. \A w \in Windows : size[w] = wanted[w]
    <3>1. ~Capturing(k)
      BY <1>8 DEF Measure, Capturing
    <3> QED BY <1>3, <1>4, <3>1 DEF Restored
  <2>3. CaptureFits(k)'
    BY <1>2, <2>1, <2>2 DEF CaptureFits
  <2>4. Capturing(k)'
    BY <2>1 DEF Capturing
  <2> QED BY <1>6, <1>7, <2>3, <2>4 DEF CapturesFit, Restored
<1>9. CASE Enlarge(k) \/ Shoot(k)
  <2>1. call'[k].pc \in {"enlarged", "restoring"} /\ call'[k].saved = call[k].saved
    <3>1. CASE Enlarge(k)
      BY <1>1, <3>1 DEF Enlarge, Goes, RequestType
    <3>2. CASE Shoot(k)
      BY <1>1, <3>2 DEF Shoot, Goes, RequestType
    <3> QED BY <1>9, <3>1, <3>2
  <2>2. CaptureFits(k)
    BY <1>3, <1>9 DEF Enlarge, Shoot, Capturing
  <2>3. \A w \in Windows \ {current} : size'[w] = size[w]
    BY <1>9 DEF Enlarge, Shoot, WindowTyped, window
  <2>4. CaptureFits(k)'
    BY <1>2, <2>1, <2>2, <2>3 DEF CaptureFits
  <2>5. Capturing(k)'
    BY <2>1 DEF Capturing
  <2> QED BY <1>6, <1>7, <2>4, <2>5 DEF CapturesFit, Restored
<1>10. CASE RestoreSize(k)
  <2>1. call[k].pc = "restoring" /\ size' = [size EXCEPT ![current] = call[k].saved]
    BY <1>10 DEF RestoreSize
  <2>2. CaptureFits(k)
    BY <1>3, <2>1 DEF Capturing
  <2>3. \A w \in Windows : size'[w] = wanted'[w]
    BY <1>2, <2>1, <2>2 DEF CaptureFits, WindowTyped
  <2>4. ~Capturing(k)'
    <3>1. PICK told : Ends(k, told)
      BY <1>10 DEF RestoreSize
    <3>2. call'[k].pc = "idle"
      BY <1>1, <3>1 DEF Ends, Idle
    <3> QED BY <3>2 DEF Capturing
  <2> QED BY <1>6, <1>7, <2>3, <2>4 DEF CapturesFit, Restored
<1> QED BY <1>8, <1>9, <1>10

\* A capture the driver fails gives the window its size back; one that fails then has been
\* disturbed.
LEMMA CapturesThrown ==
  ASSUME PageAssumption, RequestsFit, WindowTyped, CapturesFit, NEW k \in Calls,
         NEW acted \in BOOLEAN, Thrown(k, acted)
  PROVE  CapturesFit'
<1> SUFFICES ASSUME calm', browser'
             PROVE  CapturesFit'
  BY DEF CapturesFit
<1>1. call \in [Calls -> RequestType] /\ call[k] \in RequestType
  BY DEF RequestsFit
<1>2. /\ calm /\ browser /\ call[k].pc # "restoring"
      /\ UNCHANGED <<open, current, size, wanted, browser>>
  BY DEF Thrown, WindowTyped
<1>3. CASE call[k].pc \in {"measured", "enlarged"}
  <2>1. call' = [call EXCEPT ![k] = [call[k] EXCEPT !.pc = "restoring", !.fine = FALSE]]
    BY <1>1, <1>3 DEF Thrown
  <2>2. /\ call'[k].pc = "restoring" /\ call'[k].saved = call[k].saved
        /\ \A j \in Calls \ {k} : call'[j] = call[j]
    BY <1>1, <2>1 DEF RequestType
  <2>3. OneCapture /\ CaptureFits(k) /\ Capturing(k)
    BY <1>2, <1>3 DEF CapturesFit, Capturing
  <2>4. CaptureFits(k)' /\ Capturing(k)'
    BY <1>2, <2>2, <2>3 DEF CaptureFits, Capturing
  <2>5. \A j \in Calls \ {k} : ~Capturing(j)'
    BY <2>2, <2>3 DEF OneCapture, Capturing
  <2> QED BY <2>4, <2>5 DEF CapturesFit, OneCapture, Restored
<1>4. CASE call[k].pc \notin {"measured", "enlarged"}
  <2>1. ~Capturing(k)
    BY <1>2, <1>4 DEF Capturing
  <2>2. PICK new : call' = [call EXCEPT ![k] = new] /\ new.pc = "idle"
    BY <1>4, ThrownMoves
  <2> QED BY <1>2, <2>1, <2>2, CapturesMoved
<1> QED BY <1>3, <1>4

LEMMA CapturesStep ==
  ASSUME PageAssumption, RequestsFit, WindowTyped, CapturesFit, [Next]_vars
  PROVE  CapturesFit'
<1>1. CASE UNCHANGED vars
  BY <1>1, CapturesSame DEF vars, window, host
<1>2. ASSUME NEW k \in Calls, Quiet(k), ~Shoot(k)
      PROVE  CapturesFit'
  BY <1>2, CapturesQuiet
<1>3. ASSUME NEW k \in Calls, UseWindow(k)
      PROVE  CapturesFit'
  BY <1>3, CapturesCommanded
<1>4. ASSUME NEW k \in Calls, Measure(k) \/ Enlarge(k) \/ Shoot(k) \/ RestoreSize(k)
      PROVE  CapturesFit'
  BY <1>4, CapturesGoOn
<1>5. ASSUME NEW k \in Calls, Unserved(k) \/ DriverFails(k)
      PROVE  CapturesFit'
  <2>1. PICK acted \in BOOLEAN : Thrown(k, acted)
    BY <1>5 DEF Unserved, DriverFails
  <2> QED BY <2>1, CapturesThrown
<1>6. ASSUME NEW k \in Calls, Load(k)
      PROVE  CapturesFit'
  <2>1. /\ ~Capturing(k) /\ Goes(k, "inspecting")
        /\ UNCHANGED <<open, current, size, wanted, calm, browser>>
    BY <1>6 DEF Load, Capturing, window
  <2> QED BY <2>1, MovesOutside DEF Pcs
<1>7. ASSUME NEW k \in Calls, Drain(k) \/ Push(k)
      PROVE  CapturesFit'
  <2>1. ~Capturing(k) /\ UNCHANGED <<open, current, size, wanted, calm, browser>>
    BY <1>7 DEF Drain, Push, Capturing, window, host
  <2>2. PICK b : call' = [call EXCEPT ![k] = [call[k] EXCEPT !.pc = "pushing", !.batch = b]]
    <3>1. CASE Drain(k)
      BY <3>1 DEF Drain, RequestsFit
    <3>2. CASE Push(k)
      <4>1. call[k] \in RequestType /\ call[k].pc = "pushing"
        BY <3>2 DEF Push, RequestsFit
      <4>2. [call[k] EXCEPT !.batch = Tail(call[k].batch)]
              = [call[k] EXCEPT !.pc = "pushing", !.batch = Tail(call[k].batch)]
        BY <4>1 DEF RequestType
      <4>3. call' = [call EXCEPT ![k] = [call[k] EXCEPT !.batch = Tail(call[k].batch)]]
        BY <3>2 DEF Push, RequestsFit
      <4> QED BY <4>2, <4>3
    <3> QED BY <1>7, <3>1, <3>2
  <2> DEFINE new == [call[k] EXCEPT !.pc = "pushing", !.batch = b]
  <2>3. new.pc = "pushing" /\ call' = [call EXCEPT ![k] = new]
    BY <2>2 DEF RequestsFit, RequestType
  <2> HIDE DEF new
  <2> QED BY <2>1, <2>3, CapturesMoved
<1>8. ASSUME NEW k \in Calls, Clear(k)
      PROVE  CapturesFit'
  <2>1. ~Capturing(k) /\ UNCHANGED <<open, current, size, wanted, calm, browser>>
    BY <1>8 DEF Clear, Capturing, window, host
  <2>2. PICK told : Ends(k, told)
    BY <1>8 DEF Clear
  <2> QED BY <2>1, <2>2, EndsOutside
<1>9. CASE CloseSession \/ Quit \/ Lose \/ Render \/ LogEvent
  BY <1>9, CapturesSame DEF CloseSession, Quit, Lose, Render, LogEvent, window, host
<1> QED BY <1>1, <1>2, <1>3, <1>4, <1>5, <1>6, <1>7, <1>8, <1>9 DEF Next, Handler, Quiet

-------------------------------------------------------------------------------
(* Collections                                                             *)

Pushing(k) == call[k].pc = "pushing"

OnePusher == \A j, k \in Calls : Pushing(j) /\ Pushing(k) => j = k

\* Events the driver still has follow those a collection is about to push, which follow those
\* that are in the buffer.
Follows(batch) ==
  /\ seen + Len(batch) + Len(log) = events
  /\ \A i \in 1..Len(batch) : batch[i] = seen + i
  /\ \A i \in 1..Len(log) : log[i] = seen + Len(batch) + i

Oldest == IF seen > cleared + EventLimit THEN seen - EventLimit ELSE cleared

BufferFits ==
  cleared <= seen /\ Len(buffer) = seen - Oldest
  /\ \A i \in 1..Len(buffer) : buffer[i] = Oldest + i

EventsFit ==
  /\ OnePusher
  /\ \A k \in Calls : Pushing(k) => Follows(call[k].batch)
  /\ (\A k \in Calls : ~Pushing(k)) => Follows(<<>>)

CollectionsFit == single => EventsFit /\ BufferFits

LEMMA InitCollections == PageAssumption /\ Init => CollectionsFit
<1> SUFFICES ASSUME PageAssumption, Init
             PROVE  CollectionsFit
  OBVIOUS
<1>1. \A k \in Calls : ~Pushing(k)
  BY DEF Init, Pushing, Idle
<1>2. log = <<>> /\ buffer = <<>> /\ seen = 0 /\ cleared = 0 /\ events = 0
  BY DEF Init
<1>3. Follows(<<>>)
  BY <1>2 DEF Follows
<1>4. BufferFits
  <2>1. Oldest = 0 /\ Len(buffer) = 0
    BY <1>2 DEF Oldest, PageAssumption
  <2> QED BY <1>2, <2>1 DEF BufferFits
<1> QED BY <1>1, <1>3, <1>4 DEF CollectionsFit, EventsFit, OnePusher

\* Nobody's collection is touched.
LEMMA CollectionsSame ==
  ASSUME CollectionsFit, UNCHANGED <<log, buffer, seen, cleared, events>>, single' => single,
         \A j \in Calls : \/ call'[j] = call[j]
                          \/ ~Pushing(j) /\ ~Pushing(j)'
  PROVE  CollectionsFit'
<1> SUFFICES ASSUME single'
             PROVE  EventsFit' /\ BufferFits'
  BY DEF CollectionsFit
<1>1. EventsFit /\ BufferFits
  BY DEF CollectionsFit
<1>2. BufferFits'
  BY <1>1 DEF BufferFits, Oldest
<1>3. \A j \in Calls : /\ Pushing(j)' <=> Pushing(j)
                       /\ Pushing(j) => call'[j] = call[j]
  BY DEF Pushing
<1>4. \A b : Follows(b)' <=> Follows(b)
  BY DEF Follows
<1>5. OnePusher'
  BY <1>1, <1>3 DEF EventsFit, OnePusher
<1>6. ASSUME NEW j \in Calls, Pushing(j)'
      PROVE  Follows(call[j].batch)'
  <2>1. call'[j] = call[j] /\ Follows(call[j].batch)
    BY <1>1, <1>3, <1>6 DEF EventsFit
  <2> QED BY <2>1 DEF Follows
<1>7. (\A k \in Calls : ~Pushing(k)') => Follows(<<>>)'
  BY <1>1, <1>3 DEF EventsFit, Follows
<1> QED BY <1>2, <1>5, <1>6, <1>7 DEF EventsFit

LEMMA CollectionsMoved ==
  ASSUME RequestsFit, CollectionsFit, UNCHANGED <<log, buffer, seen, cleared, events>>,
         single' => single, NEW k \in Calls, ~Pushing(k),
         NEW new, call' = [call EXCEPT ![k] = new], new.pc # "pushing"
  PROVE  CollectionsFit'
<1>1. call'[k] = new /\ \A j \in Calls \ {k} : call'[j] = call[j]
  BY DEF RequestsFit
<1>2. ~Pushing(k)'
  BY <1>1 DEF Pushing
<1> QED BY <1>1, <1>2, CollectionsSame

\* collect() begins, when no other one is under way.
LEMMA DrainCollects ==
  ASSUME PageAssumption, RequestsFit, DiagnosisTyped, CountsTyped, CollectionsFit,
         NEW k \in Calls, Drain(k)
  PROVE  CollectionsFit'
<1> SUFFICES ASSUME single'
             PROVE  EventsFit' /\ BufferFits'
  BY DEF CollectionsFit
<1>1. /\ single /\ \A j \in Calls \ {k} : ~Pushing(j)
      /\ UNCHANGED <<buffer, seen, cleared, events>> /\ log' = <<>> /\ ~Pushing(k)
  BY DEF Drain, Pushing
<1>2. EventsFit /\ BufferFits
  BY <1>1 DEF CollectionsFit
<1>3. Follows(<<>>)
  BY <1>1, <1>2 DEF EventsFit
<1>4. call \in [Calls -> RequestType] /\ call[k] \in RequestType
  BY DEF RequestsFit
<1>5. /\ call'[k].pc = "pushing" /\ call'[k].batch = log
      /\ \A j \in Calls \ {k} : call'[j] = call[j]
  BY <1>4 DEF Drain, RequestType
<1>6. Pushing(k)' /\ \A j \in Calls \ {k} : ~Pushing(j)'
  BY <1>1, <1>5 DEF Pushing
<1>7. Follows(call[k].batch)'
  <2>1. Len(<<>>) = 0 /\ Len(log) \in Nat /\ seen \in Nat
    BY DEF DiagnosisTyped, PageAssumption
  <2>2. /\ seen + Len(log) = events
        /\ \A i \in 1..Len(log) : log[i] = seen + i
    BY <1>3, <2>1 DEF Follows
  <2> QED BY <1>1, <1>5, <2>1, <2>2 DEF Follows
<1>8. BufferFits'
  BY <1>1, <1>2 DEF BufferFits, Oldest
<1> QED BY <1>6, <1>7, <1>8 DEF EventsFit, OnePusher

\* pushDiagnostic() keeps the newest events.
LEMMA PushKeepsNewest ==
  ASSUME PageAssumption, DiagnosisTyped, BufferFits, seen' = seen + 1, cleared' = cleared,
         buffer' = KeepNewest(Append(buffer, seen + 1))
  PROVE  BufferFits'
<1> DEFINE all == Append(buffer, seen + 1)
           n == Len(buffer)
           L == EventLimit
<1>1. /\ n \in Nat /\ L \in Nat \ {0} /\ n <= L /\ seen \in Nat /\ cleared \in Nat
      /\ cleared <= seen /\ n = seen - Oldest
      /\ \A i \in 1..n : buffer[i] = Oldest + i
  BY DEF PageAssumption, DiagnosisTyped, BufferFits
<1>2. /\ Len(all) = n + 1 /\ \A i \in 1..n : all[i] = buffer[i]
      /\ all[n + 1] = seen + 1 /\ all \in Seq(Nat)
  <2>1. buffer \in Seq(Nat) /\ seen + 1 \in Nat
    BY <1>1 DEF DiagnosisTyped, PageAssumption
  <2> QED BY <2>1, AppendProperties
<1>3. \A i \in 1..(n + 1) : all[i] = Oldest + i
  <2>1. Oldest \in Nat
    BY <1>1 DEF Oldest
  <2> QED BY <1>1, <1>2, <2>1
<1> HIDE DEF all
<1>4. CASE n < L
  <2>1. Oldest' = Oldest /\ Oldest = cleared
    BY <1>1, <1>4 DEF Oldest
  <2>2. buffer' = all
    BY <1>1, <1>2, <1>4 DEF KeepNewest, all
  <2> QED BY <1>1, <1>2, <1>3, <2>1, <2>2 DEF BufferFits
<1>5. CASE n = L
  <2>1. Oldest' = Oldest + 1 /\ Oldest \in Nat
    BY <1>1, <1>5 DEF Oldest
  <2>2. buffer' = SubSeq(all, 2, n + 1)
    <3>1. buffer' = KeepNewest(all)
      BY DEF all
    <3>2. Len(all) > L /\ Len(all) - L + 1 = 2 /\ Len(all) = n + 1
      BY <1>1, <1>2, <1>5
    <3> QED BY <3>1, <3>2 DEF KeepNewest
  <2>3. Len(buffer') = n /\ \A i \in 1..n : buffer'[i] = all[i + 1]
    <3>1. n \in Nat /\ 2 \in Int /\ n + 1 \in Int /\ \A i \in 2..(n + 1) : all[i] \in Nat
      BY <1>1, <1>2
    <3>2. /\ Len(buffer') = IF 2 <= n + 1 THEN (n + 1) - 2 + 1 ELSE 0
          /\ \A i \in 1..((n + 1) - 2 + 1) : buffer'[i] = all[2 + i - 1]
      <4> HIDE DEF n
      <4> QED BY <2>2, <3>1, SubSeqProperties
    <3>3. (n + 1) - 2 + 1 = n /\ \A i \in 1..n : 2 + i - 1 = i + 1
      BY <3>1
    <3> QED BY <3>1, <3>2, <3>3
  <2>4. \A i \in 1..n : buffer'[i] = Oldest' + i
    BY <1>1, <1>3, <2>1, <2>3
  <2>5. cleared' <= seen' /\ n = seen' - Oldest'
    BY <1>1, <2>1
  <2> QED BY <2>3, <2>4, <2>5 DEF BufferFits
<1> QED BY <1>1, <1>4, <1>5

LEMMA PushCollects ==
  ASSUME PageAssumption, RequestsFit, DiagnosisTyped, CountsTyped, CollectionsFit,
         NEW k \in Calls, Push(k)
  PROVE  CollectionsFit'
<1> SUFFICES ASSUME single'
             PROVE  EventsFit' /\ BufferFits'
  BY DEF CollectionsFit
<1> DEFINE b == call[k].batch
<1>1. /\ single /\ Pushing(k) /\ b # <<>> /\ UNCHANGED <<log, cleared, events>>
  BY DEF Push, Pushing
<1>2. EventsFit /\ BufferFits
  BY <1>1 DEF CollectionsFit
<1>3. call \in [Calls -> RequestType] /\ call[k] \in RequestType /\ b \in Seq(1..MaxEvents)
  BY DEF RequestsFit, RequestType
<1>4. /\ call'[k].pc = "pushing" /\ call'[k].batch = Tail(b)
      /\ \A j \in Calls \ {k} : call'[j] = call[j]
  BY <1>1, <1>3 DEF Push, RequestType, Pushing
<1>5. Pushing(k)' /\ \A j \in Calls \ {k} : ~Pushing(j)'
  BY <1>1, <1>2, <1>4 DEF Pushing, EventsFit, OnePusher
<1>6. Follows(b)
  BY <1>1, <1>2 DEF EventsFit
<1> DEFINE t == Tail(b)
<1>7. /\ Len(b) \in Nat \ {0} /\ Len(t) = Len(b) - 1 /\ Head(b) = b[1]
      /\ \A i \in 1..Len(t) : t[i] = b[i + 1]
  BY <1>1, <1>3, HeadTailProperties
<1>8. seen \in Nat /\ Len(log) \in Nat
  BY DEF DiagnosisTyped, PageAssumption
<1>9. Head(b) = seen + 1
  BY <1>6, <1>7, <1>8 DEF Follows
<1>10. seen' = seen + 1
  BY <1>9 DEF Push
<1> HIDE DEF t, b
<1>11. /\ seen' + Len(t) + Len(log) = events'
       /\ \A i \in 1..Len(t) : t[i] = seen' + i
       /\ \A i \in 1..Len(log) : log[i] = seen' + Len(t) + i
  <2>1. seen' + Len(t) = seen + Len(b)
    BY <1>7, <1>8, <1>10
  <2>2. ASSUME NEW i \in 1..Len(t)
        PROVE  t[i] = seen' + i
    <3>1. i + 1 \in 1..Len(b) /\ t[i] = b[i + 1]
      BY <1>7
    <3>2. b[i + 1] = seen + (i + 1)
      BY <1>6, <3>1 DEF Follows
    <3> QED BY <1>7, <1>8, <1>10, <3>1, <3>2
  <2> QED BY <1>1, <1>6, <2>1, <2>2 DEF Follows
<1>12. Follows(call[k].batch)'
  BY <1>1, <1>4, <1>11 DEF Follows, t, b
<1>13. BufferFits'
  <2>1. buffer' = KeepNewest(Append(buffer, seen + 1))
    BY <1>9 DEF Push, b
  <2> QED BY <1>1, <1>2, <1>10, <2>1, PushKeepsNewest
<1> QED BY <1>5, <1>12, <1>13 DEF EventsFit, OnePusher

\* What was read is answered.
LEMMA CollectedCollects ==
  ASSUME RequestsFit, DiagnosisTyped, CollectionsFit, NEW k \in Calls, Collected(k)
  PROVE  CollectionsFit'
<1> SUFFICES ASSUME single'
             PROVE  EventsFit' /\ BufferFits'
  BY DEF CollectionsFit
<1>1. /\ single /\ Pushing(k) /\ call[k].batch = <<>>
      /\ UNCHANGED <<log, buffer, seen, cleared, events>>
  BY DEF Collected, Pushing, diagnosis
<1>2. EventsFit /\ BufferFits
  BY <1>1 DEF CollectionsFit
<1>3. \A j \in Calls : ~Pushing(j)'
  <2>1. call' = [call EXCEPT ![k] = Ended(call[k], "ok")] /\ Ended(call[k], "ok").pc = "idle"
    BY DEF Collected, Ends, Ended, Idle, RequestsFit
  <2>2. \A j \in Calls \ {k} : ~Pushing(j)
    BY <1>1, <1>2 DEF EventsFit, OnePusher
  <2> HIDE DEF Ended
  <2> QED BY <2>1, <2>2 DEF Pushing, RequestsFit
<1>4. Follows(<<>>)
  BY <1>1, <1>2 DEF EventsFit
<1>5. Follows(<<>>)'
  BY <1>1, <1>4 DEF Follows
<1>6. BufferFits'
  BY <1>1, <1>2 DEF BufferFits, Oldest
<1> QED BY <1>3, <1>5, <1>6 DEF EventsFit, OnePusher

LEMMA ClearCollects ==
  ASSUME PageAssumption, RequestsFit, DiagnosisTyped, CollectionsFit, NEW k \in Calls, Clear(k)
  PROVE  CollectionsFit'
<1>1. PICK told : Ends(k, told)
  BY DEF Clear
<1>2. call' = [call EXCEPT ![k] = Ended(call[k], told)] /\ Ended(call[k], told).pc = "idle"
  BY <1>1 DEF Ends, Ended, Idle, RequestsFit
<1>3. ~Pushing(k) /\ UNCHANGED <<log, seen, single, events>>
  BY DEF Clear, Pushing
<1> HIDE DEF Ended
<1>4. CASE UNCHANGED <<buffer, cleared>>
  BY <1>2, <1>3, <1>4, CollectionsMoved
<1>5. CASE buffer' = <<>> /\ cleared' = seen
  <2> SUFFICES ASSUME single'
               PROVE  EventsFit' /\ BufferFits'
    BY DEF CollectionsFit
  <2>1. EventsFit
    BY <1>3 DEF CollectionsFit
  <2>2. \A j \in Calls : /\ Pushing(j)' <=> Pushing(j)
                         /\ Pushing(j) => call'[j] = call[j]
    BY <1>2, <1>3 DEF Pushing, RequestsFit
  <2>3. EventsFit'
    <3>1. \A c : Follows(c)' <=> Follows(c)
      BY <1>3 DEF Follows
    <3>2. ASSUME NEW j \in Calls, Pushing(j)'
          PROVE  Follows(call[j].batch)'
      <4>1. call'[j] = call[j] /\ Follows(call[j].batch)
        BY <2>1, <2>2, <3>2 DEF EventsFit
      <4> QED BY <1>3, <4>1 DEF Follows
    <3>3. OnePusher' /\ ((\A j \in Calls : ~Pushing(j)') => Follows(<<>>)')
      BY <1>3, <2>1, <2>2 DEF EventsFit, OnePusher, Follows
    <3> QED BY <3>2, <3>3 DEF EventsFit
  <2>4. BufferFits'
    BY <1>3, <1>5 DEF BufferFits, Oldest, DiagnosisTyped, PageAssumption
  <2> QED BY <2>3, <2>4
<1> QED BY <1>4, <1>5 DEF Clear

\* The browser logs an event.
LEMMA LogCollects ==
  ASSUME PageAssumption, DiagnosisTyped, CountsTyped, RequestsFit, CollectionsFit, LogEvent
  PROVE  CollectionsFit'
<1> SUFFICES ASSUME single'
             PROVE  EventsFit' /\ BufferFits'
  BY DEF CollectionsFit
<1>1. /\ single /\ events' = events + 1 /\ log' = Append(log, events + 1)
      /\ UNCHANGED <<call, buffer, seen, cleared>>
  BY DEF LogEvent
<1>2. EventsFit /\ BufferFits
  BY <1>1 DEF CollectionsFit
<1>3. ASSUME NEW b \in Seq(1..MaxEvents), Follows(b)
      PROVE  /\ seen' + Len(b) + Len(log') = events'
             /\ \A i \in 1..Len(b) : b[i] = seen' + i
             /\ \A i \in 1..Len(log') : log'[i] = seen' + Len(b) + i
  <2>1. /\ Len(log) \in Nat /\ Len(b) \in Nat /\ seen \in Nat /\ events \in Nat
        /\ log \in Seq(Nat) /\ events + 1 \in Nat
    BY DEF DiagnosisTyped, CountsTyped, PageAssumption
  <2>2. /\ Len(log') = Len(log) + 1 /\ log'[Len(log) + 1] = events + 1
        /\ \A i \in 1..Len(log) : log'[i] = log[i]
    BY <1>1, <2>1, AppendProperties
  <2>3. /\ seen + Len(b) + Len(log) = events
        /\ \A i \in 1..Len(b) : b[i] = seen + i
        /\ \A i \in 1..Len(log) : log[i] = seen + Len(b) + i
    BY <1>3 DEF Follows
  <2>4. ASSUME NEW i \in 1..Len(log')
        PROVE  log'[i] = seen' + Len(b) + i
    <3>1. CASE i \in 1..Len(log)
      BY <1>1, <2>2, <2>3, <3>1
    <3>2. CASE i = Len(log) + 1
      BY <1>1, <2>1, <2>2, <2>3, <3>2
    <3> QED BY <2>1, <2>2, <3>1, <3>2
  <2>5. seen' + Len(b) + Len(log') = events'
    <3>1. seen' = seen /\ events' = events + 1 /\ Len(log') = Len(log) + 1
      BY <1>1, <2>2
    <3>2. seen + Len(b) + Len(log) = events
      BY <2>3
    <3>3. Len(log) \in Nat /\ Len(b) \in Nat /\ seen \in Nat /\ events \in Nat
      BY <2>1
    <3>4. seen + Len(b) + (Len(log) + 1) = events + 1
      BY <3>2, <3>3
    <3> QED BY <3>1, <3>4
  <2> QED BY <1>1, <2>3, <2>4, <2>5
<1>4. ASSUME NEW j \in Calls, Pushing(j)'
      PROVE  Follows(call[j].batch)'
  <2>1. call[j].batch \in Seq(1..MaxEvents) /\ Follows(call[j].batch)
    BY <1>1, <1>2, <1>4 DEF RequestsFit, RequestType, EventsFit, Pushing
  <2> QED BY <1>1, <1>3, <2>1 DEF Follows
<1>5. (\A j \in Calls : ~Pushing(j)') => Follows(<<>>)'
  <2>1. <<>> \in Seq(1..MaxEvents)
    OBVIOUS
  <2>2. (\A j \in Calls : ~Pushing(j)') => Follows(<<>>)
    BY <1>1, <1>2 DEF EventsFit, Pushing
  <2> QED BY <1>3, <2>1, <2>2 DEF Follows
<1>6. OnePusher' /\ BufferFits'
  BY <1>1, <1>2 DEF EventsFit, OnePusher, Pushing, BufferFits, Oldest
<1> QED BY <1>4, <1>5, <1>6 DEF EventsFit

\* The handlers that do not touch the buffer.
LEMMA CollectionsQuiet ==
  ASSUME PageAssumption, RequestsFit, DiagnosisTyped, CollectionsFit, NEW k \in Calls,
         \/ Quiet(k) /\ ~Collected(k)
         \/ Load(k) \/ UseWindow(k) \/ Measure(k) \/ Enlarge(k) \/ RestoreSize(k)
         \/ Unserved(k) \/ DriverFails(k)
  PROVE  CollectionsFit'
<1>1. call \in [Calls -> RequestType] /\ call[k] \in RequestType
  BY DEF RequestsFit
<1>2. UNCHANGED <<log, buffer, seen, cleared, events>> /\ (single' => single)
  <2>1. CASE Quiet(k)
    BY <2>1, QuietChangesNothing DEF diagnosis
  <2>2. CASE Load(k) \/ UseWindow(k) \/ Measure(k) \/ Enlarge(k) \/ RestoreSize(k)
    BY <2>2 DEF Load, UseWindow, Measure, Enlarge, RestoreSize, diagnosis
  <2>3. CASE Unserved(k) \/ DriverFails(k)
    BY <2>3 DEF Unserved, DriverFails, Thrown
  <2> QED BY <2>1, <2>2, <2>3
<1>3. ASSUME NEW new, call' = [call EXCEPT ![k] = new], new.pc # "pushing", call[k].pc # "pushing"
      PROVE  CollectionsFit'
  BY <1>2, <1>3, CollectionsMoved DEF Pushing
<1>4. ASSUME NEW told, Ends(k, told), call[k].pc # "pushing"
      PROVE  CollectionsFit'
  <2>1. call' = [call EXCEPT ![k] = Ended(call[k], told)] /\ Ended(call[k], told).pc = "idle"
    BY <1>1, <1>4 DEF Ends, Ended, Idle
  <2> HIDE DEF Ended
  <2> QED BY <1>3, <1>4, <2>1
<1>5. ASSUME NEW pc \in Pcs \ {"pushing"}, Goes(k, pc), call[k].pc # "pushing"
      PROVE  CollectionsFit'
  <2> DEFINE new == [call[k] EXCEPT !.pc = pc]
  <2>1. call' = [call EXCEPT ![k] = new] /\ new.pc = pc
    BY <1>1, <1>5 DEF Goes, RequestType
  <2> HIDE DEF new
  <2> QED BY <1>3, <1>5, <2>1
<1>6. CASE Request(k)
  <2>1. PICK kind \in Kinds : Issue(k, kind)
    BY <1>6, RequestIssues
  <2> DEFINE new == [Idle(kind) EXCEPT !.pc = "issued"]
  <2>2. call' = [call EXCEPT ![k] = new] /\ call[k].pc = "idle" /\ new.pc = "issued"
    BY <2>1 DEF Issue, Idle
  <2> HIDE DEF new
  <2> QED BY <1>3, <2>2
<1>7. CASE Leave(k) \/ Expire(k)
  <2>1. PICK new \in {[call[k] EXCEPT !.left = TRUE], [call[k] EXCEPT !.late = TRUE]} :
          call' = [call EXCEPT ![k] = new]
    BY <1>1, <1>7 DEF Leave, Expire
  <2>2. new.pc = call[k].pc /\ call[k].pc # "pushing"
    BY <1>1, <1>7, <2>1 DEF RequestType, Leave, Expire
  <2> QED BY <1>3, <2>1, <2>2
<1>8. CASE \/ Routed(k) \/ Poll(k) \/ Pause(k) \/ GiveUp(k) \/ Inspect(k)
           \/ Command(k) \/ Devtools(k) \/ ToolsFound(k) \/ Load(k) \/ UseWindow(k)
           \/ Enlarge(k) \/ Shoot(k) \/ RestoreSize(k)
  <2>1. /\ call[k].pc # "pushing"
        /\ (\E told : Ends(k, told)) \/ (\E pc \in Pcs \ {"pushing"} : Goes(k, pc))
    <3>1. CASE Routed(k)
      <4>1. Start(call[k].kind) \in Pcs \ {"pushing"}
        BY <1>1 DEF Start, RequestType, Kinds, Pcs
      <4> QED BY <3>1, <4>1 DEF Routed
    <3>2. CASE Poll(k) \/ Pause(k) \/ GiveUp(k)
      BY <3>2 DEF Poll, Pause, GiveUp, Pcs
    <3>3. CASE Inspect(k) \/ Command(k) \/ Devtools(k) \/ ToolsFound(k)
      BY <3>3 DEF Inspect, Command, Devtools, ToolsFound
    <3>4. CASE UseWindow(k) \/ RestoreSize(k)
      BY <3>4 DEF UseWindow, RestoreSize
    <3>5. CASE Load(k) \/ Enlarge(k) \/ Shoot(k)
      BY <3>5 DEF Load, Enlarge, Shoot, Pcs
    <3> QED BY <1>8, <3>1, <3>2, <3>3, <3>4, <3>5
  <2> QED BY <1>4, <1>5, <2>1
<1>9. CASE Find(k) \/ Aim(k) \/ Execute(k)
  <2>1. call[k].pc # "pushing"
    BY <1>9 DEF Find, Aim, Execute
  <2>2. PICK new : /\ call' = [call EXCEPT ![k] = new]
                   /\ new.pc \in {"aiming", "found", "finding", "idle"}
    BY <1>9, SearchMoves
  <2> QED BY <1>3, <2>1, <2>2
<1>10. CASE Measure(k)
  <2> DEFINE new == [call[k] EXCEPT !.pc = "measured", !.saved = size[current]]
  <2>1. call' = [call EXCEPT ![k] = new] /\ new.pc = "measured" /\ call[k].pc = "measuring"
    BY <1>1, <1>10 DEF Measure, RequestType
  <2> HIDE DEF new
  <2> QED BY <1>3, <2>1
<1>11. CASE Unserved(k) \/ DriverFails(k)
  <2>1. PICK acted \in BOOLEAN : Thrown(k, acted)
    BY <1>11 DEF Unserved, DriverFails
  <2>2. CASE call[k].pc = "pushing"
    BY <2>1, <2>2 DEF Thrown, CollectionsFit
  <2>3. CASE call[k].pc # "pushing"
    <3>1. PICK new : /\ call' = [call EXCEPT ![k] = new]
                     /\ new.pc \in {"idle", "restoring"}
      BY <2>1, ThrownMoves
    <3> QED BY <1>3, <2>3, <3>1
  <2> QED BY <2>2, <2>3
<1> QED BY <1>6, <1>7, <1>8, <1>9, <1>10, <1>11 DEF Quiet

LEMMA CollectionsStep ==
  ASSUME PageAssumption, RequestsFit, DiagnosisTyped, CountsTyped, CollectionsFit, [Next]_vars
  PROVE  CollectionsFit'
<1>1. CASE UNCHANGED vars
  BY <1>1, CollectionsSame DEF vars, diagnosis
<1>2. ASSUME NEW k \in Calls, Request(k) \/ Handler(k) \/ Leave(k) \/ Expire(k)
      PROVE  CollectionsFit'
  <2>1. CASE \/ Quiet(k) /\ ~Collected(k)
             \/ Load(k) \/ UseWindow(k) \/ Measure(k) \/ Enlarge(k) \/ RestoreSize(k)
             \/ Unserved(k) \/ DriverFails(k)
    BY <2>1, CollectionsQuiet
  <2>2. CASE Drain(k) \/ Push(k) \/ Collected(k) \/ Clear(k)
    BY <2>2, DrainCollects, PushCollects, CollectedCollects, ClearCollects
  <2> QED BY <1>2, <2>1, <2>2 DEF Handler, Quiet
<1>3. CASE CloseSession \/ Quit \/ Lose \/ Render
  BY <1>3, CollectionsSame DEF CloseSession, Quit, Lose, Render, diagnosis
<1>4. CASE LogEvent
  BY <1>4, LogCollects
<1> QED BY <1>1, <1>2, <1>3, <1>4 DEF Next

\* The buffer keeps its type, and to its limit.
LEMMA PushTyped ==
  ASSUME PageAssumption, NEW kept \in Seq(1..MaxEvents), Len(kept) <= EventLimit + 1
  PROVE  KeepNewest(kept) \in Seq(1..MaxEvents) /\ Len(KeepNewest(kept)) <= EventLimit
<1>1. Len(kept) \in Nat /\ EventLimit \in Nat \ {0}
  BY DEF PageAssumption
<1>2. CASE Len(kept) <= EventLimit
  BY <1>1, <1>2 DEF KeepNewest
<1>3. CASE Len(kept) = EventLimit + 1
  <2>1. KeepNewest(kept) = SubSeq(kept, 2, Len(kept))
    <3>1. Len(kept) > EventLimit /\ Len(kept) - EventLimit + 1 = 2
      BY <1>1, <1>3
    <3> QED BY <3>1 DEF KeepNewest
  <2>2. /\ SubSeq(kept, 2, Len(kept)) \in Seq(1..MaxEvents)
        /\ Len(SubSeq(kept, 2, Len(kept))) = Len(kept) - 1
    BY <1>1, <1>3, SubSeqProperties
  <2> QED BY <1>1, <1>3, <2>1, <2>2
<1> QED BY <1>1, <1>2, <1>3

LEMMA DiagnosesStep ==
  ASSUME PageAssumption, RequestsFit, DiagnosisTyped, CountsTyped, [Next]_vars
  PROVE  DiagnosisTyped' /\ CountsTyped'
<1>1. CASE UNCHANGED vars
  BY <1>1 DEF vars, diagnosis, DiagnosisTyped, CountsTyped
<1>2. ASSUME NEW k \in Calls, Quiet(k)
      PROVE  DiagnosisTyped' /\ CountsTyped'
  BY <1>2, QuietChangesNothing DEF diagnosis, DiagnosisTyped, CountsTyped
<1>3. ASSUME NEW k \in Calls,
             Load(k) \/ UseWindow(k) \/ Measure(k) \/ Enlarge(k) \/ RestoreSize(k)
      PROVE  DiagnosisTyped' /\ CountsTyped'
  <2>1. UNCHANGED <<mix, events, faults, diagnosis>>
    BY <1>3 DEF Load, UseWindow, Measure, Enlarge, RestoreSize
  <2> QED BY <2>1 DEF diagnosis, DiagnosisTyped, CountsTyped
<1>4. ASSUME NEW k \in Calls, Drain(k)
      PROVE  DiagnosisTyped' /\ CountsTyped'
  <2>1. log' \in Seq(1..MaxEvents) /\ single' \in BOOLEAN
    BY <1>4, EmptySeq DEF Drain, DiagnosisTyped
  <2> QED BY <1>4, <2>1 DEF Drain, DiagnosisTyped, CountsTyped
<1>5. ASSUME NEW k \in Calls, Push(k)
      PROVE  DiagnosisTyped' /\ CountsTyped'
  <2> DEFINE e == Head(call[k].batch)
             kept == Append(buffer, e)
  <2>1. e \in 1..MaxEvents
    BY <1>5, HeadTailProperties DEF Push, RequestsFit, RequestType
  <2>2. kept \in Seq(1..MaxEvents) /\ Len(kept) <= EventLimit + 1
    <3>1. buffer \in Seq(1..MaxEvents) /\ Len(buffer) <= EventLimit /\ Len(buffer) \in Nat
      BY DEF DiagnosisTyped
    <3>2. kept \in Seq(1..MaxEvents) /\ Len(kept) = Len(buffer) + 1
      BY <2>1, <3>1, AppendProperties
    <3> HIDE DEF kept
    <3> QED BY <3>1, <3>2 DEF PageAssumption
  <2>3. /\ buffer' = KeepNewest(kept) /\ seen' = e
        /\ UNCHANGED <<mix, log, cleared, single, events, faults>>
    BY <1>5 DEF Push
  <2> HIDE DEF kept, e
  <2>4. buffer' \in Seq(1..MaxEvents) /\ Len(buffer') <= EventLimit
    BY <2>2, <2>3, PushTyped
  <2>5. seen' \in 0..MaxEvents
    BY <2>1, <2>3 DEF PageAssumption
  <2> QED BY <2>3, <2>4, <2>5 DEF DiagnosisTyped, CountsTyped
<1>6. ASSUME NEW k \in Calls, Clear(k)
      PROVE  DiagnosisTyped' /\ CountsTyped'
  <2>1. \/ buffer' = <<>> /\ cleared' = seen
        \/ UNCHANGED <<buffer, cleared>>
    BY <1>6 DEF Clear
  <2>2. <<>> \in Seq(1..MaxEvents) /\ Len(<<>>) <= EventLimit
    BY DEF PageAssumption
  <2> QED BY <1>6, <2>1, <2>2 DEF Clear, DiagnosisTyped, CountsTyped
<1>7. ASSUME NEW k \in Calls, Unserved(k) \/ DriverFails(k)
      PROVE  DiagnosisTyped' /\ CountsTyped'
  <2>1. PICK acted \in BOOLEAN : Thrown(k, acted)
    BY <1>7 DEF Unserved, DriverFails
  <2>2. /\ UNCHANGED <<mix, events, log, buffer, seen, cleared>>
        /\ single' = (single /\ call[k].pc # "pushing")
    BY <2>1 DEF Thrown
  <2>3. faults' \in 0..MaxFaults
    <3>1. UNCHANGED faults \/ (faults < MaxFaults /\ faults' = faults + 1)
      BY <1>7 DEF Unserved, DriverFails
    <3> QED BY <3>1 DEF CountsTyped, PageAssumption
  <2> QED BY <2>2, <2>3 DEF DiagnosisTyped, CountsTyped
<1>8. CASE CloseSession \/ Quit \/ Render
  BY <1>8 DEF CloseSession, Quit, Render, diagnosis, DiagnosisTyped, CountsTyped
<1>9. CASE Lose
  <2>1. faults' \in 0..MaxFaults
    BY <1>9 DEF Lose, CountsTyped, PageAssumption
  <2> QED BY <1>9, <2>1 DEF Lose, diagnosis, DiagnosisTyped, CountsTyped
<1>10. CASE LogEvent
  <2>1. events' \in 0..MaxEvents /\ events + 1 \in 1..MaxEvents
    BY <1>10 DEF LogEvent, CountsTyped, PageAssumption
  <2>2. log' \in Seq(1..MaxEvents)
    BY <1>10, <2>1, AppendProperties DEF LogEvent, DiagnosisTyped
  <2> QED BY <1>10, <2>1, <2>2 DEF LogEvent, DiagnosisTyped, CountsTyped
<1> QED BY <1>1, <1>2, <1>3, <1>4, <1>5, <1>6, <1>7, <1>8, <1>9, <1>10 DEF Next, Handler, Quiet

-------------------------------------------------------------------------------
(* The theorems                                                            *)

PageInv == RequestsFit /\ WindowTyped /\ DiagnosisTyped /\ CountsTyped
           /\ CapturesFit /\ CollectionsFit

LEMMA InitPageInv == Init => PageInv
<1> SUFFICES ASSUME Init
             PROVE  PageInv
  OBVIOUS
<1>1. RequestsFit /\ CapturesFit /\ CollectionsFit
  BY PageAssumption, InitRequests, InitCaptures, InitCollections
<1>2. WindowTyped
  BY DEF Init, WindowTyped, Sizes
<1>3. DiagnosisTyped /\ CountsTyped
  <2>1. <<>> \in Seq(1..MaxEvents) /\ Len(<<>>) = 0
    OBVIOUS
  <2> QED BY <2>1, PageAssumption DEF Init, DiagnosisTyped, CountsTyped, PageAssumption
<1> QED BY <1>1, <1>2, <1>3 DEF PageInv

LEMMA StepPageInv == PageInv /\ [Next]_vars => PageInv'
<1> SUFFICES ASSUME PageInv, [Next]_vars
             PROVE  PageInv'
  OBVIOUS
<1> USE PageAssumption DEF PageInv
<1>1. RequestsFit'
  BY RequestsStep
<1>2. WindowTyped'
  BY WindowsStep
<1>3. DiagnosisTyped' /\ CountsTyped'
  BY DiagnosesStep
<1>4. CapturesFit'
  BY CapturesStep
<1>5. CollectionsFit'
  BY CollectionsStep
<1> QED BY <1>1, <1>2, <1>3, <1>4, <1>5

LEMMA PageInvariant == Spec => []PageInv
BY InitPageInv, StepPageInv, PTL DEF Spec

\* The state keeps its types for any requests, windows, renders, events and failures: no
\* second attempt is followed by a third, and the buffer never grows beyond its limit.
THEOREM TypeCorrect == Spec => []TypeOK
<1>1. PageInv => TypeOK
  BY DEF PageInv, RequestsFit, RequestType, WindowTyped, DiagnosisTyped, CountsTyped, TypeOK
<1> QED BY <1>1, PageInvariant, PTL

\* However the requests and the renders of the page interleave and whatever the driver fails:
\* FreshElementAction does each round of an action at most once, all of them when it answers
\* "ok", and only gives up a stale element after two renders.
THEOREM RetriesSafe == Spec => []RetriesAreSafe
<1>1. PageInv => RetriesAreSafe
  <2> SUFFICES ASSUME PageInv
               PROVE  ActsAtMostOnce /\ OneRenderIsSurvived
    BY DEF RetriesAreSafe
  <2>1. ASSUME NEW k \in Calls
        PROVE  /\ RoundFits(call[k]) /\ AttemptFits(call[k], page) /\ call[k] \in RequestType
               /\ Rounds(call[k].kind) \in {1, 2}
    BY RoundsTyped DEF PageInv, RequestsFit, Fits
  <2>2. ActsAtMostOnce
    BY <2>1 DEF ActsAtMostOnce, RoundFits, RequestType
  <2>3. OneRenderIsSurvived
    BY <2>1 DEF OneRenderIsSurvived, AttemptFits
  <2> QED BY <2>2, <2>3
<1> QED BY <1>1, PageInvariant, PTL

\* takeFullPageScreenshot() gives the window it has measured its size back, whichever of its
\* requests the driver fails but the last, unless another command touched the windows or
\* another capture ran meanwhile.
THEOREM WindowsRestored == Spec => []WindowsAreRestored
<1>1. PageInv => WindowsAreRestored
  BY DEF PageInv, CapturesFit, Restored, WindowsAreRestored, WindowTyped
<1> QED BY <1>1, PageInvariant, PTL

\* The buffer of BrowserDiagnostics is exactly the newest events since the last clear(), up to
\* DIAGNOSTIC_EVENT_LIMIT, in their order, unless two collections overlapped or one failed.
THEOREM BufferNewest == Spec => []BufferIsNewest
<1>1. PageInv => BufferIsNewest
  <2> SUFFICES ASSUME PageInv, single
               PROVE  buffer = [i \in 1..seen - Oldest |-> Oldest + i]
    BY DEF BufferIsNewest, Oldest
  <2>1. BufferFits /\ buffer \in Seq(1..MaxEvents)
    BY DEF PageInv, CollectionsFit, DiagnosisTyped
  <2>2. buffer = [i \in 1..Len(buffer) |-> buffer[i]]
    BY <2>1
  <2> QED BY <2>1, <2>2 DEF BufferFits
<1> QED BY <1>1, PageInvariant, PTL
===============================================================================
