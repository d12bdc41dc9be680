------------------------------- MODULE McpServer -------------------------------
(***************************************************************************)
(* The MCP server (src/src/transports/mcp-server.ts): its tools, the       *)
(* coordinator that puts the tools which change the session one after      *)
(* another (mcp-session-coordinator.ts), and the client library it calls   *)
(* the testbench with (testbench-client.ts).                               *)
(*                                                                         *)
(* An action is what happens between two awaits of a tool's handler.  The  *)
(* testbench is seen through the life of its sessions and their leases;    *)
(* the requests to it may be lost on the way there or back.                *)
(***************************************************************************)
EXTENDS Naturals, Sequences

CONSTANTS
  Calls,      \* tool calls
  Sessions,
  None,
  MaxFaults   \* bound on lost requests, failing closes and crashes

ASSUME McpAssumption == None \notin Sessions /\ MaxFaults \in Nat

VARIABLES
  call,     \* each tool call: its tool, where its handler is suspended, and the session
            \* its request is about
  chain,    \* McpSessionCoordinator.operations: the calls that have not settled
  current,  \* McpSessionCoordinator.current
  beating,  \* the RemoteSession objects of a session that renew its lease: the one
            \* start_session made ("own"), those list_sessions made ("listed")
  stopping, \* a signal has been handled
  server,   \* the testbench's side of each session
  ours,     \* the sessions this process has asked for
  others,   \* the sessions whose client is another process, and alive
  faults,
  astray    \* history: sessions of ours the process forgot without an answer that they ended

host     == <<chain, current, beating, stopping>>
bench    == <<server, ours, others>>
history  == <<faults, astray>>
vars == <<call, host, bench, history>>

Serialised == {"start", "close", "connect", "disconnect", "shutdown"}
Direct     == {"closeById", "page"}
Waiting    == {"queued", "closing", "working", "opened", "sent"}

At(place, tool, s) == [pc |-> place, tool |-> tool, subject |-> s]

TypeOK ==
  /\ call \in [Calls -> [pc : Waiting \union {"idle"},
                        tool : Serialised \union Direct \union {"none"},
                        subject : Sessions \union {None}]]
  /\ chain \in Seq(Calls)
  /\ current \in Sessions \union {None}
  /\ beating \in [Sessions -> SUBSET {"own", "listed"}]
  /\ stopping \in BOOLEAN
  /\ server \in [Sessions -> {"none", "live", "over"}]
  /\ ours \subseteq Sessions /\ others \subseteq Sessions /\ astray \subseteq Sessions
  /\ faults \in 0..MaxFaults

Init ==
  /\ call = [t \in Calls |-> At("idle", "none", None)]
  /\ chain = <<>>
  /\ current = None
  /\ beating = [s \in Sessions |-> {}]
  /\ stopping = FALSE
  /\ server = [s \in Sessions |-> "none"]
  /\ ours = {} /\ others = {} /\ astray = {}
  /\ faults = 0

MayFail == faults < MaxFaults /\ faults' = faults + 1

Place(t, place) == call' = [call EXCEPT ![t].pc = place]

\* exclusive(): the call is chained behind the last one, however that settles.
Enqueue(t, tool) ==
  /\ call' = [call EXCEPT ![t] = At("queued", tool, None)]
  /\ chain' = Append(chain, t)

\* The handler returns or throws: if it is its turn in the chain, that of the next comes.
Settle(t) ==
  /\ call' = [call EXCEPT ![t] = At("idle", "none", None)]
  /\ chain' = IF chain # <<>> /\ Head(chain) = t THEN Tail(chain) ELSE chain

AfterClose(t) ==
  IF call[t].tool \in {"start", "connect", "disconnect"}
    THEN Place(t, "working") /\ UNCHANGED chain
    ELSE Settle(t)

-------------------------------------------------------------------------------
(* The tools that go through the coordinator.                              *)

\* start_session, connect_testbench, disconnect_testbench, close_session without an id.
CallTool(t, tool) ==
  /\ call[t].pc = "idle" /\ ~stopping
  /\ tool \in Serialised \ {"shutdown"}
  /\ Enqueue(t, tool)
  /\ UNCHANGED <<current, beating, stopping, bench, history>>

\* close_session(id) compares the id at once: of the current session it makes a
\* close() in the chain, of any other a DELETE of its own.
CloseById(t, s) ==
  /\ call[t].pc = "idle" /\ ~stopping
  /\ server[s] # "none"
  /\ \/ current = s /\ Enqueue(t, "close")
     \/ /\ current # s
        /\ call' = [call EXCEPT ![t] = At("closing", "closeById", s)]
        /\ UNCHANGED chain
  /\ UNCHANGED <<current, beating, stopping, bench, history>>

\* SIGINT or SIGTERM.
Signal(t) ==
  /\ call[t].pc = "idle" /\ ~stopping
  /\ stopping' = TRUE
  /\ Enqueue(t, "shutdown")
  /\ UNCHANGED <<current, beating, bench, history>>

\* Mutants: a call does not wait for its turn; it does not look whether there is a session;
\* the session that is replaced goes on beating.
BeginAtOnce(t) ==
  /\ call[t].pc = "queued"
  /\ \/ /\ current = None
        /\ AfterClose(t)
        /\ UNCHANGED <<current, beating>>
     \/ /\ current # None
        /\ call' = [call EXCEPT ![t] = At("closing", @.tool, current)]
        /\ beating' = [beating EXCEPT ![current] = @ \ {"own"}]
        /\ current' = None
        /\ UNCHANGED chain
  /\ UNCHANGED <<stopping, bench, history>>

BeginUnchecked(t) ==
  /\ call[t].pc = "queued" /\ Head(chain) = t
  /\ call' = [call EXCEPT ![t] = At("closing", @.tool, current)]
  /\ beating' = [s \in Sessions |-> beating[s] \ (IF s = current THEN {"own"} ELSE {})]
  /\ current' = None
  /\ UNCHANGED <<chain, stopping, bench, history>>

BeginBeating(t) ==
  /\ call[t].pc = "queued" /\ Head(chain) = t
  /\ \/ current = None /\ AfterClose(t)
     \/ current # None /\ call' = [call EXCEPT ![t] = At("closing", @.tool, current)]
                       /\ UNCHANGED chain
  /\ current' = None
  /\ UNCHANGED <<beating, stopping, bench, history>>

\* closeCurrent(): the session is forgotten and its heartbeat stopped, then awaited.
Begin(t) ==
  /\ call[t].pc = "queued" /\ Head(chain) = t
  /\ \/ /\ current = None
        /\ AfterClose(t)
        /\ UNCHANGED <<current, beating>>
     \/ /\ current # None
        /\ call' = [call EXCEPT ![t] = At("closing", @.tool, current)]
        /\ beating' = [beating EXCEPT ![current] = @ \ {"own"}]
        /\ current' = None
        /\ UNCHANGED chain
  /\ UNCHANGED <<stopping, bench, history>>

\* RemoteSession.close() and RemoteTestbench.closeSession(): the DELETE is answered. A
\* session that has ended before is told of as ended, from SessionManager.closures.
Closed(t) ==
  /\ call[t].pc = "closing"
  /\ server' = [server EXCEPT ![call[t].subject] = "over"]
  /\ AfterClose(t)
  /\ UNCHANGED <<current, beating, stopping, ours, others, history>>

\* The DELETE fails: it does not arrive, or its answer is lost or an error. Only
\* disconnect_testbench goes on nevertheless.
CloseFails(t) ==
  /\ call[t].pc = "closing" /\ MayFail
  /\ server' \in {server, [server EXCEPT ![call[t].subject] = "over"]}
  /\ astray' = IF call[t].tool = "closeById" THEN astray
                                            ELSE astray \union {call[t].subject}
  /\ IF call[t].tool = "disconnect" THEN AfterClose(t) ELSE Settle(t)
  /\ UNCHANGED <<current, beating, stopping, ours, others>>

\* connectTestbench(), completePairing(), disconnectTestbench().
Transition(t) ==
  /\ call[t].pc = "working" /\ call[t].tool \in {"connect", "disconnect"}
  /\ Settle(t)
  /\ UNCHANGED <<current, beating, stopping, bench, history>>

\* RemoteTestbench.open(): the testbench lists the session before the answer arrives.
Started(t, s) ==
  /\ call[t].pc = "working" /\ call[t].tool = "start"
  /\ server[s] = "none"
  /\ server' = [server EXCEPT ![s] = "live"]
  /\ ours' = ours \union {s}
  /\ call' = [call EXCEPT ![t] = At("opened", "start", s)]
  /\ UNCHANGED <<host, others, history>>

Opened(t) ==
  /\ call[t].pc = "opened"
  /\ current' = call[t].subject
  /\ beating' = [beating EXCEPT ![call[t].subject] = @ \union {"own"}]
  /\ Settle(t)
  /\ UNCHANGED <<stopping, bench, history>>

\* The testbench cannot start the session; or it can, and the answer is lost.
OpenFails(t) ==
  /\ call[t].tool = "start" /\ call[t].pc \in {"working", "opened"} /\ MayFail
  /\ astray' = astray \union ({call[t].subject} \ {None})
  /\ Settle(t)
  /\ UNCHANGED <<current, beating, stopping, bench>>

-------------------------------------------------------------------------------
(* The tools that do not.                                                  *)

\* A tool of the page (navigate, click, ..., get_devtools_instructions) acts on the
\* session that is current when it is called.
SendCommand(t) ==
  /\ call[t].pc = "idle" /\ ~stopping
  /\ current # None
  /\ call' = [call EXCEPT ![t] = At("sent", "page", current)]
  /\ UNCHANGED <<host, bench, history>>

\* SessionManager.run(): the command succeeds or fails; a session that is found to have
\* lost its browser is closed by the testbench.
CommandEnds(t) ==
  /\ call[t].pc = "sent"
  /\ Settle(t)
  /\ \/ UNCHANGED <<server, faults>>
     \/ MayFail /\ server' = [server EXCEPT ![call[t].subject] = "over"]
  /\ UNCHANGED <<current, beating, stopping, ours, others, astray>>

\* list_sessions: RemoteTestbench.sessions() makes a RemoteSession, and with it a
\* heartbeat, of every session of the owner; nobody keeps the objects.
ListSessions ==
  /\ ~stopping
  /\ \E s \in Sessions : server[s] = "live" /\ "listed" \notin beating[s]
  /\ beating' = [s \in Sessions |-> IF server[s] = "live" THEN beating[s] \union {"listed"}
                                                          ELSE beating[s]]
  /\ UNCHANGED <<call, chain, current, stopping, bench, history>>

\* After the shutdown the process ends with its last request: nothing beats any more.
Exit ==
  /\ stopping /\ chain = <<>>
  /\ \A t \in Calls : call[t].pc \notin Waiting
  /\ \E s \in Sessions : beating[s] # {}
  /\ beating' = [s \in Sessions |-> {}]
  /\ UNCHANGED <<call, chain, current, stopping, bench, history>>

-------------------------------------------------------------------------------
(* The testbench and its other clients.                                    *)

OtherOpens(s) ==
  /\ server[s] = "none"
  /\ server' = [server EXCEPT ![s] = "live"]
  /\ others' = others \union {s}
  /\ UNCHANGED <<call, host, ours, history>>

\* forEachTarget() of another process ends with close(); or the process disappears.
OtherLeaves(s) ==
  /\ s \in others
  /\ others' = others \ {s}
  /\ server' \in {server, [server EXCEPT ![s] = "over"]}
  /\ UNCHANGED <<call, host, ours, history>>

\* Nobody has renewed the lease for ninety seconds.
LeaseEnds(s) ==
  /\ server[s] = "live"
  /\ s \notin others /\ beating[s] = {}
  /\ server' = [server EXCEPT ![s] = "over"]
  /\ UNCHANGED <<call, host, ours, others, history>>

Next ==
  \/ \E t \in Calls :
       \/ \E tool \in Serialised : CallTool(t, tool)
       \/ \E s \in Sessions : CloseById(t, s) \/ Started(t, s)
       \/ Signal(t) \/ Begin(t) \/ Closed(t) \/ CloseFails(t) \/ Transition(t)
       \/ Opened(t) \/ OpenFails(t) \/ SendCommand(t) \/ CommandEnds(t)
  \/ ListSessions \/ Exit
  \/ \E s \in Sessions : OtherOpens(s) \/ OtherLeaves(s) \/ LeaseEnds(s)

Spec == Init /\ [][Next]_vars

\* Every request is answered or times out, and leases nobody renews run out. Nothing is
\* assumed of the tools' callers, nor that a session can be started.
Fairness ==
  /\ \A t \in Calls : WF_vars(Begin(t) \/ Closed(t) \/ CloseFails(t) \/ Transition(t)
                              \/ (\E s \in Sessions : Started(t, s)) \/ Opened(t)
                              \/ OpenFails(t) \/ CommandEnds(t))
  /\ \A s \in Sessions : WF_vars(LeaseEnds(s))
  /\ WF_vars(Exit)

FairSpec == Spec /\ Fairness

-------------------------------------------------------------------------------
Held(s) == current = s
InHand(s) == \E t \in Calls : call[t].subject = s /\ call[t].pc \in {"closing", "opened"}

\* A session this process has started and has not seen ending is the current one, or a
\* handler is opening or closing it: "without orphaning a session"
\* (tests/unit/mcp-session-coordinator.test.ts:6), whatever fails and in which order the
\* tools are called. The exceptions are recorded where they arise.
NothingIsOrphaned ==
  \A s \in ours : server[s] = "live" => Held(s) \/ InHand(s) \/ s \in astray

\* The tools use one session at a time: the last one has ended before the next is started.
OneAtATime ==
  \A s, z \in ours \ astray : server[s] = "live" /\ server[z] = "live" => s = z

\* Only the process's own session, and listed ones, are kept alive by it; in particular
\* a session whose close has begun is not.
OwnHeartbeatIsCurrent ==
  \A s \in Sessions : "own" \in beating[s] => Held(s)

\* The tools work with one session, the current one, and no other is left behind or kept
\* alive by them.
SessionIsInHand == NothingIsOrphaned /\ OneAtATime /\ OwnHeartbeatIsCurrent

\* Every tool call is answered, also behind calls that fail in the chain; only a call of
\* start_session for which the testbench has no session left may wait (a bound).
CallsAreAnswered ==
  \A t \in Calls :
    call[t].pc \in Waiting ~> (call[t].pc \notin Waiting \/ \A s \in Sessions : server[s] # "none")

\* "closes abandoned sessions when their lease expires" (session-manager.test.ts:104): a
\* session that no process uses ends, whatever was lost, unless list_sessions saw it.
AbandonedSessionsEnd ==
  \A s \in Sessions :
    server[s] = "live" ~> \/ server[s] = "over" \/ Held(s) \/ s \in others
                          \/ "listed" \in beating[s]

\* No call waits, and no session lives, for ever.
CallsAndSessionsEnd == CallsAreAnswered /\ AbandonedSessionsEnd
===============================================================================
