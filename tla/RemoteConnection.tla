--------------------------- MODULE RemoteConnection ---------------------------
(***************************************************************************)
(* A local testbench (the gateway) and the testbenches on other computers  *)
(* it may be connected to (the hosts): RemoteConnectionService and         *)
(* RemoteCredentialStore at the gateway, RemotePairingService,             *)
(* AuthorizedRemoteClientStore and RemoteRequestAuthentication at a host,  *)
(* RemoteApiController at both.                                            *)
(*                                                                         *)
(* A pairing stands for the client id the gateway makes for it; which host *)
(* it is with and which role it asks for are constants.  A secret is the   *)
(* number of the authorization that made it.  Two credential objects with  *)
(* the same client and secret are one.  An update of a JSON file takes     *)
(* effect when it is queued: JsonFileStore.update() keeps that order; that *)
(* find() may still read what a queued update is about to replace is left  *)
(* out.                                                                    *)
(***************************************************************************)
EXTENDS Naturals, FiniteSets

CONSTANTS
  Hosts,
  Pairings,
  HostOf,      \* the host of a pairing
  Asked,       \* the role it asks for
  Remembered,  \* pairings of an earlier process whose credentials are in the file
  Requested,   \* the roles the user connects with
  Calls,       \* requests of the user at the gateway
  Checks,      \* calls of the heartbeat, of the event stream and of probe()
  None,
  MaxChanges   \* bound on changes by an administrator, and on requests that fail
               \* or that the host refuses without a reason in the credential

Roles == {"control", "admin"}
Callers == Calls \union Checks

ASSUME RemoteAssumption ==
  /\ HostOf \in [Pairings -> Hosts] /\ Asked \in [Pairings -> Roles]
  /\ Remembered \subseteq Pairings
  /\ \A p, q \in Remembered : HostOf[p] = HostOf[q] => p = q
  /\ None \notin Pairings \union Hosts /\ Calls \intersect Checks = {}
  /\ Requested \subseteq Roles /\ MaxChanges \in Nat

VARIABLES
  active,      \* RemoteConnectionService.activeCredential
  saved,       \* RemoteCredentialStore: per host
  pending,     \* RemoteConnectionService.pending
  heartbeat,   \* the interval runs
  events,      \* the client whose event stream is consumed
  overtaken,   \* history: calls of disconnect() that lost their connection to somebody else
  at,          \* where a call is suspended
  cred,        \* the credential it works with
  want,        \* connect(): the host and the role
  answer,      \* the answer that is on its way to it
  offered,     \* RemotePairingService.pending of the hosts
  secret,      \* AuthorizedRemoteClientStore: the valid secret of a client, 0 if there is none
  issued,      \* the secrets a client was given so far
  role,        \* its role at the host
  passed,      \* changes of rights the gateway has passed on, and has no answer to yet
  changes

gateway == <<active, saved, pending, heartbeat, events, overtaken>>
calls   == <<at, cred, want, answer>>
host    == <<offered, secret, issued, role, passed>>
vars == <<gateway, calls, host, changes>>

Credential == [client : Pairings, secret : Nat, role : Roles]
NoCredential == [client |-> None, secret |-> 0, role |-> "control"]
Nowhere == [host |-> None, role |-> "control"]

TypeOK ==
  /\ active \in Credential \union {NoCredential}
  /\ saved \in [Hosts -> Credential \union {NoCredential}]
  /\ \A h \in Hosts : saved[h] # NoCredential => HostOf[saved[h].client] = h
  /\ pending \subseteq Pairings
  /\ heartbeat \in BOOLEAN /\ events \in Pairings \union {None}
  /\ overtaken \subseteq Calls
  /\ at \in [Callers -> {"idle", "finding", "asking", "told", "removing", "requesting",
                         "completing", "authorizing", "authorized", "saving", "leaving",
                         "left", "checking", "checked"}]
  /\ cred \in [Callers -> Credential \union {NoCredential}]
  /\ want \in [Callers -> [host : Hosts, role : Roles] \union {Nowhere}]
  /\ answer \in [Callers -> Roles \union {"refused"}]
  /\ offered \subseteq Pairings
  /\ secret \in [Pairings -> Nat] /\ issued \in [Pairings -> Nat]
  /\ \A p \in Pairings : secret[p] \in {0, issued[p]}
  /\ role \in [Pairings -> Roles]
  /\ passed \subseteq [client : Pairings, to : Roles \union {"refused"}]
  /\ changes \in 0..MaxChanges

Init ==
  /\ active = NoCredential
  /\ saved = [h \in Hosts |->
       IF \E p \in Remembered : HostOf[p] = h
         THEN LET p == CHOOSE p \in Remembered : HostOf[p] = h
              IN [client |-> p, secret |-> 1, role |-> Asked[p]]
         ELSE NoCredential]
  /\ pending = {} /\ heartbeat = FALSE /\ events = None /\ overtaken = {}
  /\ at = [c \in Callers |-> "idle"]
  /\ cred = [c \in Callers |-> NoCredential]
  /\ want = [c \in Callers |-> Nowhere]
  /\ answer = [c \in Callers |-> "refused"]
  /\ offered = {}
  /\ issued = [p \in Pairings |-> IF p \in Remembered THEN 1 ELSE 0]
  /\ secret = issued
  /\ role = Asked
  /\ passed = {}
  /\ changes = 0

Change == changes < MaxChanges /\ changes' = changes + 1

Connected == active # NoCredential
Valid(k) == k.client # None /\ secret[k.client] = k.secret /\ k.secret # 0
Same(k, l) == k.client = l.client /\ k.secret = l.secret
AnswerTo(k) == IF Valid(k) THEN role[k.client] ELSE "refused"

\* authenticate() refuses a request also for its time or its nonce, whatever it is signed with.
Answers(k, r) ==
  \/ r = AnswerTo(k) /\ UNCHANGED changes
  \/ r = "refused" /\ Valid(k) /\ Change

\* What a call holds while it is idle does not matter.
Ends(c) ==
  /\ at' = [at EXCEPT ![c] = "idle"]
  /\ cred' = [cred EXCEPT ![c] = NoCredential]
  /\ want' = [want EXCEPT ![c] = Nowhere]
  /\ answer' = [answer EXCEPT ![c] = "refused"]

\* Mutant: a connection to another host does not matter.
AvailableAnyway(h) == TRUE

\* assertActivationAvailable()
Available(h) == Connected => HostOf[active.client] = h

\* Mutant: the entry is not looked for by its host.
SaveFirst(k) == saved' = [saved EXCEPT ![CHOOSE h \in Hosts : TRUE] = k]

\* save() and remove() go by the host, whichever client's credential is there by now.
Save(k)   == saved' = [saved EXCEPT ![HostOf[k.client]] = k]
Remove(k) == saved' = [saved EXCEPT ![HostOf[k.client]] = NoCredential]

\* startHeartbeat() and startEvents() replace what runs; stopHeartbeat() and stopEvents().
Watch(p) == heartbeat' = TRUE /\ events' = p
Unwatch  == heartbeat' = FALSE /\ events' = None

\* The calls of disconnect() that wait for the host.
Disconnects == {c \in Calls : at[c] \in {"leaving", "left"}}

\* Mutant: the watch over the connection ends whoever was refused.
DropAlways(p) ==
  /\ Unwatch
  /\ IF active.client = p
       THEN /\ active' = NoCredential /\ Remove(active)
            /\ overtaken' = overtaken \union Disconnects
       ELSE UNCHANGED <<active, saved, overtaken>>

\* revokeActive(): whoever learns that the host refuses the client.
RevokeActive(p) ==
  IF active.client = p
    THEN /\ active' = NoCredential
         /\ Unwatch
         /\ Remove(active)
         /\ overtaken' = overtaken \union Disconnects
    ELSE UNCHANGED <<active, heartbeat, events, saved, overtaken>>

UpdateActiveRole(p, r) ==
  /\ IF active.client = p
       THEN active' = [active EXCEPT !.role = r] /\ Save([active EXCEPT !.role = r])
       ELSE UNCHANGED <<active, saved>>
  /\ UNCHANGED <<heartbeat, events, overtaken>>

-------------------------------------------------------------------------------
(* connect()                                                               *)

\* Connected to this host with this role, connect() returns at once; to another one, it throws.
Connect(c, h, r) ==
  /\ at[c] = "idle" /\ ~Connected
  /\ at' = [at EXCEPT ![c] = "finding"]
  /\ want' = [want EXCEPT ![c] = [host |-> h, role |-> r]]
  /\ UNCHANGED <<gateway, cred, answer, host, changes>>

\* The saved credential is tried if its role will do; else a pairing is asked for.
Found(c) ==
  /\ at[c] = "finding"
  /\ LET k == saved[want[c].host] IN
       IF k # NoCredential /\ k.role \in {"admin", want[c].role}
         THEN /\ at' = [at EXCEPT ![c] = "asking"]
              /\ cred' = [cred EXCEPT ![c] = k]
         ELSE /\ at' = [at EXCEPT ![c] = "requesting"]
              /\ UNCHANGED cred
  /\ UNCHANGED <<gateway, want, answer, host, changes>>

\* GET /v1/remote/me at the host.
Me(c) ==
  /\ at[c] \in {"asking", "checking"}
  /\ \E r \in Roles \union {"refused"} :
       Answers(cred[c], r) /\ answer' = [answer EXCEPT ![c] = r]
  /\ at' = [at EXCEPT ![c] = IF at[c] = "asking" THEN "told" ELSE "checked"]
  /\ UNCHANGED <<gateway, cred, want, host>>

\* The credential is good: saved, with the role it has now.
Accepted(c) ==
  /\ at[c] = "told" /\ answer[c] # "refused"
  /\ LET k == [cred[c] EXCEPT !.role = answer[c]] IN
       cred' = [cred EXCEPT ![c] = k] /\ Save(k)
  /\ at' = [at EXCEPT ![c] = "saving"]
  /\ UNCHANGED <<active, pending, heartbeat, events, overtaken, want, answer, host, changes>>

\* It is not: whatever is saved for the host is removed, and a pairing asked for.
Refused(c) ==
  /\ at[c] = "told" /\ answer[c] = "refused"
  /\ Remove(cred[c])
  /\ at' = [at EXCEPT ![c] = "requesting"]
  /\ UNCHANGED <<active, pending, heartbeat, events, overtaken, cred, want, answer, host,
                 changes>>

\* A pairing with this host for this role that is pending is offered again.
PairingKnown(c) ==
  /\ at[c] = "requesting"
  /\ \E p \in pending : HostOf[p] = want[c].host /\ Asked[p] = want[c].role
  /\ Ends(c)
  /\ UNCHANGED <<gateway, host, changes>>

\* POST /v1/remote/pairing: the host announces a code; the gateway has the answer.
PairingBegins(c, p) ==
  /\ at[c] = "requesting"
  /\ HostOf[p] = want[c].host /\ Asked[p] = want[c].role
  /\ p \notin pending \union offered /\ issued[p] = 0
  /\ \A q \in pending : ~(HostOf[q] = want[c].host /\ Asked[q] = want[c].role)
  /\ offered' = offered \union {p}
  /\ pending' = pending \union {p}
  /\ Ends(c)
  /\ UNCHANGED <<active, saved, heartbeat, events, overtaken, secret, issued, role, passed,
                 changes>>

\* The host has PAIRING_MAX_PENDING requests, from any computer, already.
PairingRefused(c) ==
  /\ at[c] = "requesting"
  /\ Ends(c)
  /\ UNCHANGED <<gateway, host, changes>>

-------------------------------------------------------------------------------
(* completePairing()                                                       *)

\* The pairing is over at the gateway or at the host: five minutes, or five wrong codes.
PairingLapses(p) ==
  /\ p \in pending \union offered
  /\ \/ pending' = pending \ {p} /\ UNCHANGED offered
     \/ offered' = offered \ {p} /\ UNCHANGED pending
  /\ UNCHANGED <<active, saved, heartbeat, events, overtaken, calls, secret, issued, role,
                 passed, changes>>

\* The code is the right one.
CompletePairing(c, p) ==
  /\ at[c] = "idle" /\ p \in pending /\ Available(HostOf[p])
  /\ at' = [at EXCEPT ![c] = "completing"]
  /\ cred' = [cred EXCEPT ![c] = [client |-> p, secret |-> 0, role |-> Asked[p]]]
  /\ want' = [want EXCEPT ![c] = [host |-> HostOf[p], role |-> Asked[p]]]
  /\ UNCHANGED <<gateway, answer, host, changes>>

\* The host knows the pairing and accepts the proof.
Proven(c) ==
  /\ at[c] = "completing" /\ cred[c].client \in offered
  /\ at' = [at EXCEPT ![c] = "authorizing"]
  /\ UNCHANGED <<gateway, cred, want, answer, host, changes>>

NotFound(c) ==
  /\ at[c] = "completing" /\ cred[c].client \notin offered
  /\ Ends(c)
  /\ UNCHANGED <<gateway, host, changes>>

\* authorize() replaces what the client had; the pairing is over.
Authorize(c) ==
  /\ at[c] = "authorizing"
  /\ LET p == cred[c].client IN
       /\ issued' = [issued EXCEPT ![p] = @ + 1]
       /\ secret' = [secret EXCEPT ![p] = issued[p] + 1]
       /\ role' = [role EXCEPT ![p] = Asked[p]]
       /\ offered' = offered \ {p}
       /\ cred' = [cred EXCEPT ![c].secret = issued[p] + 1]
  /\ at' = [at EXCEPT ![c] = "authorized"]
  /\ UNCHANGED <<gateway, want, answer, passed, changes>>

\* The answer is decrypted and saved.
Completed(c) ==
  /\ at[c] = "authorized"
  /\ Save(cred[c])
  /\ at' = [at EXCEPT ![c] = "saving"]
  /\ UNCHANGED <<active, pending, heartbeat, events, overtaken, cred, want, answer, host,
                 changes>>

-------------------------------------------------------------------------------
(* The active credential                                                   *)

\* Once it is saved a credential becomes active, unless that of another host did meanwhile.
Activate(c) ==
  /\ at[c] = "saving"
  /\ IF Available(want[c].host)
       THEN /\ active' = cred[c]
            /\ Watch(cred[c].client)
            /\ pending' = pending \ {cred[c].client}
       ELSE UNCHANGED <<active, heartbeat, events, pending>>
  /\ Ends(c)
  /\ UNCHANGED <<saved, overtaken, host, changes>>

\* disconnect(): first nobody watches any more, then the sessions at the host are closed.
Disconnect(c) ==
  /\ at[c] = "idle"
  /\ Connected \/ heartbeat
  /\ Unwatch
  /\ at' = [at EXCEPT ![c] = IF Connected THEN "leaving" ELSE "idle"]
  /\ cred' = [cred EXCEPT ![c] = active]
  /\ UNCHANGED <<active, saved, pending, overtaken, want, answer, host, changes>>

\* DELETE /v1/client/sessions; a 401 is told to revokeActive().
Leave(c) ==
  /\ at[c] = "leaving"
  /\ at' = [at EXCEPT ![c] = "left"]
  /\ \/ /\ Answers(cred[c], "refused")
        /\ RevokeActive(cred[c].client)
     \/ /\ Valid(cred[c])
        /\ UNCHANGED <<active, saved, heartbeat, events, overtaken, changes>>
  /\ UNCHANGED <<pending, cred, want, answer, host>>

\* Whatever is active by now is forgotten.
Left(c) ==
  /\ at[c] = "left"
  /\ active' = NoCredential
  /\ overtaken' = IF Connected THEN (overtaken \union Disconnects) \ {c}
                               ELSE overtaken \ {c}
  /\ Ends(c)
  /\ UNCHANGED <<saved, pending, heartbeat, events, host, changes>>

\* checkConnection(), by the interval, when the event stream says so, or by probe().
Check(c) ==
  /\ at[c] = "idle" /\ heartbeat /\ Connected
  /\ at' = [at EXCEPT ![c] = "checking"]
  /\ cred' = [cred EXCEPT ![c] = active]
  /\ UNCHANGED <<gateway, want, answer, host, changes>>

\* Mutant: only the reachability is looked at.
CheckedReachable(c) ==
  /\ at[c] = "checked"
  /\ Ends(c)
  /\ UNCHANGED <<gateway, host, changes>>

\* The role has changed: that of the credential the check began with is corrected, and saved,
\* whether or not it is still in use.  If it is, it may have another role by now.
Checked(c) ==
  /\ at[c] = "checked"
  /\ LET held == IF Same(active, cred[c]) THEN active ELSE cred[c]
         k    == [held EXCEPT !.role = answer[c]]
     IN  IF answer[c] = "refused"
           THEN RevokeActive(cred[c].client)
           ELSE /\ active' = IF Same(active, k) THEN k ELSE active
                /\ IF k = held THEN UNCHANGED saved ELSE Save(k)
                /\ UNCHANGED <<heartbeat, events, overtaken>>
  /\ Ends(c)
  /\ UNCHANGED <<pending, host, changes>>

\* A request to the host fails or times out: connect(), completePairing() and the check throw,
\* disconnect() goes on.
RequestFails(c) ==
  /\ Change
  /\ \/ /\ at[c] \in {"asking", "told", "completing", "authorized", "checking", "checked"}
        /\ Ends(c)
     \/ /\ at[c] = "leaving"
        /\ at' = [at EXCEPT ![c] = "left"]
        /\ UNCHANGED <<cred, want, answer>>
  /\ UNCHANGED <<gateway, host>>

-------------------------------------------------------------------------------
(* The host                                                                *)

SetRole(p) ==
  /\ Change /\ secret[p] # 0
  /\ \E r \in Roles \ {role[p]} : role' = [role EXCEPT ![p] = r]
  /\ UNCHANGED <<gateway, calls, offered, secret, issued, passed>>

\* DELETE /v1/remote/clients/:id (what becomes of the sessions is in Sessions).
Revoke(p) ==
  /\ Change /\ secret[p] # 0
  /\ secret' = [secret EXCEPT ![p] = 0]
  /\ UNCHANGED <<gateway, calls, offered, issued, role, passed>>

\* The gateway's user changes the rights of a client of the host, as an administrator there,
\* and perhaps his own.
PassOn(p) ==
  /\ Change /\ secret[p] # 0
  /\ Valid(active) /\ role[active.client] = "admin" /\ HostOf[p] = HostOf[active.client]
  /\ \E to \in (Roles \union {"refused"}) \ {role[p]} :
       /\ role' = IF to = "refused" THEN role ELSE [role EXCEPT ![p] = to]
       /\ secret' = IF to = "refused" THEN [secret EXCEPT ![p] = 0] ELSE secret
       /\ passed' = passed \union {[client |-> p, to |-> to]}
  /\ UNCHANGED <<gateway, calls, offered, issued>>

\* The answer, however late: revokeActive() or updateActiveRole().
PassedOn(m) ==
  /\ m \in passed
  /\ passed' = passed \ {m}
  /\ IF m.to = "refused" THEN RevokeActive(m.client) ELSE UpdateActiveRole(m.client, m.to)
  /\ UNCHANGED <<pending, calls, offered, secret, issued, role, changes>>

\* A request that proxy() sends on with the active credential, and the host refuses.
ProxyRefused ==
  /\ Connected /\ Answers(active, "refused")
  /\ RevokeActive(active.client)
  /\ UNCHANGED <<pending, calls, host>>

-------------------------------------------------------------------------------
CallStep(c) ==
  \/ Found(c) \/ Me(c) \/ Accepted(c) \/ Refused(c) \/ PairingKnown(c) \/ PairingRefused(c)
  \/ \E p \in Pairings : PairingBegins(c, p)
  \/ Proven(c) \/ NotFound(c) \/ Authorize(c) \/ Completed(c) \/ Activate(c)
  \/ Leave(c) \/ Left(c)

Next ==
  \/ \E c \in Calls : \/ \E h \in Hosts, r \in Requested : Connect(c, h, r)
                      \/ \E p \in Pairings : CompletePairing(c, p)
                      \/ Disconnect(c)
  \/ \E c \in Callers : CallStep(c) \/ RequestFails(c)
  \/ \E c \in Checks : Check(c) \/ Checked(c)
  \/ \E p \in Pairings : \/ PairingLapses(p)
                         \/ SetRole(p) \/ Revoke(p) \/ PassOn(p)
  \/ \E m \in passed : PassedOn(m)
  \/ ProxyRefused

\* Requests have timeouts, the interval goes on for as long as it is not cleared, and the file
\* is written.
Fairness ==
  /\ \A c \in Callers : WF_vars(CallStep(c))
  /\ \A c \in Checks : WF_vars(Check(c)) /\ WF_vars(Checked(c))

Spec == Init /\ [][Next]_vars /\ Fairness

-------------------------------------------------------------------------------
Leaving == \E c \in Calls : at[c] \in {"leaving", "left"}

\* A connection is never left without its heartbeat and its event stream, which alone would
\* notice that the host has revoked it: not by calls of connect(), completePairing() and
\* disconnect() that overlap, and not by a late refusal of a credential it has replaced.
ActiveIsWatched ==
  Connected /\ ~Leaving => heartbeat /\ events = active.client

At(h) == Connected /\ HostOf[active.client] = h

\* Somebody learns that the host refuses this client: disconnect(), a check, whoever has passed
\* on a change of its rights.
HearsRefusal(p) ==
  \/ \E c \in Calls : at[c] = "leaving" /\ at'[c] = "left" /\ cred[c].client = p
  \/ \E c \in Checks : /\ at[c] = "checked" /\ at'[c] = "idle"
                       /\ answer[c] = "refused" /\ cred[c].client = p
  \/ [client |-> p, to |-> "refused"] \in passed \ passed'

\* The gateway turns from a host only when that host has refused the very client it is connected
\* as, or at the end of a disconnect() that has asked this host to close the sessions, or tried:
\* not because another of the calls that wait for hosts comes up meanwhile, nor because of an
\* answer about another client.  Whose connection was ended while disconnect() waited, by a
\* refusal or by another disconnect(), forgets whatever has been connected to since.
NoSilentSwitch ==
  [][\A h \in Hosts : At(h) /\ ~At(h)' =>
       \/ ProxyRefused
       \/ HearsRefusal(active.client)
       \/ \E c \in Calls : /\ at[c] = "left" /\ at'[c] = "idle"
                           /\ HostOf[cred[c].client] = h \/ c \in overtaken]_vars

\* Once the administrator leaves the clients alone, a connection is one the host accepts, with
\* the role it has there; whatever was in flight when it was changed.
ActiveSettles ==
  <>[](Connected => Valid(active) /\ active.role = role[active.client])
===============================================================================
