------------------------ MODULE RemoteConnectionProofs ------------------------
(***************************************************************************)
(* What the gateway is connected to, for any hosts, pairings, calls and    *)
(* checks that overlap, and any number of changes at the hosts: a          *)
(* connection is watched, never goes from one host to another by itself,   *)
(* and is made with a credential of that host.                             *)
(*                                                                         *)
(* The strengthenings are CallsAim: what a suspended call holds when it    *)
(* goes on belongs to the host it was asked for, so that the check it      *)
(* makes after its awaits is the check of the credential it then           *)
(* activates; and LeavesItsHost: while disconnect() waits, what is active  *)
(* is of the host it has asked, unless somebody has ended that connection. *)
(***************************************************************************)
EXTENDS RemoteConnection, TLAPS

TypeGateway ==
  /\ active \in Credential \union {NoCredential}
  /\ saved \in [Hosts -> Credential \union {NoCredential}]
  /\ \A h \in Hosts : saved[h] # NoCredential => HostOf[saved[h].client] = h
  /\ pending \subseteq Pairings
  /\ heartbeat \in BOOLEAN /\ events \in Pairings \union {None}
  /\ overtaken \subseteq Calls

Places == {"idle", "finding", "asking", "told", "removing", "requesting", "completing",
           "authorizing", "authorized", "saving", "leaving", "left", "checking", "checked"}

TypeCalls ==
  /\ at \in [Callers -> Places]
  /\ cred \in [Callers -> Credential \union {NoCredential}]
  /\ want \in [Callers -> [host : Hosts, role : Roles] \union {Nowhere}]
  /\ answer \in [Callers -> Roles \union {"refused"}]

TypeHost ==
  /\ offered \subseteq Pairings
  /\ secret \in [Pairings -> Nat] /\ issued \in [Pairings -> Nat]
  /\ \A p \in Pairings : secret[p] \in {0, issued[p]}
  /\ role \in [Pairings -> Roles]
  /\ passed \subseteq [client : Pairings, to : Roles \union {"refused"}]
  /\ changes \in 0..MaxChanges

\* The credential a call works with is one of the host the call is for.
Aims(c) ==
  /\ at[c] \in {"finding", "requesting", "asking", "told", "completing", "authorizing",
                "authorized", "saving"} => want[c] \in [host : Hosts, role : Roles]
  /\ at[c] \in {"asking", "told", "completing", "authorizing", "authorized", "saving"} =>
       cred[c] \in Credential /\ HostOf[cred[c].client] = want[c].host
  /\ at[c] \in {"leaving", "checking", "checked"} => cred[c] \in Credential
  /\ at[c] \in {"checking", "checked"} => c \in Checks
  /\ at[c] \in {"leaving", "left"} => c \in Calls

CallsAim == \A c \in Callers : Aims(c)

IndInv == TypeGateway /\ TypeCalls /\ TypeHost /\ CallsAim /\ ActiveIsWatched

LEMMA TypeParts == TypeOK <=> TypeGateway /\ TypeCalls /\ TypeHost
BY DEF TypeOK, TypeGateway, TypeCalls, TypeHost, Places

\* There is no credential of no client.
LEMMA NobodysCredential ==
  /\ NoCredential \notin Credential
  /\ \A k \in Credential : k.client \in Pairings /\ HostOf[k.client] \in Hosts
BY RemoteAssumption DEF RemoteAssumption, Credential, NoCredential

LEMMA InitIndInv == Init => IndInv
<1> SUFFICES ASSUME Init PROVE IndInv
  OBVIOUS
<1>1. \A p \in Remembered : [client |-> p, secret |-> 1, role |-> Asked[p]] \in Credential
  BY RemoteAssumption DEF RemoteAssumption, Credential
<1>2. ASSUME NEW h \in Hosts
      PROVE  /\ saved[h] \in Credential \union {NoCredential}
             /\ saved[h] # NoCredential => HostOf[saved[h].client] = h
  <2>1. CASE \E p \in Remembered : HostOf[p] = h
    <3>1. PICK p \in Remembered :
            HostOf[p] = h /\ saved[h] = [client |-> p, secret |-> 1, role |-> Asked[p]]
      BY <2>1 DEF Init
    <3> QED BY <3>1, <1>1
  <2>2. CASE ~ \E p \in Remembered : HostOf[p] = h
    BY <2>2 DEF Init
  <2> QED BY <2>1, <2>2
<1>3. TypeGateway
  <2>1. saved \in [Hosts -> Credential \union {NoCredential}]
    BY <1>2 DEF Init
  <2> QED BY <2>1, <1>2 DEF Init, TypeGateway
<1>4. TypeCalls
  BY DEF Init, TypeCalls, Places
<1>5. TypeHost
  BY RemoteAssumption DEF RemoteAssumption, Init, TypeHost
<1>6. CallsAim /\ ActiveIsWatched
  BY DEF Init, CallsAim, Aims, ActiveIsWatched, Connected
<1> QED BY <1>3, <1>4, <1>5, <1>6 DEF IndInv

\* save(), remove(), revokeActive() and updateActiveRole() keep what is saved apart by host.
LEMMA SaveKeeps ==
  ASSUME TypeGateway, NEW k \in Credential, Save(k)
  PROVE  /\ saved' \in [Hosts -> Credential \union {NoCredential}]
         /\ \A h \in Hosts : saved'[h] # NoCredential => HostOf[saved'[h].client] = h
BY NobodysCredential DEF TypeGateway, Save

LEMMA RemoveKeeps ==
  ASSUME TypeGateway, NEW k \in Credential, Remove(k)
  PROVE  /\ saved' \in [Hosts -> Credential \union {NoCredential}]
         /\ \A h \in Hosts : saved'[h] # NoCredential => HostOf[saved'[h].client] = h
BY NobodysCredential DEF TypeGateway, Remove

LEMMA RevokeKeeps ==
  ASSUME TypeGateway, pending' = pending, NEW p \in Pairings, RevokeActive(p)
  PROVE  TypeGateway'
<1>1. CASE active.client = p
  <2>1. active \in Credential
    BY <1>1, RemoteAssumption DEF TypeGateway, NoCredential, RemoteAssumption
  <2> QED BY <1>1, <2>1, RemoveKeeps DEF RevokeActive, Unwatch, Disconnects, TypeGateway
<1>2. CASE active.client # p
  BY <1>2 DEF RevokeActive, TypeGateway
<1> QED BY <1>1, <1>2

LEMMA UpdateKeeps ==
  ASSUME TypeGateway, pending' = pending, NEW p \in Pairings, NEW r \in Roles,
         UpdateActiveRole(p, r)
  PROVE  TypeGateway'
<1>1. CASE active.client = p
  <2>1. active \in Credential
    BY <1>1, RemoteAssumption DEF TypeGateway, NoCredential, RemoteAssumption
  <2>2. [active EXCEPT !.role = r] \in Credential
    BY <2>1 DEF Credential
  <2> QED BY <1>1, <2>2, SaveKeeps DEF UpdateActiveRole, TypeGateway
<1>2. CASE active.client # p
  BY <1>2 DEF UpdateActiveRole, TypeGateway
<1> QED BY <1>1, <1>2

LEMMA GatewayTypes ==
  ASSUME IndInv, Next
  PROVE  TypeGateway'
<1> USE NobodysCredential, RemoteAssumption DEF IndInv, TypeGateway, gateway, calls, host,
    Callers, Aims
<1>1. ASSUME NEW c \in Calls, Disconnect(c)
      PROVE  TypeGateway'
  BY <1>1 DEF Disconnect, Unwatch
<1>2. ASSUME NEW c \in Callers, Accepted(c)
      PROVE  TypeGateway'
  <2>1. [cred[c] EXCEPT !.role = answer[c]] \in Credential
    BY <1>2 DEF Accepted, TypeCalls, CallsAim, Credential
  <2> QED BY <1>2, <2>1, SaveKeeps DEF Accepted
<1>3. ASSUME NEW c \in Callers, Refused(c)
      PROVE  TypeGateway'
  <2>1. cred[c] \in Credential
    BY <1>3 DEF Refused, CallsAim
  <2> QED BY <1>3, <2>1, RemoveKeeps DEF Refused
<1>4. ASSUME NEW c \in Callers, Completed(c)
      PROVE  TypeGateway'
  <2>1. cred[c] \in Credential
    BY <1>4 DEF Completed, CallsAim
  <2> QED BY <1>4, <2>1, SaveKeeps DEF Completed
<1>5. ASSUME NEW c \in Callers, Activate(c)
      PROVE  TypeGateway'
  <2>1. cred[c] \in Credential
    BY <1>5 DEF Activate, CallsAim
  <2> QED BY <1>5, <2>1 DEF Activate, Watch
<1>6. ASSUME NEW c \in Callers, Leave(c)
      PROVE  TypeGateway'
  <2>1. cred[c] \in Credential
    BY <1>6 DEF Leave, CallsAim
  <2>2. CASE UNCHANGED <<active, saved, heartbeat, events, overtaken>>
    BY <1>6, <2>2 DEF Leave
  <2>3. CASE RevokeActive(cred[c].client)
    BY <1>6, <2>1, <2>3, RevokeKeeps DEF Leave
  <2> QED BY <1>6, <2>2, <2>3 DEF Leave
<1>7. ASSUME NEW c \in Callers, Left(c)
      PROVE  TypeGateway'
  BY <1>7 DEF Left, Disconnects
<1>8. ASSUME NEW c \in Callers, NEW p \in Pairings, PairingBegins(c, p)
      PROVE  TypeGateway'
  BY <1>8 DEF PairingBegins
<1>9. ASSUME NEW c \in Checks, Checked(c)
      PROVE  TypeGateway'
  <2>1. cred[c] \in Credential
    BY <1>9 DEF Checked, CallsAim
  <2>2. CASE answer[c] = "refused"
    BY <1>9, <2>1, <2>2, RevokeKeeps DEF Checked
  <2>3. CASE answer[c] # "refused"
    <3> DEFINE held == IF Same(active, cred[c]) THEN active ELSE cred[c]
               k    == [held EXCEPT !.role = answer[c]]
    <3>0. held \in Credential
      BY <2>1 DEF Same, Credential, NoCredential
    <3>1. k \in Credential
      <4> HIDE DEF held
      <4> QED BY <3>0, <1>9, <2>3 DEF TypeCalls, Credential
    <3>2. /\ active' = active \/ active' = k
          /\ UNCHANGED saved \/ Save(k)
          /\ UNCHANGED <<pending, heartbeat, events, overtaken>>
      BY <1>9, <2>3 DEF Checked
    <3> HIDE DEF k, held
    <3> QED BY <3>1, <3>2, SaveKeeps
  <2> QED BY <2>2, <2>3
<1>10. CASE ProxyRefused
  <2>1. active.client \in Pairings
    BY <1>10 DEF ProxyRefused, Connected
  <2> QED BY <1>10, <2>1, RevokeKeeps DEF ProxyRefused
<1>11. ASSUME NEW p \in Pairings, PairingLapses(p)
      PROVE  TypeGateway'
  BY <1>11 DEF PairingLapses
<1>12. ASSUME NEW m \in passed, PassedOn(m)
      PROVE  TypeGateway'
  <2>1. m.client \in Pairings /\ (m.to # "refused" => m.to \in Roles)
    BY DEF TypeHost
  <2>2. CASE m.to = "refused"
    BY <1>12, <2>1, <2>2, RevokeKeeps DEF PassedOn
  <2>3. CASE m.to # "refused"
    BY <1>12, <2>1, <2>3, UpdateKeeps DEF PassedOn
  <2> QED BY <2>2, <2>3
<1>13. CASE UNCHANGED gateway
  BY <1>13
<1> QED BY <1>1, <1>2, <1>3, <1>4, <1>5, <1>6, <1>7, <1>8, <1>9, <1>10, <1>11, <1>12, <1>13
     DEF Next, CallStep, Connect, CompletePairing, Found, Me, PairingKnown, PairingRefused,
         Proven, NotFound, Authorize, RequestFails, Check, SetRole, Revoke, PassOn

LEMMA CallTypes ==
  ASSUME IndInv, Next
  PROVE  TypeCalls'
<1> USE NobodysCredential, RemoteAssumption DEF IndInv, TypeCalls, Places, gateway, calls,
    host, Callers, Ends, NoCredential, Nowhere, Aims
<1>1. ASSUME NEW c \in Calls, NEW h \in Hosts, NEW r \in Requested, Connect(c, h, r)
      PROVE  TypeCalls'
  <2>1. [host |-> h, role |-> r] \in [host : Hosts, role : Roles]
    BY DEF RemoteAssumption
  <2> QED BY <1>1, <2>1 DEF Connect
<1>2. ASSUME NEW c \in Calls, NEW p \in Pairings, CompletePairing(c, p)
      PROVE  TypeCalls'
  <2>1. /\ [client |-> p, secret |-> 0, role |-> Asked[p]] \in Credential
        /\ [host |-> HostOf[p], role |-> Asked[p]] \in [host : Hosts, role : Roles]
    BY DEF RemoteAssumption, Credential
  <2> QED BY <1>2, <2>1 DEF CompletePairing
<1>3. ASSUME NEW c \in Calls, Disconnect(c)
      PROVE  TypeCalls'
  BY <1>3 DEF Disconnect, TypeGateway
<1>4. ASSUME NEW c \in Callers, Found(c)
      PROVE  TypeCalls'
  <2>1. want[c].host \in Hosts
    BY <1>4 DEF Found, CallsAim
  <2> QED BY <1>4, <2>1 DEF Found, TypeGateway
<1>5. ASSUME NEW c \in Callers, Me(c)
      PROVE  TypeCalls'
  <2>1. AnswerTo(cred[c]) \in Roles \union {"refused"}
    BY <1>5 DEF Me, CallsAim, TypeHost, AnswerTo, Valid
  <2> QED BY <1>5, <2>1 DEF Me
<1>6. ASSUME NEW c \in Callers, Accepted(c)
      PROVE  TypeCalls'
  <2>1. [cred[c] EXCEPT !.role = answer[c]] \in Credential
    BY <1>6 DEF Accepted, CallsAim, Credential
  <2> QED BY <1>6, <2>1 DEF Accepted
<1>7. ASSUME NEW c \in Callers, Refused(c)
      PROVE  TypeCalls'
  BY <1>7 DEF Refused
<1>8. ASSUME NEW c \in Callers, PairingKnown(c)
      PROVE  TypeCalls'
  BY <1>8 DEF PairingKnown
<1>9. ASSUME NEW c \in Callers, PairingRefused(c)
      PROVE  TypeCalls'
  BY <1>9 DEF PairingRefused
<1>10. ASSUME NEW c \in Callers, Proven(c)
      PROVE  TypeCalls'
  BY <1>10 DEF Proven
<1>11. ASSUME NEW c \in Callers, NotFound(c)
      PROVE  TypeCalls'
  BY <1>11 DEF NotFound
<1>12. ASSUME NEW c \in Callers, Authorize(c)
      PROVE  TypeCalls'
  <2>1. [cred[c] EXCEPT !.secret = issued[cred[c].client] + 1] \in Credential
    BY <1>12 DEF Authorize, CallsAim, Credential, TypeHost
  <2> QED BY <1>12, <2>1 DEF Authorize
<1>13. ASSUME NEW c \in Callers, Completed(c)
      PROVE  TypeCalls'
  BY <1>13 DEF Completed
<1>14. ASSUME NEW c \in Callers, Activate(c)
      PROVE  TypeCalls'
  BY <1>14 DEF Activate
<1>15. ASSUME NEW c \in Callers, Leave(c)
      PROVE  TypeCalls'
  BY <1>15 DEF Leave
<1>16. ASSUME NEW c \in Callers, Left(c)
      PROVE  TypeCalls'
  BY <1>16 DEF Left
<1>17. ASSUME NEW c \in Callers, RequestFails(c)
      PROVE  TypeCalls'
  BY <1>17 DEF RequestFails
<1>18. ASSUME NEW c \in Callers, NEW p \in Pairings, PairingBegins(c, p)
      PROVE  TypeCalls'
  BY <1>18 DEF PairingBegins
<1>19. ASSUME NEW c \in Checks, Check(c)
      PROVE  TypeCalls'
  BY <1>19 DEF Check, TypeGateway
<1>20. ASSUME NEW c \in Checks, Checked(c)
      PROVE  TypeCalls'
  BY <1>20 DEF Checked
<1>21. CASE UNCHANGED calls
  BY <1>21
<1> QED BY <1>1, <1>2, <1>3, <1>4, <1>5, <1>6, <1>7, <1>8, <1>9, <1>10, <1>11, <1>12,
    <1>13, <1>14, <1>15, <1>16, <1>17, <1>18, <1>19, <1>20, <1>21
     DEF Next, CallStep, PairingLapses, SetRole, Revoke, PassOn, PassedOn, ProxyRefused

LEMMA HostTypes ==
  ASSUME IndInv, Next
  PROVE  TypeHost'
<1> USE NobodysCredential, RemoteAssumption DEF IndInv, TypeHost, gateway, calls, host,
    Callers, Change, Aims
<1>1. ASSUME NEW c \in Callers, Authorize(c)
      PROVE  TypeHost'
  <2>1. cred[c].client \in Pairings
    BY <1>1 DEF Authorize, CallsAim
  <2> QED BY <1>1, <2>1 DEF Authorize, RemoteAssumption
<1>2. ASSUME NEW c \in Callers, RequestFails(c)
      PROVE  TypeHost'
  BY <1>2 DEF RequestFails, RemoteAssumption
<1>3. ASSUME NEW c \in Callers, NEW p \in Pairings, PairingBegins(c, p)
      PROVE  TypeHost'
  BY <1>3 DEF PairingBegins
<1>4. ASSUME NEW p \in Pairings, PairingLapses(p)
      PROVE  TypeHost'
  BY <1>4 DEF PairingLapses
<1>5. ASSUME NEW p \in Pairings, SetRole(p)
      PROVE  TypeHost'
  BY <1>5 DEF SetRole, RemoteAssumption
<1>6. ASSUME NEW p \in Pairings, Revoke(p)
      PROVE  TypeHost'
  BY <1>6 DEF Revoke, RemoteAssumption
<1>7. ASSUME NEW p \in Pairings, PassOn(p)
      PROVE  TypeHost'
  <2>1. PICK to \in (Roles \union {"refused"}) \ {role[p]} :
          /\ role' = IF to = "refused" THEN role ELSE [role EXCEPT ![p] = to]
          /\ secret' = IF to = "refused" THEN [secret EXCEPT ![p] = 0] ELSE secret
          /\ passed' = passed \union {[client |-> p, to |-> to]}
    BY <1>7 DEF PassOn
  <2>2. role' \in [Pairings -> Roles] /\ passed' \subseteq [client : Pairings,
      to : Roles \union {"refused"}]
    BY <2>1
  <2>3. secret' \in [Pairings -> Nat] /\ \A q \in Pairings : secret'[q] \in {0, issued[q]}
    BY <2>1
  <2> QED BY <1>7, <2>2, <2>3 DEF PassOn, RemoteAssumption
<1>8. ASSUME NEW m \in passed, PassedOn(m)
      PROVE  TypeHost'
  BY <1>8 DEF PassedOn
<1>9. CASE UNCHANGED host /\ (UNCHANGED changes \/ Change)
  BY <1>9 DEF RemoteAssumption
<1>10. \A k, r : Answers(k, r) => UNCHANGED changes \/ Change
  BY DEF Answers
<1> QED BY <1>1, <1>2, <1>3, <1>4, <1>5, <1>6, <1>7, <1>8, <1>9, <1>10
     DEF Next, CallStep, Connect, CompletePairing, Disconnect, Found, Me, Accepted,
         Refused, PairingKnown, PairingRefused, Proven, NotFound, Completed, Activate,
         Leave, Left, Check, Checked, ProxyRefused

\* A step of one call leaves what the others hold alone.
LEMMA OthersAim ==
  ASSUME CallsAim, TypeCalls, NEW c \in Callers, Aims(c)',
         \A d \in Callers \ {c} :
           at'[d] = at[d] /\ cred'[d] = cred[d] /\ want'[d] = want[d]
  PROVE  CallsAim'
<1>1. \A d \in Callers \ {c} : Aims(d)'
  BY DEF CallsAim, Aims
<1> QED BY <1>1 DEF CallsAim, Aims

LEMMA CallsAimKeeps ==
  ASSUME IndInv, Next
  PROVE  CallsAim'
<1> USE NobodysCredential, RemoteAssumption DEF IndInv, TypeCalls, gateway, calls, host,
    Callers, Ends, Aims
<1>1. ASSUME NEW c \in Calls, NEW h \in Hosts, NEW r \in Requested, Connect(c, h, r)
      PROVE  CallsAim'
  <2>1. [host |-> h, role |-> r] \in [host : Hosts, role : Roles]
    BY DEF RemoteAssumption
  <2>8. Aims(c)'
    BY <1>1, <2>1 DEF Connect, CallsAim
  <2>9. \A d \in Callers \ {c} : at'[d] = at[d] /\ cred'[d] = cred[d] /\ want'[d] = want[d]
    BY <1>1 DEF Connect
  <2> QED BY <2>8, <2>9, OthersAim
<1>2. ASSUME NEW c \in Calls, NEW p \in Pairings, CompletePairing(c, p)
      PROVE  CallsAim'
  <2>1. /\ [client |-> p, secret |-> 0, role |-> Asked[p]] \in Credential
        /\ [host |-> HostOf[p], role |-> Asked[p]] \in [host : Hosts, role : Roles]
    BY DEF RemoteAssumption, Credential
  <2>8. Aims(c)'
    BY <1>2, <2>1 DEF CompletePairing, CallsAim
  <2>9. \A d \in Callers \ {c} : at'[d] = at[d] /\ cred'[d] = cred[d] /\ want'[d] = want[d]
    BY <1>2 DEF CompletePairing
  <2> QED BY <2>8, <2>9, OthersAim
<1>3. ASSUME NEW c \in Calls, Disconnect(c)
      PROVE  CallsAim'
  <2>1. Connected => active \in Credential
    BY DEF Connected, TypeGateway
  <2>8. Aims(c)'
    BY <1>3, <2>1 DEF Disconnect, CallsAim
  <2>9. \A d \in Callers \ {c} : at'[d] = at[d] /\ cred'[d] = cred[d] /\ want'[d] = want[d]
    BY <1>3 DEF Disconnect
  <2> QED BY <2>8, <2>9, OthersAim
<1>4. ASSUME NEW c \in Callers, Found(c)
      PROVE  CallsAim'
  <2>1. /\ want[c].host \in Hosts
        /\ saved[want[c].host] # NoCredential =>
             /\ saved[want[c].host] \in Credential
             /\ HostOf[saved[want[c].host].client] = want[c].host
    BY <1>4 DEF Found, CallsAim, TypeGateway
  <2>8. Aims(c)'
    BY <1>4, <2>1 DEF Found, CallsAim
  <2>9. \A d \in Callers \ {c} : at'[d] = at[d] /\ cred'[d] = cred[d] /\ want'[d] = want[d]
    BY <1>4 DEF Found
  <2> QED BY <2>8, <2>9, OthersAim
<1>5. ASSUME NEW c \in Callers, Me(c)
      PROVE  CallsAim'
  <2>8. Aims(c)'
    BY <1>5 DEF Me, CallsAim
  <2>9. \A d \in Callers \ {c} : at'[d] = at[d] /\ cred'[d] = cred[d] /\ want'[d] = want[d]
    BY <1>5 DEF Me
  <2> QED BY <2>8, <2>9, OthersAim
<1>6. ASSUME NEW c \in Callers, Accepted(c)
      PROVE  CallsAim'
  <2>1. /\ [cred[c] EXCEPT !.role = answer[c]] \in Credential
        /\ [cred[c] EXCEPT !.role = answer[c]].client = cred[c].client
    BY <1>6 DEF Accepted, CallsAim, Credential
  <2>8. Aims(c)'
    BY <1>6, <2>1 DEF Accepted, CallsAim
  <2>9. \A d \in Callers \ {c} : at'[d] = at[d] /\ cred'[d] = cred[d] /\ want'[d] = want[d]
    BY <1>6 DEF Accepted
  <2> QED BY <2>8, <2>9, OthersAim
<1>7. ASSUME NEW c \in Callers, Refused(c)
      PROVE  CallsAim'
  <2>8. Aims(c)'
    BY <1>7 DEF Refused, CallsAim
  <2>9. \A d \in Callers \ {c} : at'[d] = at[d] /\ cred'[d] = cred[d] /\ want'[d] = want[d]
    BY <1>7 DEF Refused
  <2> QED BY <2>8, <2>9, OthersAim
<1>8. ASSUME NEW c \in Callers, PairingKnown(c)
      PROVE  CallsAim'
  <2>8. Aims(c)'
    BY <1>8 DEF PairingKnown, CallsAim
  <2>9. \A d \in Callers \ {c} : at'[d] = at[d] /\ cred'[d] = cred[d] /\ want'[d] = want[d]
    BY <1>8 DEF PairingKnown
  <2> QED BY <2>8, <2>9, OthersAim
<1>9. ASSUME NEW c \in Callers, PairingRefused(c)
      PROVE  CallsAim'
  <2>8. Aims(c)'
    BY <1>9 DEF PairingRefused, CallsAim
  <2>9. \A d \in Callers \ {c} : at'[d] = at[d] /\ cred'[d] = cred[d] /\ want'[d] = want[d]
    BY <1>9 DEF PairingRefused
  <2> QED BY <2>8, <2>9, OthersAim
<1>10. ASSUME NEW c \in Callers, Proven(c)
      PROVE  CallsAim'
  <2>8. Aims(c)'
    BY <1>10 DEF Proven, CallsAim
  <2>9. \A d \in Callers \ {c} : at'[d] = at[d] /\ cred'[d] = cred[d] /\ want'[d] = want[d]
    BY <1>10 DEF Proven
  <2> QED BY <2>8, <2>9, OthersAim
<1>11. ASSUME NEW c \in Callers, NotFound(c)
      PROVE  CallsAim'
  <2>8. Aims(c)'
    BY <1>11 DEF NotFound, CallsAim
  <2>9. \A d \in Callers \ {c} : at'[d] = at[d] /\ cred'[d] = cred[d] /\ want'[d] = want[d]
    BY <1>11 DEF NotFound
  <2> QED BY <2>8, <2>9, OthersAim
<1>12. ASSUME NEW c \in Callers, Authorize(c)
      PROVE  CallsAim'
  <2>1. /\ [cred[c] EXCEPT !.secret = issued[cred[c].client] + 1] \in Credential
        /\ [cred[c] EXCEPT !.secret = issued[cred[c].client] + 1].client = cred[c].client
    BY <1>12 DEF Authorize, CallsAim, Credential, TypeHost
  <2>8. Aims(c)'
    BY <1>12, <2>1 DEF Authorize, CallsAim
  <2>9. \A d \in Callers \ {c} : at'[d] = at[d] /\ cred'[d] = cred[d] /\ want'[d] = want[d]
    BY <1>12 DEF Authorize
  <2> QED BY <2>8, <2>9, OthersAim
<1>13. ASSUME NEW c \in Callers, Completed(c)
      PROVE  CallsAim'
  <2>8. Aims(c)'
    BY <1>13 DEF Completed, CallsAim
  <2>9. \A d \in Callers \ {c} : at'[d] = at[d] /\ cred'[d] = cred[d] /\ want'[d] = want[d]
    BY <1>13 DEF Completed
  <2> QED BY <2>8, <2>9, OthersAim
<1>14. ASSUME NEW c \in Callers, Activate(c)
      PROVE  CallsAim'
  <2>8. Aims(c)'
    BY <1>14 DEF Activate, CallsAim
  <2>9. \A d \in Callers \ {c} : at'[d] = at[d] /\ cred'[d] = cred[d] /\ want'[d] = want[d]
    BY <1>14 DEF Activate
  <2> QED BY <2>8, <2>9, OthersAim
<1>15. ASSUME NEW c \in Callers, Leave(c)
      PROVE  CallsAim'
  <2>8. Aims(c)'
    BY <1>15 DEF Leave, CallsAim
  <2>9. \A d \in Callers \ {c} : at'[d] = at[d] /\ cred'[d] = cred[d] /\ want'[d] = want[d]
    BY <1>15 DEF Leave
  <2> QED BY <2>8, <2>9, OthersAim
<1>16. ASSUME NEW c \in Callers, Left(c)
      PROVE  CallsAim'
  <2>8. Aims(c)'
    BY <1>16 DEF Left, CallsAim
  <2>9. \A d \in Callers \ {c} : at'[d] = at[d] /\ cred'[d] = cred[d] /\ want'[d] = want[d]
    BY <1>16 DEF Left
  <2> QED BY <2>8, <2>9, OthersAim
<1>17. ASSUME NEW c \in Callers, RequestFails(c)
      PROVE  CallsAim'
  <2>8. Aims(c)'
    BY <1>17 DEF RequestFails, CallsAim
  <2>9. \A d \in Callers \ {c} : at'[d] = at[d] /\ cred'[d] = cred[d] /\ want'[d] = want[d]
    BY <1>17 DEF RequestFails
  <2> QED BY <2>8, <2>9, OthersAim
<1>18. ASSUME NEW c \in Callers, NEW p \in Pairings, PairingBegins(c, p)
      PROVE  CallsAim'
  <2>8. Aims(c)'
    BY <1>18 DEF PairingBegins, CallsAim
  <2>9. \A d \in Callers \ {c} : at'[d] = at[d] /\ cred'[d] = cred[d] /\ want'[d] = want[d]
    BY <1>18 DEF PairingBegins
  <2> QED BY <2>8, <2>9, OthersAim
<1>19. ASSUME NEW c \in Checks, Check(c)
      PROVE  CallsAim'
  <2>8. Aims(c)'
    BY <1>19 DEF Check, CallsAim, TypeGateway, Connected
  <2>9. \A d \in Callers \ {c} : at'[d] = at[d] /\ cred'[d] = cred[d] /\ want'[d] = want[d]
    BY <1>19 DEF Check
  <2> QED BY <2>8, <2>9, OthersAim
<1>20. ASSUME NEW c \in Checks, Checked(c)
      PROVE  CallsAim'
  <2>8. Aims(c)'
    BY <1>20 DEF Checked, CallsAim
  <2>9. \A d \in Callers \ {c} : at'[d] = at[d] /\ cred'[d] = cred[d] /\ want'[d] = want[d]
    BY <1>20 DEF Checked
  <2> QED BY <2>8, <2>9, OthersAim
<1>21. CASE UNCHANGED calls
  BY <1>21 DEF CallsAim
<1> QED BY <1>1, <1>2, <1>3, <1>4, <1>5, <1>6, <1>7, <1>8, <1>9, <1>10, <1>11, <1>12,
    <1>13, <1>14, <1>15, <1>16, <1>17, <1>18, <1>19, <1>20, <1>21
     DEF Next, CallStep, PairingLapses, SetRole, Revoke, PassOn, PassedOn, ProxyRefused

\* revokeActive() ends the watch over nothing but the connection it ends.
LEMMA RevokeWatched ==
  ASSUME ActiveIsWatched, Leaving' <=> Leaving, NEW p \in Pairings \union {None},
      RevokeActive(p)
  PROVE  ActiveIsWatched'
BY DEF ActiveIsWatched, Connected, RevokeActive

LEMMA WatchKeeps ==
  ASSUME IndInv, Next
  PROVE  ActiveIsWatched'
<1> USE NobodysCredential, RemoteAssumption DEF IndInv, ActiveIsWatched, Connected,
    TypeCalls, gateway, calls, host, Callers, Ends, Aims
<1>1. ASSUME NEW c \in Calls, NEW h \in Hosts, NEW r \in Requested, Connect(c, h, r)
      PROVE  ActiveIsWatched'
  <2>1. Leaving' <=> Leaving
    BY <1>1 DEF Connect, Leaving
  <2> QED BY <1>1, <2>1 DEF Connect
<1>2. ASSUME NEW c \in Calls, NEW p \in Pairings, CompletePairing(c, p)
      PROVE  ActiveIsWatched'
  <2>1. Leaving' <=> Leaving
    BY <1>2 DEF CompletePairing, Leaving
  <2> QED BY <1>2, <2>1 DEF CompletePairing
<1>3. ASSUME NEW c \in Calls, Disconnect(c)
      PROVE  ActiveIsWatched'
  <2>1. CASE Connected
    BY <1>3, <2>1 DEF Disconnect, Leaving
  <2>2. CASE ~Connected
    BY <1>3, <2>2 DEF Disconnect
  <2> QED BY <2>1, <2>2
<1>4. ASSUME NEW c \in Callers, Found(c)
      PROVE  ActiveIsWatched'
  <2>1. Leaving' <=> Leaving
    BY <1>4 DEF Found, Leaving
  <2> QED BY <1>4, <2>1 DEF Found
<1>5. ASSUME NEW c \in Callers, Me(c)
      PROVE  ActiveIsWatched'
  <2>1. Leaving' <=> Leaving
    BY <1>5 DEF Me, Leaving
  <2> QED BY <1>5, <2>1 DEF Me
<1>6. ASSUME NEW c \in Callers, Accepted(c)
      PROVE  ActiveIsWatched'
  <2>1. Leaving' <=> Leaving
    BY <1>6 DEF Accepted, Leaving
  <2> QED BY <1>6, <2>1 DEF Accepted
<1>7. ASSUME NEW c \in Callers, Refused(c)
      PROVE  ActiveIsWatched'
  <2>1. Leaving' <=> Leaving
    BY <1>7 DEF Refused, Leaving
  <2> QED BY <1>7, <2>1 DEF Refused
<1>8. ASSUME NEW c \in Callers, PairingKnown(c)
      PROVE  ActiveIsWatched'
  <2>1. Leaving' <=> Leaving
    BY <1>8 DEF PairingKnown, Leaving
  <2> QED BY <1>8, <2>1 DEF PairingKnown
<1>9. ASSUME NEW c \in Callers, PairingRefused(c)
      PROVE  ActiveIsWatched'
  <2>1. Leaving' <=> Leaving
    BY <1>9 DEF PairingRefused, Leaving
  <2> QED BY <1>9, <2>1 DEF PairingRefused
<1>10. ASSUME NEW c \in Callers, Proven(c)
      PROVE  ActiveIsWatched'
  <2>1. Leaving' <=> Leaving
    BY <1>10 DEF Proven, Leaving
  <2> QED BY <1>10, <2>1 DEF Proven
<1>11. ASSUME NEW c \in Callers, NotFound(c)
      PROVE  ActiveIsWatched'
  <2>1. Leaving' <=> Leaving
    BY <1>11 DEF NotFound, Leaving
  <2> QED BY <1>11, <2>1 DEF NotFound
<1>12. ASSUME NEW c \in Callers, Authorize(c)
      PROVE  ActiveIsWatched'
  <2>1. Leaving' <=> Leaving
    BY <1>12 DEF Authorize, Leaving
  <2> QED BY <1>12, <2>1 DEF Authorize
<1>13. ASSUME NEW c \in Callers, Completed(c)
      PROVE  ActiveIsWatched'
  <2>1. Leaving' <=> Leaving
    BY <1>13 DEF Completed, Leaving
  <2> QED BY <1>13, <2>1 DEF Completed
<1>14. ASSUME NEW c \in Callers, Activate(c)
      PROVE  ActiveIsWatched'
  <2>1. CASE Available(want[c].host)
    BY <1>14, <2>1 DEF Activate, Watch
  <2>2. CASE ~Available(want[c].host)
    <3>1. Leaving' <=> Leaving
      BY <1>14 DEF Activate, Leaving
    <3> QED BY <1>14, <2>2, <3>1 DEF Activate
  <2> QED BY <2>1, <2>2
<1>15. ASSUME NEW c \in Callers, Leave(c)
      PROVE  ActiveIsWatched'
  <2>1. c \in Calls /\ at'[c] = "left"
    BY <1>15 DEF Leave, CallsAim
  <2> QED BY <2>1 DEF Leaving
<1>16. ASSUME NEW c \in Callers, Left(c)
      PROVE  ActiveIsWatched'
  BY <1>16 DEF Left
<1>17. ASSUME NEW c \in Callers, RequestFails(c)
      PROVE  ActiveIsWatched'
  <2>1. Leaving' <=> Leaving
    BY <1>17 DEF RequestFails, Leaving, CallsAim
  <2> QED BY <1>17, <2>1 DEF RequestFails
<1>18. ASSUME NEW c \in Callers, NEW p \in Pairings, PairingBegins(c, p)
      PROVE  ActiveIsWatched'
  <2>1. Leaving' <=> Leaving
    BY <1>18 DEF PairingBegins, Leaving
  <2> QED BY <1>18, <2>1 DEF PairingBegins
<1>19. ASSUME NEW c \in Checks, Check(c)
      PROVE  ActiveIsWatched'
  <2>1. Leaving' <=> Leaving
    BY <1>19 DEF Check, Leaving
  <2> QED BY <1>19, <2>1 DEF Check
<1>20. ASSUME NEW c \in Checks, Checked(c)
      PROVE  ActiveIsWatched'
  <2>1. Leaving' <=> Leaving
    BY <1>20 DEF Checked, Leaving
  <2>2. CASE answer[c] = "refused"
    <3>1. cred[c].client \in Pairings
      BY <1>20 DEF Checked, CallsAim
    <3> QED BY <1>20, <2>1, <2>2, <3>1, RevokeWatched DEF Checked
  <2>3. CASE answer[c] # "refused"
    <3>1. active.client = active'.client /\ (Connected' => Connected)
      BY <1>20, <2>3 DEF Checked, Same, CallsAim, TypeGateway, NoCredential, Credential
    <3> QED BY <1>20, <2>1, <2>3, <3>1 DEF Checked
  <2> QED BY <2>2, <2>3
<1>21. CASE ProxyRefused
  <2>1. active.client \in Pairings \union {None} /\ (Leaving' <=> Leaving)
    BY <1>21 DEF ProxyRefused, TypeGateway, NoCredential, Leaving
  <2> QED BY <1>21, <2>1, RevokeWatched DEF ProxyRefused
<1>22. ASSUME NEW p \in Pairings, PairingLapses(p)
      PROVE  ActiveIsWatched'
  BY <1>22 DEF PairingLapses, Leaving
<1>23. ASSUME NEW p \in Pairings, SetRole(p)
      PROVE  ActiveIsWatched'
  BY <1>23 DEF SetRole, Leaving
<1>24. ASSUME NEW p \in Pairings, Revoke(p)
      PROVE  ActiveIsWatched'
  BY <1>24 DEF Revoke, Leaving
<1>25. ASSUME NEW p \in Pairings, PassOn(p)
      PROVE  ActiveIsWatched'
  BY <1>25 DEF PassOn, Leaving
<1>26. ASSUME NEW m \in passed, PassedOn(m)
      PROVE  ActiveIsWatched'
  <2>1. m.client \in Pairings /\ (Leaving' <=> Leaving)
    BY <1>26 DEF PassedOn, TypeHost, Leaving
  <2>2. CASE m.to = "refused"
    BY <1>26, <2>1, <2>2, RevokeWatched DEF PassedOn
  <2>3. CASE m.to # "refused"
    <3>1. active.client = active'.client /\ (Connected' => Connected)
      BY <1>26, <2>1, <2>3 DEF PassedOn, UpdateActiveRole, TypeGateway, NoCredential,
          Credential
    <3> QED BY <1>26, <2>1, <2>3, <3>1 DEF PassedOn, UpdateActiveRole
  <2> QED BY <2>2, <2>3
<1>99. CASE UNCHANGED vars
  BY <1>99 DEF vars, Leaving
<1> QED BY <1>1, <1>2, <1>3, <1>4, <1>5, <1>6, <1>7, <1>8, <1>9, <1>10, <1>11, <1>12,
    <1>13, <1>14, <1>15, <1>16, <1>17, <1>18, <1>19, <1>20, <1>21, <1>22, <1>23, <1>24,
    <1>25, <1>26, <1>99
     DEF Next, CallStep

LEMMA StepIndInv == IndInv /\ [Next]_vars => IndInv'
<1>1. ASSUME IndInv, Next
      PROVE  IndInv'
  BY <1>1, GatewayTypes, CallTypes, HostTypes, CallsAimKeeps, WatchKeeps DEF IndInv
<1>2. ASSUME IndInv, UNCHANGED vars
      PROVE  IndInv'
  BY <1>2 DEF IndInv, TypeGateway, TypeCalls, TypeHost, CallsAim, Aims, ActiveIsWatched,
      Connected,
     Leaving, vars, gateway, calls, host
<1> QED BY <1>1, <1>2

LEMMA Inductive == Spec => []IndInv
BY InitIndInv, StepIndInv, PTL DEF Spec

\* The state of gateway and hosts keeps its types.
THEOREM TypeCorrect == Spec => []TypeOK
<1>1. IndInv => TypeOK
  BY TypeParts DEF IndInv
<1> QED BY <1>1, Inductive, PTL

\* Whatever overlaps, a connection has its heartbeat and its event stream.
THEOREM ConnectionWatched == Spec => []ActiveIsWatched
<1>1. IndInv => ActiveIsWatched
  BY DEF IndInv
<1> QED BY <1>1, Inductive, PTL

-------------------------------------------------------------------------------
(* Turning from a host.                                                    *)

LeavesItsHost ==
  \A c \in Calls : at[c] \in {"leaving", "left"} /\ c \notin overtaken =>
    Connected /\ HostOf[cred[c].client] = HostOf[active.client]

\* Whoever ends a connection overtakes all the calls of disconnect() that wait.
LEMMA RevokeOvertakes ==
  ASSUME LeavesItsHost, NEW p, RevokeActive(p),
         \A d \in Calls : at'[d] \in {"leaving", "left"} =>
                            at[d] \in {"leaving", "left"} /\ cred'[d] = cred[d]
  PROVE  LeavesItsHost'
<1>1. CASE active.client = p
  <2>1. \A d \in Calls : at'[d] \in {"leaving", "left"} => d \in overtaken'
    BY <1>1 DEF RevokeActive, Disconnects
  <2> QED BY <2>1 DEF LeavesItsHost
<1>2. CASE active.client # p
  BY <1>2 DEF RevokeActive, LeavesItsHost, Connected
<1> QED BY <1>1, <1>2

LEMMA LeavesKeeps ==
  ASSUME IndInv, LeavesItsHost, Next
  PROVE  LeavesItsHost'
<1> DEFINE Waits(d) == at'[d] \in {"leaving", "left"} =>
                         at[d] \in {"leaving", "left"} /\ cred'[d] = cred[d]
<1> USE NobodysCredential, RemoteAssumption DEF IndInv, TypeCalls, gateway, calls, host,
    Callers, Ends, Aims
<1>1. ASSUME UNCHANGED <<active, overtaken>>, \A d \in Calls : Waits(d)
      PROVE  LeavesItsHost'
  BY <1>1 DEF LeavesItsHost, Connected
<1>2. ASSUME NEW c \in Calls, Disconnect(c)
      PROVE  LeavesItsHost'
  <2>1. \A d \in Calls \ {c} : Waits(d)
    BY <1>2 DEF Disconnect
  <2>2. at'[c] = "leaving" => Connected /\ cred'[c] = active
    BY <1>2 DEF Disconnect
  <2>3. at'[c] \in {"leaving", "idle"} /\ UNCHANGED <<active, overtaken>>
    BY <1>2 DEF Disconnect
  <2> QED BY <2>1, <2>2, <2>3 DEF LeavesItsHost, Connected
<1>3. ASSUME NEW c \in Callers, Activate(c)
      PROVE  LeavesItsHost'
  <2>1. \A d \in Calls : Waits(d)
    BY <1>3 DEF Activate
  <2>2. cred[c] \in Credential /\ HostOf[cred[c].client] = want[c].host
    BY <1>3 DEF Activate, CallsAim
  <2>3. CASE Available(want[c].host)
    <3>1. active' = cred[c] /\ UNCHANGED overtaken
      BY <1>3, <2>3 DEF Activate
    <3>2. Connected => HostOf[active.client] = HostOf[active'.client]
      BY <2>2, <2>3, <3>1 DEF Available
    <3>3. Connected'
      BY <2>2, <3>1 DEF Connected
    <3> QED BY <2>1, <3>1, <3>2, <3>3 DEF LeavesItsHost
  <2>4. CASE ~Available(want[c].host)
    BY <1>1, <1>3, <2>1, <2>4 DEF Activate
  <2> QED BY <2>3, <2>4
<1>4. ASSUME NEW c \in Callers, Leave(c)
      PROVE  LeavesItsHost'
  <2>1. \A d \in Calls : Waits(d)
    BY <1>4 DEF Leave
  <2>2. CASE RevokeActive(cred[c].client)
    BY <2>1, <2>2, RevokeOvertakes
  <2>3. CASE UNCHANGED <<active, overtaken>>
    BY <1>1, <2>1, <2>3
  <2> QED BY <1>4, <2>2, <2>3 DEF Leave
<1>5. ASSUME NEW c \in Callers, Left(c)
      PROVE  LeavesItsHost'
  <2>1. (\A d \in Calls \ {c} : Waits(d)) /\ at'[c] = "idle"
    BY <1>5 DEF Left
  <2>2. CASE Connected
    <3>1. overtaken' = (overtaken \union Disconnects) \ {c}
      BY <1>5, <2>2 DEF Left
    <3>2. \A d \in Calls \ {c} : at'[d] \in {"leaving", "left"} => d \in overtaken'
      BY <2>1, <3>1 DEF Disconnects
    <3> QED BY <2>1, <3>2 DEF LeavesItsHost
  <2>3. CASE ~Connected
    <3>1. overtaken' = overtaken \ {c}
      BY <1>5, <2>3 DEF Left
    <3>2. \A d \in Calls \ {c} : at'[d] \in {"leaving", "left"} => d \in overtaken'
      BY <2>1, <2>3, <3>1 DEF LeavesItsHost
    <3> QED BY <2>1, <3>2 DEF LeavesItsHost
  <2> QED BY <2>2, <2>3
<1>6. ASSUME NEW c \in Checks, Checked(c)
      PROVE  LeavesItsHost'
  <2>1. \A d \in Calls : Waits(d)
    BY <1>6 DEF Checked
  <2>2. CASE answer[c] = "refused"
    BY <1>6, <2>1, <2>2, RevokeOvertakes DEF Checked
  <2>3. CASE answer[c] # "refused"
    <3>1. active.client = active'.client /\ (Connected => Connected') /\ UNCHANGED overtaken
      BY <1>6, <2>3 DEF Checked, Same, CallsAim, TypeGateway, NoCredential, Credential, Connected
    <3> QED BY <2>1, <3>1 DEF LeavesItsHost
  <2> QED BY <2>2, <2>3
<1>7. CASE ProxyRefused
  <2>1. (\A d \in Calls : Waits(d)) /\ RevokeActive(active.client)
    BY <1>7 DEF ProxyRefused
  <2> QED BY <2>1, RevokeOvertakes
<1>8. ASSUME NEW m \in passed, PassedOn(m)
      PROVE  LeavesItsHost'
  <2>1. \A d \in Calls : Waits(d)
    BY <1>8 DEF PassedOn
  <2>2. CASE m.to = "refused"
    BY <1>8, <2>1, <2>2, RevokeOvertakes DEF PassedOn
  <2>3. CASE m.to # "refused"
    <3>1. active.client = active'.client /\ (Connected => Connected') /\ UNCHANGED overtaken
      <4>1. m.client \in Pairings
        BY DEF TypeHost
      <4> QED BY <1>8, <2>3, <4>1 DEF PassedOn, UpdateActiveRole, TypeGateway, NoCredential,
            Credential, Connected
    <3> QED BY <2>1, <3>1 DEF LeavesItsHost
  <2> QED BY <2>2, <2>3
<1>9. ASSUME NEW c \in Callers, RequestFails(c)
      PROVE  LeavesItsHost'
  <2>1. \A d \in Calls : Waits(d)
    BY <1>9 DEF RequestFails
  <2> QED BY <1>1, <1>9, <2>1 DEF RequestFails
<1>10. ASSUME NEW c \in Callers,
              \/ \E h \in Hosts, r \in Requested : Connect(c, h, r)
              \/ \E p \in Pairings : CompletePairing(c, p) \/ PairingBegins(c, p)
              \/ Found(c) \/ Me(c) \/ Check(c)
       PROVE  LeavesItsHost'
  <2>1. \A d \in Calls : Waits(d)
    BY <1>10 DEF Connect, CompletePairing, PairingBegins, Found, Me, Check
  <2> QED BY <1>1, <1>10, <2>1 DEF Connect, CompletePairing, PairingBegins, Found, Me, Check
<1>11. ASSUME NEW c \in Callers,
              \/ Accepted(c) \/ Refused(c) \/ PairingKnown(c) \/ PairingRefused(c) \/ Proven(c)
              \/ NotFound(c) \/ Authorize(c) \/ Completed(c)
       PROVE  LeavesItsHost'
  <2>1. \A d \in Calls : Waits(d)
    BY <1>11 DEF Accepted, Refused, PairingKnown, PairingRefused, Proven, NotFound, Authorize,
       Completed
  <2> QED BY <1>1, <1>11, <2>1 DEF Accepted, Refused, PairingKnown, PairingRefused, Proven,
        NotFound, Authorize, Completed
<1>12. ASSUME NEW p \in Pairings, PairingLapses(p) \/ SetRole(p) \/ Revoke(p) \/ PassOn(p)
       PROVE  LeavesItsHost'
  <2>1. UNCHANGED <<active, overtaken, at, cred>>
    BY <1>12 DEF PairingLapses, SetRole, Revoke, PassOn
  <2> QED BY <1>1, <2>1
<1> HIDE DEF Waits
<1> QED BY <1>2, <1>3, <1>4, <1>5, <1>6, <1>7, <1>8, <1>9, <1>10, <1>11, <1>12
     DEF Next, CallStep

\* At(h), ~At(h)' and how: the step of NoSilentSwitch.
Turns(h) ==
  At(h) /\ ~At(h)' =>
    \/ ProxyRefused
    \/ HearsRefusal(active.client)
    \/ \E c \in Calls : /\ at[c] = "left" /\ at'[c] = "idle"
                        /\ HostOf[cred[c].client] = h \/ c \in overtaken

\* The guard after the awaits holds for the credential that is activated, and an answer about
\* another client is not heard.
LEMMA HostKept ==
  ASSUME IndInv, LeavesItsHost, Next, NEW h \in Hosts
  PROVE  Turns(h)
<1> USE NobodysCredential, RemoteAssumption DEF IndInv, Connected, NoCredential, gateway,
    calls, host, Callers, Aims, At
<1>1. ASSUME UNCHANGED active
      PROVE  Turns(h)
  BY <1>1 DEF Turns
<1>2. ASSUME NEW c \in Callers, Activate(c)
      PROVE  Turns(h)
  <2>1. cred[c] \in Credential /\ HostOf[cred[c].client] = want[c].host
    BY <1>2 DEF Activate, CallsAim
  <2>2. At(h) => At(h)'
    BY <1>2, <2>1 DEF Activate, Available
  <2> QED BY <2>2 DEF Turns
<1>3. ASSUME NEW c \in Callers, Leave(c)
      PROVE  Turns(h)
  <2>1. c \in Calls /\ at[c] = "leaving" /\ at'[c] = "left"
    BY <1>3 DEF Leave, CallsAim, TypeCalls
  <2>2. active' = active \/ active.client = cred[c].client
    BY <1>3 DEF Leave, RevokeActive
  <2>3. CASE active.client = cred[c].client
    <3>1. HearsRefusal(active.client)
      BY <2>1, <2>3 DEF HearsRefusal
    <3> QED BY <3>1 DEF Turns
  <2> QED BY <1>1, <2>2, <2>3
<1>4. ASSUME NEW c \in Callers, Left(c)
      PROVE  Turns(h)
  <2>1. c \in Calls /\ at[c] = "left" /\ at'[c] = "idle"
    BY <1>4 DEF Left, Ends, CallsAim, TypeCalls
  <2>2. At(h) => HostOf[cred[c].client] = h \/ c \in overtaken
    BY <2>1 DEF LeavesItsHost
  <2> QED BY <2>1, <2>2 DEF Turns
<1>5. ASSUME NEW c \in Checks, Checked(c)
      PROVE  Turns(h)
  <2>1. at[c] = "checked" /\ at'[c] = "idle"
    BY <1>5 DEF Checked, Ends, TypeCalls
  <2>2. CASE answer[c] = "refused" /\ active.client = cred[c].client
    <3>1. HearsRefusal(active.client)
      BY <2>1, <2>2 DEF HearsRefusal
    <3> QED BY <3>1 DEF Turns
  <2>3. CASE answer[c] = "refused" /\ active.client # cred[c].client
    BY <1>1, <1>5, <2>3 DEF Checked, RevokeActive
  <2>4. CASE answer[c] # "refused"
    <3>1. active.client = active'.client /\ (Connected => Connected')
      BY <1>5, <2>4 DEF Checked, Same, CallsAim, TypeGateway, Credential
    <3> QED BY <3>1 DEF Turns
  <2> QED BY <2>2, <2>3, <2>4
<1>6. CASE ProxyRefused
  BY <1>6 DEF Turns
<1>7. ASSUME NEW m \in passed, PassedOn(m)
      PROVE  Turns(h)
  <2>1. m.client \in Pairings /\ m = [client |-> m.client, to |-> m.to]
    BY DEF TypeHost
  <2>2. CASE m.to = "refused" /\ active.client = m.client
    <3>1. passed' = passed \ {m}
      BY <1>7 DEF PassedOn
    <3>2. HearsRefusal(active.client)
      BY <2>1, <2>2, <3>1 DEF HearsRefusal
    <3> QED BY <3>2 DEF Turns
  <2>3. CASE m.to = "refused" /\ active.client # m.client
    BY <1>1, <1>7, <2>3 DEF PassedOn, RevokeActive
  <2>4. CASE m.to # "refused"
    <3>1. active.client = active'.client /\ (Connected => Connected')
      BY <1>7, <2>1, <2>4 DEF PassedOn, UpdateActiveRole, TypeGateway, Credential
    <3> QED BY <3>1 DEF Turns
  <2> QED BY <2>2, <2>3, <2>4
<1> QED BY <1>1, <1>2, <1>3, <1>4, <1>5, <1>6, <1>7
     DEF Next, CallStep, Connect, CompletePairing, Disconnect, Found, Me, Accepted,
         Refused, PairingKnown, PairingRefused, Proven, NotFound, Authorize, Completed,
         RequestFails, PairingBegins, Check, PairingLapses, SetRole, Revoke, PassOn

\* However the calls overlap, the gateway turns from a host only when that host has refused the
\* client it is connected as, or at the end of a disconnect() that has asked this host to close
\* the sessions, unless the connection of that disconnect() was ended by somebody else.
THEOREM NoSwitch == Spec => NoSilentSwitch
<1>1. Init => LeavesItsHost
  BY DEF Init, LeavesItsHost, Callers
<1>2. IndInv /\ LeavesItsHost /\ [Next]_vars => LeavesItsHost'
  <2>1. ASSUME LeavesItsHost, UNCHANGED vars
        PROVE  LeavesItsHost'
    BY <2>1 DEF LeavesItsHost, Connected, vars, gateway, calls
  <2> QED BY <2>1, LeavesKeeps
<1>3. ASSUME IndInv, LeavesItsHost, [Next]_vars
      PROVE  [\A h \in Hosts : At(h) /\ ~At(h)' =>
                \/ ProxyRefused
                \/ HearsRefusal(active.client)
                \/ \E c \in Calls : /\ at[c] = "left" /\ at'[c] = "idle"
                                    /\ HostOf[cred[c].client] = h \/ c \in overtaken]_vars
  BY <1>3, HostKept DEF Turns
<1> QED BY <1>1, <1>2, <1>3, Inductive, PTL DEF Spec, NoSilentSwitch

-------------------------------------------------------------------------------
(* What the gateway shows a host.                                          *)

IssuedTo(k) == k = NoCredential \/ k.secret \in 1..issued[k.client]

\* Whatever is active, saved or in the hands of a call was issued by the host to that client:
\* all but the credential that a pairing has not brought yet.
Genuine ==
  /\ IssuedTo(active)
  /\ \A h \in Hosts : IssuedTo(saved[h])
  /\ \A c \in Callers : at[c] \notin {"completing", "authorizing"} => IssuedTo(cred[c])

LEMMA InitGenuine == Init => Genuine
<1> SUFFICES ASSUME Init PROVE Genuine
  OBVIOUS
<1>1. ASSUME NEW h \in Hosts
      PROVE  IssuedTo(saved[h])
  <2>1. CASE \E p \in Remembered : HostOf[p] = h
    <3>1. PICK p \in Remembered : saved[h] = [client |-> p, secret |-> 1, role |-> Asked[p]]
      BY <2>1 DEF Init
    <3>2. issued[p] = 1
      BY RemoteAssumption DEF RemoteAssumption, Init
    <3> QED BY <3>1, <3>2 DEF IssuedTo
  <2>2. CASE ~ \E p \in Remembered : HostOf[p] = h
    BY <2>2 DEF Init, IssuedTo
  <2> QED BY <2>1, <2>2
<1> QED BY <1>1 DEF Init, Genuine, IssuedTo

\* Secrets are numbered as they are issued.
LEMMA IssuingGrows ==
  ASSUME IndInv, Next
  PROVE  \A p \in Pairings : issued'[p] \in Nat /\ issued[p] <= issued'[p]
<1> USE DEF IndInv, TypeHost, host
<1>1. ASSUME NEW c \in Callers, Authorize(c)
      PROVE  \A p \in Pairings : issued'[p] \in Nat /\ issued[p] <= issued'[p]
  BY <1>1 DEF Authorize
<1>2. CASE UNCHANGED issued
  BY <1>2
<1> QED BY <1>1, <1>2
     DEF Next, CallStep, Connect, CompletePairing, Disconnect, Found, Me, Accepted, Refused,
         PairingKnown, PairingRefused, Proven, NotFound, Completed, Activate, Leave, Left,
         RequestFails, PairingBegins, Check, Checked, PairingLapses, SetRole, Revoke, PassOn,
         PassedOn, ProxyRefused, gateway, calls

\* What was issued stays so, and does not depend on the role.
LEMMA StaysIssued ==
  ASSUME IndInv, Next, NEW k \in Credential \union {NoCredential}, IssuedTo(k)
  PROVE  k = NoCredential \/ k.secret \in 1..issued'[k.client]
<1>1. CASE k = NoCredential
  BY <1>1
<1>2. CASE k \in Credential
  <2>1. k.client \in Pairings /\ k.secret \in Nat /\ k # NoCredential
    BY <1>2, NobodysCredential DEF Credential
  <2>2. issued[k.client] \in Nat
    BY <2>1 DEF IndInv, TypeHost
  <2> QED BY <2>1, <2>2, IssuingGrows DEF IssuedTo
<1> QED BY <1>1, <1>2

LEMMA GenuineStep ==
  ASSUME IndInv, Genuine, Next
  PROVE  Genuine'
<1> DEFINE After(k) == k = NoCredential \/ k.secret \in 1..issued'[k.client]
           Kept(k) == k \in {active} \union {saved[h] : h \in Hosts}
                         \union {cred[c] : c \in {d \in Callers :
                                   at[d] \notin {"completing", "authorizing"}}}
           SameBut(l, k) == l.client = k.client /\ l.secret = k.secret
<1>1. ASSUME NEW k, Kept(k)
      PROVE  k \in Credential \union {NoCredential} /\ After(k)
  <2>1. k \in Credential \union {NoCredential} /\ IssuedTo(k)
    BY <1>1 DEF Genuine, IndInv, TypeGateway, TypeCalls
  <2> QED BY <2>1, StaysIssued
<1>2. ASSUME NEW k, Kept(k), k # NoCredential, NEW l, SameBut(l, k)
      PROVE  After(l)
  BY <1>1, <1>2
<1> SUFFICES /\ After(active')
             /\ \A h \in Hosts : After(saved'[h])
             /\ \A c \in Callers : at'[c] \notin {"completing", "authorizing"} => After(cred'[c])
  BY DEF Genuine, IssuedTo
<1>n. After(NoCredential)
  OBVIOUS
<1> DEFINE Inv == /\ After(active')
                  /\ \A h \in Hosts : After(saved'[h])
                  /\ \A c \in Callers :
                       at'[c] \notin {"completing", "authorizing"} => After(cred'[c])
<1>k. Kept(active) /\ (\A h \in Hosts : Kept(saved[h]))
      /\ \A c \in Callers : at[c] \notin {"completing", "authorizing"} => Kept(cred[c])
  OBVIOUS
<1>t. /\ at \in [Callers -> Places] /\ cred \in [Callers -> Credential \union {NoCredential}]
      /\ saved \in [Hosts -> Credential \union {NoCredential}]
      /\ active \in Credential \union {NoCredential} /\ Calls \subseteq Callers
  BY DEF IndInv, TypeCalls, TypeGateway, Callers
<1>h. CallsAim /\ NoCredential \notin Credential
  BY NobodysCredential DEF IndInv
<1>p. \A k \in Credential : SameBut(k, k) /\ \A r : SameBut([k EXCEPT !.role = r], k)
  BY DEF Credential
<1> HIDE DEF After, Kept, SameBut
<1> USE <1>1, <1>2, <1>n, <1>k, <1>t, <1>h, <1>p DEF gateway, calls, host, Ends
<1>3. ASSUME NEW c \in Calls,
             \/ \E h \in Hosts, r \in Requested : Connect(c, h, r)
             \/ \E p \in Pairings : CompletePairing(c, p)
             \/ Disconnect(c)
      PROVE  Inv
  BY <1>3 DEF Connect, CompletePairing, Disconnect, Unwatch
<1>4. ASSUME NEW c \in Callers,
             \/ Found(c) \/ Me(c) \/ PairingKnown(c) \/ PairingRefused(c) \/ Proven(c)
             \/ NotFound(c) \/ RequestFails(c) \/ \E p \in Pairings : PairingBegins(c, p)
      PROVE  Inv
  <2>1. /\ UNCHANGED <<active, saved>>
        /\ \A d \in Callers \ {c} : at'[d] = at[d] /\ cred'[d] = cred[d]
    BY <1>4 DEF Found, Me, PairingKnown, PairingRefused, Proven, NotFound, RequestFails,
       PairingBegins
  <2>2. at'[c] \notin {"completing", "authorizing"} => After(cred'[c])
    BY <1>4 DEF Found, Me, PairingKnown, PairingRefused, Proven, NotFound, RequestFails,
       PairingBegins, CallsAim, Aims
  <2> QED BY <2>1, <2>2
<1>5. ASSUME NEW c \in Callers, Accepted(c)
      PROVE  Inv
  <2> DEFINE k == [cred[c] EXCEPT !.role = answer[c]]
  <2>1. cred[c] \in Credential /\ Kept(cred[c])
    BY <1>5 DEF Accepted, CallsAim, Aims
  <2>2. After(k)
    BY <2>1
  <2>3. /\ UNCHANGED active /\ saved' = [saved EXCEPT ![HostOf[k.client]] = k]
        /\ cred' = [cred EXCEPT ![c] = k] /\ at' = [at EXCEPT ![c] = "saving"]
    BY <1>5 DEF Accepted, Save
  <2> HIDE DEF k
  <2> QED BY <2>2, <2>3
<1>6. ASSUME NEW c \in Callers, Refused(c) \/ Completed(c)
      PROVE  Inv
  <2>1. Kept(cred[c])
    BY <1>6 DEF Refused, Completed
  <2> QED BY <1>6, <2>1 DEF Refused, Completed, Save, Remove
<1>7. ASSUME NEW c \in Callers, Authorize(c)
      PROVE  Inv
  <2> DEFINE p == cred[c].client
             k == [cred[c] EXCEPT !.secret = issued[p] + 1]
  <2>1. cred[c] \in Credential /\ p \in Pairings
    BY <1>7, NobodysCredential DEF Authorize, CallsAim, Aims
  <2>2. k.client = p /\ k.secret = issued[p] + 1 /\ issued[p] \in Nat
    BY <2>1 DEF Credential, IndInv, TypeHost
  <2>3. issued'[p] = issued[p] + 1
    BY <1>7, <2>1 DEF Authorize, IndInv, TypeHost
  <2>4. After(k)
    BY <2>2, <2>3 DEF After
  <2>5. UNCHANGED <<active, saved>> /\ cred' = [cred EXCEPT ![c] = k]
        /\ at' = [at EXCEPT ![c] = "authorized"]
    BY <1>7 DEF Authorize
  <2> HIDE DEF p, k
  <2> QED BY <2>4, <2>5
<1>8. ASSUME NEW c \in Callers, Activate(c)
      PROVE  Inv
  BY <1>8 DEF Activate
<1>9. ASSUME NEW p, RevokeActive(p)
      PROVE  After(active') /\ \A h \in Hosts : After(saved'[h])
  BY <1>9 DEF RevokeActive, Remove
<1>10. ASSUME NEW c \in Callers, Leave(c)
      PROVE  Inv
  BY <1>9, <1>10 DEF Leave
<1>11. ASSUME NEW c \in Callers, Left(c)
      PROVE  Inv
  BY <1>11 DEF Left
<1>12. ASSUME NEW c \in Checks, Check(c)
      PROVE  Inv
  BY <1>12 DEF Check
<1>13. ASSUME NEW c \in Checks, Checked(c)
      PROVE  Inv
  <2> DEFINE held == IF Same(active, cred[c]) THEN active ELSE cred[c]
             k    == [held EXCEPT !.role = answer[c]]
  <2>1. held \in Credential /\ Kept(held)
    <3>1. cred[c] \in Credential /\ Kept(cred[c])
      BY <1>13 DEF Checked, CallsAim, Aims, Callers
    <3>2. cred[c].client # None
      BY <3>1, RemoteAssumption, NobodysCredential DEF RemoteAssumption
    <3>3. Same(active, cred[c]) => active # NoCredential
      BY <3>2 DEF Same, NoCredential
    <3> QED BY <3>1, <3>3
  <2>2. After(k)
    <3> HIDE DEF held
    <3>1. held # NoCredential /\ SameBut(k, held)
      BY <2>1
    <3> QED BY <2>1, <3>1
  <2>3. /\ at' = [at EXCEPT ![c] = "idle"] /\ cred' = [cred EXCEPT ![c] = NoCredential]
        /\ \/ RevokeActive(cred[c].client)
           \/ /\ active' = active \/ active' = k
              /\ UNCHANGED saved \/ saved' = [saved EXCEPT ![HostOf[k.client]] = k]
    BY <1>13 DEF Checked, Save
  <2> HIDE DEF k, held
  <2>4. After(active') /\ \A h \in Hosts : After(saved'[h])
    BY <1>9, <2>2, <2>3
  <2> QED BY <2>3, <2>4
<1>14. CASE ProxyRefused
  BY <1>9, <1>14 DEF ProxyRefused
<1>15. ASSUME NEW m \in passed, PassedOn(m)
      PROVE  Inv
  <2>1. CASE m.to = "refused"
    BY <1>9, <1>15, <2>1 DEF PassedOn
  <2>2. CASE m.to # "refused"
    <3> DEFINE k == [active EXCEPT !.role = m.to]
    <3>1. m.client \in Pairings
      BY DEF IndInv, TypeHost
    <3>2. CASE active.client = m.client
      <4>1. active \in Credential
        BY <3>1, <3>2, RemoteAssumption DEF RemoteAssumption, NoCredential
      <4>2. After(k)
        BY <4>1
      <4>3. active' = k /\ saved' = [saved EXCEPT ![HostOf[k.client]] = k]
            /\ UNCHANGED <<at, cred>>
        BY <1>15, <2>2, <3>2 DEF PassedOn, UpdateActiveRole, Save
      <4> HIDE DEF k
      <4> QED BY <4>2, <4>3
    <3>3. CASE active.client # m.client
      BY <1>15, <2>2, <3>3 DEF PassedOn, UpdateActiveRole
    <3> QED BY <3>2, <3>3
  <2> QED BY <2>1, <2>2
<1>16. CASE UNCHANGED <<gateway, calls>>
  BY <1>16
<1>17. ASSUME NEW p \in Pairings, PairingLapses(p)
      PROVE  Inv
  BY <1>17 DEF PairingLapses
<1> QED BY <1>3, <1>4, <1>5, <1>6, <1>7, <1>8, <1>10, <1>11, <1>12, <1>13, <1>14, <1>15,
    <1>16, <1>17 DEF Next, CallStep, SetRole, Revoke, PassOn

\* Calls of connect(), completePairing() and disconnect() that overlap, late checks and late
\* answers about rights never leave the gateway with a credential its host has not issued to
\* that very client, nor with the empty one that a pairing begins with.
THEOREM CredentialsGenuine == Spec => []Genuine
<1>1. IndInv /\ Genuine /\ [Next]_vars => Genuine'
  <2>1. ASSUME Genuine, UNCHANGED vars
        PROVE  Genuine'
    BY <2>1 DEF Genuine, IssuedTo, vars, gateway, calls, host
  <2> QED BY <2>1, GenuineStep
<1> QED BY <1>1, InitGenuine, Inductive, PTL DEF Spec
===============================================================================
