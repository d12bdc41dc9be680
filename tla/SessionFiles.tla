----------------------------- MODULE SessionFiles -----------------------------
(***************************************************************************)
(* The files of sessions at the testbench: assets                          *)
(* (automation/session-asset-manager.ts) and the directories through which *)
(* downloads and videos go to another computer                             *)
(* (RemoteArtifactHost, remote/remote-artifact-transfer.ts), with the      *)
(* handlers of api-server.ts that make and remove them.  Recordings are in *)
(* RecordingTransfer.                                                      *)
(*                                                                         *)
(* The sessions and assets are those of one client.  Others are paired     *)
(* with the testbench too: whatever they ask of these sessions is refused, *)
(* but a DELETE of theirs is refused with consequences.  Every asset has   *)
(* the same size, and Quota is the number of them that                     *)
(* TestbenchDefaults.SESSION_ASSET_TOTAL_LIMIT_BYTES admits.               *)
(***************************************************************************)
EXTENDS Naturals, FiniteSets

CONSTANTS
  Sessions,
  Uploads,   \* requests that upload an asset
  Bundles,   \* requests that upload the files of a file chooser
  Quota,
  None,
  Staged     \* the scope of assets uploaded before there is a session

ASSUME FilesAssumption == /\ Quota \in Nat /\ IsFiniteSet(Uploads)
                          /\ {None, Staged} \intersect (Sessions \union Uploads) = {}
                          /\ None # Staged /\ Uploads \intersect Sessions = {}
                          /\ Bundles \intersect (Sessions \union Uploads) = {}

VARIABLES
  session,   \* the handler of POST /v1/sessions, then the session, then its end
  camera,    \* the asset a session is to show as its camera image
  wanted,    \* the sessions whose request asks for the transfer of artifacts
  tracked,   \* RemoteArtifactHost.directories
  asset,     \* an upload: being received, or registered in SessionAssetManager.assets
  scope,     \* StoredAsset.sessionId
  bundle,    \* an upload of files for a file chooser: its handler
  disk,      \* what there is on the disk: of a session its transfer directory
  stopped,   \* ApiServer.stop() has cleaned up; requests still arrive
  overlapped, leaked, late, robbed
             \* history: scopes two uploads of which overlapped, or to which a staged asset
             \* was bound; directories nobody knows; what was registered after the cleanup;
             \* sessions in use whose files a refused DELETE has removed

handlers == <<session, camera, wanted, asset, scope, bundle>>
history  == <<overlapped, leaked, late, robbed>>
vars == <<handlers, tracked, disk, stopped, history>>

Scopes == Sessions \union {Staged}

TypeOK ==
  /\ session \in [Sessions -> {"none", "preparing", "starting", "live", "closing", "undone",
                               "ended", "over"}]
  /\ camera \in [Sessions -> Uploads \union {None}]
  /\ wanted \subseteq Sessions /\ tracked \subseteq Sessions
  /\ asset \in [Uploads -> {"none", "receiving", "stored", "gone"}]
  /\ scope \in [Uploads -> Scopes]
  /\ bundle \in [Bundles -> {"none", "receiving", "over"}]
  /\ disk \subseteq Sessions \union Uploads \union Bundles
  /\ stopped \in BOOLEAN
  /\ overlapped \subseteq Scopes
  /\ leaked \subseteq Sessions /\ robbed \subseteq Sessions
  /\ late \subseteq Sessions \union Uploads \union Bundles

Init ==
  /\ session = [s \in Sessions |-> "none"]
  /\ camera = [s \in Sessions |-> None]
  /\ wanted = {} /\ tracked = {}
  /\ asset = [u \in Uploads |-> "none"]
  /\ scope = [u \in Uploads |-> Staged]
  /\ bundle = [b \in Bundles |-> "none"]
  /\ disk = {} /\ stopped = FALSE
  /\ overlapped = {} /\ leaked = {} /\ late = {} /\ robbed = {}

StoredIn(sc) == {u \in Uploads : asset[u] = "stored" /\ scope[u] = sc}
Cleaned(sc) == stopped \/ (sc \in Sessions /\ session[sc] = "over")

-------------------------------------------------------------------------------
(* Uploads                                                                 *)

\* Mutants: the asset does not know its scope; the quota is compared with the new asset only.
UploadUnscoped(u, sc) ==
  /\ asset[u] = "none"
  /\ sc # Staged => session[sc] = "live"
  /\ asset' = [asset EXCEPT ![u] = "receiving"]
  /\ scope' = [scope EXCEPT ![u] = None]
  /\ disk' = disk \union {u}
  /\ UNCHANGED <<session, camera, wanted, bundle, tracked, stopped, history>>

WithinQuotaAlone(sc) == 1 <= Quota

\* The total of what is registered, and the new asset.
WithinQuota(sc) == Cardinality(StoredIn(sc)) + 1 <= Quota

\* The quota is compared with what is registered; then the root and the directory are
\* awaited, and the body.
Upload(u, sc) ==
  /\ asset[u] = "none"
  /\ sc # Staged => session[sc] = "live"
  /\ WithinQuota(sc)
  /\ asset' = [asset EXCEPT ![u] = "receiving"]
  /\ scope' = [scope EXCEPT ![u] = sc]
  /\ disk' = disk \union {u}
  /\ overlapped' = IF \E v \in Uploads : asset[v] = "receiving" /\ scope[v] = sc
                     THEN overlapped \union {sc} ELSE overlapped
  /\ late' = IF stopped THEN late \union {u} ELSE late
  /\ UNCHANGED <<session, camera, wanted, bundle, tracked, stopped, leaked, robbed>>

\* Complete and of the declared hash: registered, whatever has become of the session.
UploadStored(u) ==
  /\ asset[u] = "receiving"
  /\ asset' = [asset EXCEPT ![u] = "stored"]
  /\ late' = IF Cleaned(scope[u]) THEN late \union {u} ELSE late
  /\ UNCHANGED <<session, camera, wanted, scope, bundle, tracked, disk, stopped, overlapped,
                 leaked, robbed>>

\* Aborted, too long, or not what was declared.
UploadFails(u) ==
  /\ asset[u] = "receiving"
  /\ asset' = [asset EXCEPT ![u] = "gone"]
  /\ disk' = disk \ {u}
  /\ UNCHANGED <<session, camera, wanted, scope, bundle, tracked, stopped, history>>

\* RemoteArtifactHost.upload(): the bundle and its files are in a directory of their own
\* while the browser takes them, whether that succeeds or not.
UploadBundle(b) ==
  /\ bundle[b] = "none" /\ \E s \in Sessions : session[s] = "live"
  /\ bundle' = [bundle EXCEPT ![b] = "receiving"]
  /\ disk' = disk \union {b}
  /\ UNCHANGED <<session, camera, wanted, asset, scope, tracked, stopped, history>>

BundleTaken(b) ==
  /\ bundle[b] = "receiving"
  /\ bundle' = [bundle EXCEPT ![b] = "over"]
  /\ disk' = disk \ {b}
  /\ UNCHANGED <<session, camera, wanted, asset, scope, tracked, stopped, history>>

-------------------------------------------------------------------------------
(* POST /v1/sessions                                                       *)

Post(s, c) ==
  /\ session[s] = "none"
  /\ session' = [session EXCEPT ![s] = "preparing"]
  /\ camera' = [camera EXCEPT ![s] = c]
  /\ \/ wanted' = wanted \union {s} /\ disk' = disk \union {s}
     \/ UNCHANGED <<wanted, disk>>
  /\ UNCHANGED <<asset, scope, bundle, tracked, stopped, history>>

\* SessionAssetManager.resource(): without a session, an asset no session has.
Free(c) == c # None => asset[c] = "stored" /\ scope[c] = Staged

\* The directory is there. The camera image is looked up before the try block: if it is
\* not there, nobody removes the directory.
Prepared(s) ==
  /\ session[s] = "preparing"
  /\ IF Free(camera[s])
       THEN session' = [session EXCEPT ![s] = "starting"] /\ UNCHANGED leaked
       ELSE /\ session' = [session EXCEPT ![s] = "over"]
            /\ leaked' = leaked \union ({s} \intersect wanted)
  /\ UNCHANGED <<camera, wanted, asset, scope, bundle, tracked, disk, stopped, overlapped, late,
                 robbed>>

\* SessionAssetManager.bind()
Bindable(c) == Free(c)

\* SessionManager.start() has returned: bound, tracked and answered in one go.
Started(s) ==
  /\ session[s] = "starting" /\ Bindable(camera[s])
  /\ session' = [session EXCEPT ![s] = "live"]
  /\ IF camera[s] = None THEN UNCHANGED <<scope, overlapped>>
       ELSE /\ scope' = [scope EXCEPT ![camera[s]] = s]
            /\ overlapped' = overlapped \union {s}
  /\ tracked' = tracked \union ({s} \intersect wanted)
  /\ late' = IF stopped THEN late \union {s} ELSE late
  /\ UNCHANGED <<camera, wanted, asset, bundle, disk, stopped, leaked, robbed>>

\* Another session took the camera image: the directory is removed, the session closed.
BindFails(s) ==
  /\ session[s] = "starting" /\ ~Bindable(camera[s])
  /\ session' = [session EXCEPT ![s] = "undone"]
  /\ disk' = disk \ {s}
  /\ UNCHANGED <<camera, wanted, asset, scope, bundle, tracked, stopped, history>>

Undone(s) ==
  /\ session[s] = "undone"
  /\ session' = [session EXCEPT ![s] = "over"]
  /\ UNCHANGED <<camera, wanted, asset, scope, bundle, tracked, disk, stopped, history>>

StartFails(s) ==
  /\ session[s] = "starting"
  /\ session' = [session EXCEPT ![s] = "over"]
  /\ disk' = disk \ {s}
  /\ UNCHANGED <<camera, wanted, asset, scope, bundle, tracked, stopped, history>>

-------------------------------------------------------------------------------
(* The end of sessions                                                     *)

\* DELETE /v1/sessions/:id, also of a session that has ended otherwise.
Delete(s) ==
  /\ session[s] \in {"live", "ended"}
  /\ session' = [session EXCEPT ![s] = "closing"]
  /\ UNCHANGED <<camera, wanted, asset, scope, bundle, tracked, disk, stopped, history>>

\* Mutant: the assets that were uploaded before the session stay registered.
CleanAssetsUploaded(s) ==
  LET own == {u \in StoredIn(s) : \A r \in Sessions : camera[r] # u} IN
  /\ asset' = [u \in Uploads |-> IF u \in own THEN "gone" ELSE asset[u]]
  /\ disk' = disk \ (own \union ({s} \intersect tracked))

\* cleanupSession(), and completeSession() or discardSession().
CleanAssets(s) ==
  /\ asset' = [u \in Uploads |-> IF u \in StoredIn(s) THEN "gone" ELSE asset[u]]
  /\ disk' = disk \ (StoredIn(s) \union ({s} \intersect tracked))

\* Whether or not the session could be closed. A video is sent before its directory goes.
Deleted(s) ==
  /\ session[s] = "closing"
  /\ session' = [session EXCEPT ![s] = "over"]
  /\ CleanAssets(s)
  /\ tracked' = tracked \ {s}
  /\ UNCHANGED <<camera, wanted, scope, bundle, stopped, history>>

\* DELETE by a client that does not own the session, or of a session that is no longer known:
\* close() rejects, and the handler removes the files before it passes the refusal on.
DeleteRefused(s) ==
  /\ session[s] \in {"live", "closing", "ended", "over"}
  /\ CleanAssets(s)
  /\ tracked' = tracked \ {s}
  /\ robbed' = IF session[s] = "live" THEN robbed \union {s} ELSE robbed
  /\ UNCHANGED <<session, camera, wanted, scope, bundle, stopped, overlapped, leaked, late>>

\* The lease of a session runs out, or it has lost its browser: nobody looks at its files.
Expire(s) ==
  /\ session[s] = "live"
  /\ session' = [session EXCEPT ![s] = "ended"]
  /\ UNCHANGED <<camera, wanted, asset, scope, bundle, tracked, disk, stopped, history>>

\* closeOwnedAndCleanup(): the client has disconnected, was revoked, or its lease has ended.
\* The directories of the sessions it had are removed; their assets are not.
OwnerLeaves ==
  LET listed == {s \in Sessions : session[s] = "live"} IN
  /\ listed # {}
  /\ session' = [s \in Sessions |-> IF s \in listed THEN "ended" ELSE session[s]]
  /\ tracked' = tracked \ listed
  /\ disk' = disk \ (tracked \intersect listed)
  /\ UNCHANGED <<camera, wanted, asset, scope, bundle, stopped, history>>

\* stop(): all sessions are closed, then the maps are emptied and what they name removed.
\* The server still answers the requests it has, and new ones.
Stop ==
  /\ ~stopped
  /\ stopped' = TRUE
  /\ session' = [s \in Sessions |-> IF session[s] = "live" THEN "ended" ELSE session[s]]
  /\ asset' = [u \in Uploads |-> IF asset[u] = "stored" THEN "gone" ELSE asset[u]]
  /\ tracked' = {}
  /\ disk' = disk \ (tracked \union Uploads)
  /\ UNCHANGED <<camera, wanted, scope, bundle, history>>

Next ==
  \/ \E u \in Uploads : \/ \E sc \in Scopes : Upload(u, sc)
                        \/ UploadStored(u) \/ UploadFails(u)
  \/ \E b \in Bundles : UploadBundle(b) \/ BundleTaken(b)
  \/ \E s \in Sessions : \/ \E c \in Uploads \union {None} : Post(s, c)
                         \/ Prepared(s) \/ Started(s) \/ BindFails(s) \/ Undone(s) \/ StartFails(s)
                         \/ Delete(s) \/ Deleted(s) \/ DeleteRefused(s) \/ Expire(s)
  \/ OwnerLeaves \/ Stop

Spec == Init /\ [][Next]_vars

-------------------------------------------------------------------------------
\* Every file and directory is one that a map of the testbench names, or that a request in
\* progress will remove or register; the one way out is a start that fails before its try
\* block (api-server.ts:674-678).
FilesAreKnown ==
  /\ disk \intersect Uploads \subseteq {u \in Uploads : asset[u] \in {"receiving", "stored"}}
  /\ disk \intersect Sessions \subseteq
       tracked \union leaked \union {s \in Sessions : session[s] \in {"preparing", "starting"}}
  /\ disk \intersect Bundles \subseteq {b \in Bundles : bundle[b] = "receiving"}

\* "removes session files" (session-asset-manager.test.ts:23): once a session has been
\* deleted, and once the testbench has stopped, no file of it is left but those of requests
\* that were answered later.
NothingIsLeft ==
  /\ \A s \in Sessions :
       session[s] = "over" => /\ StoredIn(s) \subseteq late
                              /\ s \in disk => s \in leaked
  /\ stopped => \A u \in Uploads : asset[u] = "stored" => u \in late

\* A scope holds more than its quota only if two uploads to it overlapped, or a staged asset
\* was bound to it: the check is made before the upload and never again.
QuotaHolds ==
  \A sc \in Scopes : sc \in overlapped \/ Cardinality(StoredIn(sc)) <= Quota

\* While a session is in use its camera image is registered for it, and it alone, however
\* many sessions were started with the same asset, unless a DELETE that was refused took it.
CameraIsKept ==
  \A s \in Sessions :
    session[s] = "live" /\ camera[s] # None /\ ~stopped /\ s \notin robbed =>
      /\ asset[camera[s]] = "stored" /\ scope[camera[s]] = s
      /\ camera[s] \in disk

\* As long as it is in use a session keeps the directory it asked for, until the same happens.
DirectoryIsKept ==
  \A s \in Sessions :
    session[s] = "live" /\ s \in wanted /\ ~stopped /\ s \notin robbed =>
      s \in disk \intersect tracked

\* The files of a session are there as long as it is in use, are known as long as they are
\* there, and are gone once its client has deleted it or the testbench has stopped.  What the
\* code does beside that is named, and listed among the known divergences in the README: a
\* DELETE by another client is refused but removes the files of a session in use (robbed,
\* api-server.ts:721-731); a session whose lease ran out keeps its assets until it is deleted
\* (its stage is "ended", not "over"); the directory of a start that fails too early leaks
\* (leaked); and an upload that was under way at the end is registered after it (late).
FilesFollowSession == FilesAreKnown /\ NothingIsLeft /\ CameraIsKept /\ DirectoryIsKept
===============================================================================
