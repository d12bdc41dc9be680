--------------------------- MODULE SessionFilesProofs ---------------------------
(***************************************************************************)
(* SessionFiles for any number of sessions, uploads and bundles: no file   *)
(* is forgotten, none stays behind, and none is taken from a session that  *)
(* needs it; and an upload by itself never exceeds its quota.              *)
(***************************************************************************)
EXTENDS SessionFiles, FiniteSetTheorems, TLAPS

\* An asset has a session as its scope only once that session has been started.
ScopesStarted ==
  \A u \in Uploads : scope[u] \in Sessions =>
    session[scope[u]] \in {"live", "closing", "ended", "over"}

\* A directory is made by a request for a transfer, and only while its session is started.
DirectoriesAsked ==
  \A s \in Sessions : s \in disk => s \in wanted /\ session[s] \notin {"none", "undone"}

\* Until the testbench stops, an upload has its file.
FilesThere ==
  ~stopped => \A u \in Uploads : asset[u] \in {"receiving", "stored"} => u \in disk

\* What counts against a quota, with the uploads in progress.
Claims(sc) == {u \in Uploads : asset[u] \in {"receiving", "stored"} /\ scope[u] = sc}

\* The quota holds even counting these, unless two of them overlapped.
ClaimsWithinQuota == \A sc \in Scopes : sc \in overlapped \/ Cardinality(Claims(sc)) <= Quota

\* A directory that was asked for is there until it is registered, and registered only with
\* a session that was started.
DirectoriesMade ==
  /\ \A s \in wanted : session[s] # "none"
  /\ \A s \in wanted : session[s] \in {"preparing", "starting"} => s \in disk
  /\ \A s \in tracked : session[s] \in {"live", "closing", "ended", "over"}

IndInv == TypeOK /\ ScopesStarted /\ DirectoriesAsked /\ DirectoriesMade /\ FilesThere
            /\ FilesFollowSession

LEMMA InitIndInv == Init => IndInv
BY FilesAssumption DEF FilesAssumption, Init, IndInv, TypeOK, Scopes, ScopesStarted,
   DirectoriesAsked, DirectoriesMade, FilesThere, FilesFollowSession, FilesAreKnown,
   NothingIsLeft, CameraIsKept, DirectoryIsKept, StoredIn

LEMMA TypeStep ==
  ASSUME TypeOK, Next
  PROVE  TypeOK'
<1> USE FilesAssumption DEF FilesAssumption, TypeOK, Scopes, history
<1>1. ASSUME NEW u \in Uploads, NEW sc \in Scopes, Upload(u, sc)
      PROVE  TypeOK'
  BY <1>1 DEF Upload
<1>2. ASSUME NEW u \in Uploads, UploadStored(u)
      PROVE  TypeOK'
  BY <1>2 DEF UploadStored, Cleaned
<1>3. ASSUME NEW u \in Uploads, UploadFails(u)
      PROVE  TypeOK'
  BY <1>3 DEF UploadFails
<1>4. ASSUME NEW b \in Bundles, UploadBundle(b)
      PROVE  TypeOK'
  BY <1>4 DEF UploadBundle
<1>5. ASSUME NEW b \in Bundles, BundleTaken(b)
      PROVE  TypeOK'
  BY <1>5 DEF BundleTaken
<1>6. ASSUME NEW s \in Sessions, NEW c \in Uploads \union {None}, Post(s, c)
      PROVE  TypeOK'
  BY <1>6 DEF Post
<1>7. ASSUME NEW s \in Sessions, Prepared(s)
      PROVE  TypeOK'
  BY <1>7 DEF Prepared, Free
<1>8. ASSUME NEW s \in Sessions, Started(s)
      PROVE  TypeOK'
  BY <1>8 DEF Started, Bindable, Free
<1>9. ASSUME NEW s \in Sessions, BindFails(s)
      PROVE  TypeOK'
  BY <1>9 DEF BindFails
<1>10. ASSUME NEW s \in Sessions, Undone(s)
      PROVE  TypeOK'
  BY <1>10 DEF Undone
<1>11. ASSUME NEW s \in Sessions, StartFails(s)
      PROVE  TypeOK'
  BY <1>11 DEF StartFails
<1>12. ASSUME NEW s \in Sessions, Delete(s)
      PROVE  TypeOK'
  BY <1>12 DEF Delete
<1>13. ASSUME NEW s \in Sessions, Deleted(s)
      PROVE  TypeOK'
  BY <1>13 DEF Deleted, CleanAssets, StoredIn
<1>14. ASSUME NEW s \in Sessions, Expire(s)
      PROVE  TypeOK'
  BY <1>14 DEF Expire
<1>15. CASE OwnerLeaves
  BY <1>15 DEF OwnerLeaves
<1>16. CASE Stop
  BY <1>16 DEF Stop
<1>17. ASSUME NEW s \in Sessions, DeleteRefused(s)
      PROVE  TypeOK'
  BY <1>17 DEF DeleteRefused, CleanAssets, StoredIn
<1> QED BY <1>1, <1>2, <1>3, <1>4, <1>5, <1>6, <1>7, <1>8, <1>9, <1>10, <1>11, <1>12,
    <1>13, <1>14, <1>15, <1>16, <1>17 DEF Next

LEMMA ScopesStep ==
  ASSUME TypeOK, ScopesStarted, Next
  PROVE  ScopesStarted'
<1> USE FilesAssumption DEF FilesAssumption, TypeOK, Scopes, ScopesStarted, history
<1>1. ASSUME NEW u \in Uploads, NEW sc \in Scopes, Upload(u, sc)
      PROVE  ScopesStarted'
  BY <1>1 DEF Upload
<1>2. ASSUME NEW u \in Uploads, UploadStored(u)
      PROVE  ScopesStarted'
  BY <1>2 DEF UploadStored, Cleaned
<1>3. ASSUME NEW u \in Uploads, UploadFails(u)
      PROVE  ScopesStarted'
  BY <1>3 DEF UploadFails
<1>4. ASSUME NEW b \in Bundles, UploadBundle(b)
      PROVE  ScopesStarted'
  BY <1>4 DEF UploadBundle
<1>5. ASSUME NEW b \in Bundles, BundleTaken(b)
      PROVE  ScopesStarted'
  BY <1>5 DEF BundleTaken
<1>6. ASSUME NEW s \in Sessions, NEW c \in Uploads \union {None}, Post(s, c)
      PROVE  ScopesStarted'
  BY <1>6 DEF Post
<1>7. ASSUME NEW s \in Sessions, Prepared(s)
      PROVE  ScopesStarted'
  BY <1>7 DEF Prepared, Free
<1>8. ASSUME NEW s \in Sessions, Started(s)
      PROVE  ScopesStarted'
  BY <1>8 DEF Started, Bindable, Free
<1>9. ASSUME NEW s \in Sessions, BindFails(s)
      PROVE  ScopesStarted'
  BY <1>9 DEF BindFails
<1>10. ASSUME NEW s \in Sessions, Undone(s)
      PROVE  ScopesStarted'
  BY <1>10 DEF Undone
<1>11. ASSUME NEW s \in Sessions, StartFails(s)
      PROVE  ScopesStarted'
  BY <1>11 DEF StartFails
<1>12. ASSUME NEW s \in Sessions, Delete(s)
      PROVE  ScopesStarted'
  BY <1>12 DEF Delete
<1>13. ASSUME NEW s \in Sessions, Deleted(s)
      PROVE  ScopesStarted'
  BY <1>13 DEF Deleted, CleanAssets, StoredIn
<1>14. ASSUME NEW s \in Sessions, Expire(s)
      PROVE  ScopesStarted'
  BY <1>14 DEF Expire
<1>15. CASE OwnerLeaves
  BY <1>15 DEF OwnerLeaves
<1>16. CASE Stop
  BY <1>16 DEF Stop
<1>17. ASSUME NEW s \in Sessions, DeleteRefused(s)
      PROVE  ScopesStarted'
  BY <1>17 DEF DeleteRefused, CleanAssets, StoredIn
<1> QED BY <1>1, <1>2, <1>3, <1>4, <1>5, <1>6, <1>7, <1>8, <1>9, <1>10, <1>11, <1>12,
    <1>13, <1>14, <1>15, <1>16, <1>17 DEF Next

LEMMA DirectoriesStep ==
  ASSUME TypeOK, DirectoriesAsked, Next
  PROVE  DirectoriesAsked'
<1> USE FilesAssumption DEF FilesAssumption, TypeOK, DirectoriesAsked, history
<1>1. ASSUME NEW u \in Uploads, NEW sc \in Scopes, Upload(u, sc)
      PROVE  DirectoriesAsked'
  BY <1>1 DEF Upload
<1>2. ASSUME NEW u \in Uploads, UploadStored(u)
      PROVE  DirectoriesAsked'
  BY <1>2 DEF UploadStored, Cleaned
<1>3. ASSUME NEW u \in Uploads, UploadFails(u)
      PROVE  DirectoriesAsked'
  BY <1>3 DEF UploadFails
<1>4. ASSUME NEW b \in Bundles, UploadBundle(b)
      PROVE  DirectoriesAsked'
  BY <1>4 DEF UploadBundle
<1>5. ASSUME NEW b \in Bundles, BundleTaken(b)
      PROVE  DirectoriesAsked'
  BY <1>5 DEF BundleTaken
<1>6. ASSUME NEW s \in Sessions, NEW c \in Uploads \union {None}, Post(s, c)
      PROVE  DirectoriesAsked'
  BY <1>6 DEF Post
<1>7. ASSUME NEW s \in Sessions, Prepared(s)
      PROVE  DirectoriesAsked'
  BY <1>7 DEF Prepared, Free
<1>8. ASSUME NEW s \in Sessions, Started(s)
      PROVE  DirectoriesAsked'
  BY <1>8 DEF Started, Bindable, Free
<1>9. ASSUME NEW s \in Sessions, BindFails(s)
      PROVE  DirectoriesAsked'
  BY <1>9 DEF BindFails
<1>10. ASSUME NEW s \in Sessions, Undone(s)
      PROVE  DirectoriesAsked'
  BY <1>10 DEF Undone
<1>11. ASSUME NEW s \in Sessions, StartFails(s)
      PROVE  DirectoriesAsked'
  BY <1>11 DEF StartFails
<1>12. ASSUME NEW s \in Sessions, Delete(s)
      PROVE  DirectoriesAsked'
  BY <1>12 DEF Delete
<1>13. ASSUME NEW s \in Sessions, Deleted(s)
      PROVE  DirectoriesAsked'
  BY <1>13 DEF Deleted, CleanAssets, StoredIn
<1>14. ASSUME NEW s \in Sessions, Expire(s)
      PROVE  DirectoriesAsked'
  BY <1>14 DEF Expire
<1>15. CASE OwnerLeaves
  BY <1>15 DEF OwnerLeaves
<1>16. CASE Stop
  BY <1>16 DEF Stop
<1>17. ASSUME NEW s \in Sessions, DeleteRefused(s)
      PROVE  DirectoriesAsked'
  BY <1>17 DEF DeleteRefused, CleanAssets, StoredIn
<1> QED BY <1>1, <1>2, <1>3, <1>4, <1>5, <1>6, <1>7, <1>8, <1>9, <1>10, <1>11, <1>12,
    <1>13, <1>14, <1>15, <1>16, <1>17 DEF Next

LEMMA MadeStep ==
  ASSUME TypeOK, DirectoriesMade, DirectoryIsKept, Next
  PROVE  DirectoriesMade' /\ DirectoryIsKept'
<1> USE FilesAssumption DEF FilesAssumption, TypeOK, DirectoriesMade, DirectoryIsKept, history
<1>1. ASSUME NEW u \in Uploads, NEW sc \in Scopes, Upload(u, sc)
      PROVE  DirectoriesMade' /\ DirectoryIsKept'
  BY <1>1 DEF Upload
<1>2. ASSUME NEW u \in Uploads, UploadStored(u)
      PROVE  DirectoriesMade' /\ DirectoryIsKept'
  BY <1>2 DEF UploadStored, Cleaned
<1>3. ASSUME NEW u \in Uploads, UploadFails(u)
      PROVE  DirectoriesMade' /\ DirectoryIsKept'
  BY <1>3 DEF UploadFails
<1>4. ASSUME NEW b \in Bundles, UploadBundle(b)
      PROVE  DirectoriesMade' /\ DirectoryIsKept'
  BY <1>4 DEF UploadBundle
<1>5. ASSUME NEW b \in Bundles, BundleTaken(b)
      PROVE  DirectoriesMade' /\ DirectoryIsKept'
  BY <1>5 DEF BundleTaken
<1>6. ASSUME NEW s \in Sessions, NEW c \in Uploads \union {None}, Post(s, c)
      PROVE  DirectoriesMade' /\ DirectoryIsKept'
  BY <1>6 DEF Post
<1>7. ASSUME NEW s \in Sessions, Prepared(s)
      PROVE  DirectoriesMade' /\ DirectoryIsKept'
  BY <1>7 DEF Prepared, Free
<1>8. ASSUME NEW s \in Sessions, Started(s)
      PROVE  DirectoriesMade' /\ DirectoryIsKept'
  BY <1>8 DEF Started, Bindable, Free
<1>9. ASSUME NEW s \in Sessions, BindFails(s)
      PROVE  DirectoriesMade' /\ DirectoryIsKept'
  BY <1>9 DEF BindFails
<1>10. ASSUME NEW s \in Sessions, Undone(s)
      PROVE  DirectoriesMade' /\ DirectoryIsKept'
  BY <1>10 DEF Undone
<1>11. ASSUME NEW s \in Sessions, StartFails(s)
      PROVE  DirectoriesMade' /\ DirectoryIsKept'
  BY <1>11 DEF StartFails
<1>12. ASSUME NEW s \in Sessions, Delete(s)
      PROVE  DirectoriesMade' /\ DirectoryIsKept'
  BY <1>12 DEF Delete
<1>13. ASSUME NEW s \in Sessions, Deleted(s)
      PROVE  DirectoriesMade' /\ DirectoryIsKept'
  BY <1>13 DEF Deleted, CleanAssets, StoredIn
<1>14. ASSUME NEW s \in Sessions, Expire(s)
      PROVE  DirectoriesMade' /\ DirectoryIsKept'
  BY <1>14 DEF Expire
<1>15. CASE OwnerLeaves
  BY <1>15 DEF OwnerLeaves
<1>16. CASE Stop
  BY <1>16 DEF Stop
<1>17. ASSUME NEW s \in Sessions, DeleteRefused(s)
      PROVE  DirectoriesMade' /\ DirectoryIsKept'
  BY <1>17 DEF DeleteRefused, CleanAssets, StoredIn
<1> QED BY <1>1, <1>2, <1>3, <1>4, <1>5, <1>6, <1>7, <1>8, <1>9, <1>10, <1>11, <1>12,
    <1>13, <1>14, <1>15, <1>16, <1>17 DEF Next

LEMMA FilesThereStep ==
  ASSUME TypeOK, FilesThere, Next
  PROVE  FilesThere'
<1> USE FilesAssumption DEF FilesAssumption, TypeOK, FilesThere, history
<1>1. ASSUME NEW u \in Uploads, NEW sc \in Scopes, Upload(u, sc)
      PROVE  FilesThere'
  BY <1>1 DEF Upload
<1>2. ASSUME NEW u \in Uploads, UploadStored(u)
      PROVE  FilesThere'
  BY <1>2 DEF UploadStored, Cleaned
<1>3. ASSUME NEW u \in Uploads, UploadFails(u)
      PROVE  FilesThere'
  BY <1>3 DEF UploadFails
<1>4. ASSUME NEW b \in Bundles, UploadBundle(b)
      PROVE  FilesThere'
  BY <1>4 DEF UploadBundle
<1>5. ASSUME NEW b \in Bundles, BundleTaken(b)
      PROVE  FilesThere'
  BY <1>5 DEF BundleTaken
<1>6. ASSUME NEW s \in Sessions, NEW c \in Uploads \union {None}, Post(s, c)
      PROVE  FilesThere'
  BY <1>6 DEF Post
<1>7. ASSUME NEW s \in Sessions, Prepared(s)
      PROVE  FilesThere'
  BY <1>7 DEF Prepared, Free
<1>8. ASSUME NEW s \in Sessions, Started(s)
      PROVE  FilesThere'
  BY <1>8 DEF Started, Bindable, Free
<1>9. ASSUME NEW s \in Sessions, BindFails(s)
      PROVE  FilesThere'
  BY <1>9 DEF BindFails
<1>10. ASSUME NEW s \in Sessions, Undone(s)
      PROVE  FilesThere'
  BY <1>10 DEF Undone
<1>11. ASSUME NEW s \in Sessions, StartFails(s)
      PROVE  FilesThere'
  BY <1>11 DEF StartFails
<1>12. ASSUME NEW s \in Sessions, Delete(s)
      PROVE  FilesThere'
  BY <1>12 DEF Delete
<1>13. ASSUME NEW s \in Sessions, Deleted(s)
      PROVE  FilesThere'
  BY <1>13 DEF Deleted, CleanAssets, StoredIn
<1>14. ASSUME NEW s \in Sessions, Expire(s)
      PROVE  FilesThere'
  BY <1>14 DEF Expire
<1>15. CASE OwnerLeaves
  BY <1>15 DEF OwnerLeaves
<1>16. CASE Stop
  BY <1>16 DEF Stop
<1>17. ASSUME NEW s \in Sessions, DeleteRefused(s)
      PROVE  FilesThere'
  BY <1>17 DEF DeleteRefused, CleanAssets, StoredIn
<1> QED BY <1>1, <1>2, <1>3, <1>4, <1>5, <1>6, <1>7, <1>8, <1>9, <1>10, <1>11, <1>12,
    <1>13, <1>14, <1>15, <1>16, <1>17 DEF Next

LEMMA KnownStep ==
  ASSUME IndInv, Next
  PROVE  FilesAreKnown'
<1> USE FilesAssumption DEF FilesAssumption, IndInv, TypeOK, DirectoriesAsked,
    FilesFollowSession, FilesAreKnown, history
<1>1. ASSUME NEW u \in Uploads, NEW sc \in Scopes, Upload(u, sc)
      PROVE  FilesAreKnown'
  BY <1>1 DEF Upload
<1>2. ASSUME NEW u \in Uploads, UploadStored(u)
      PROVE  FilesAreKnown'
  BY <1>2 DEF UploadStored, Cleaned
<1>3. ASSUME NEW u \in Uploads, UploadFails(u)
      PROVE  FilesAreKnown'
  BY <1>3 DEF UploadFails
<1>4. ASSUME NEW b \in Bundles, UploadBundle(b)
      PROVE  FilesAreKnown'
  BY <1>4 DEF UploadBundle
<1>5. ASSUME NEW b \in Bundles, BundleTaken(b)
      PROVE  FilesAreKnown'
  BY <1>5 DEF BundleTaken
<1>6. ASSUME NEW s \in Sessions, NEW c \in Uploads \union {None}, Post(s, c)
      PROVE  FilesAreKnown'
  BY <1>6 DEF Post
<1>7. ASSUME NEW s \in Sessions, Prepared(s)
      PROVE  FilesAreKnown'
  BY <1>7 DEF Prepared, Free
<1>8. ASSUME NEW s \in Sessions, Started(s)
      PROVE  FilesAreKnown'
  BY <1>8 DEF Started, Bindable, Free
<1>9. ASSUME NEW s \in Sessions, BindFails(s)
      PROVE  FilesAreKnown'
  BY <1>9 DEF BindFails
<1>10. ASSUME NEW s \in Sessions, Undone(s)
      PROVE  FilesAreKnown'
  BY <1>10 DEF Undone
<1>11. ASSUME NEW s \in Sessions, StartFails(s)
      PROVE  FilesAreKnown'
  BY <1>11 DEF StartFails
<1>12. ASSUME NEW s \in Sessions, Delete(s)
      PROVE  FilesAreKnown'
  BY <1>12 DEF Delete
<1>13. ASSUME NEW s \in Sessions, Deleted(s)
      PROVE  FilesAreKnown'
  BY <1>13 DEF Deleted, CleanAssets, StoredIn
<1>14. ASSUME NEW s \in Sessions, Expire(s)
      PROVE  FilesAreKnown'
  BY <1>14 DEF Expire
<1>15. CASE OwnerLeaves
  BY <1>15 DEF OwnerLeaves
<1>16. CASE Stop
  BY <1>16 DEF Stop
<1>17. ASSUME NEW s \in Sessions, DeleteRefused(s)
      PROVE  FilesAreKnown'
  BY <1>17 DEF DeleteRefused, CleanAssets, StoredIn
<1> QED BY <1>1, <1>2, <1>3, <1>4, <1>5, <1>6, <1>7, <1>8, <1>9, <1>10, <1>11, <1>12,
    <1>13, <1>14, <1>15, <1>16, <1>17 DEF Next

LEMMA LeftStep ==
  ASSUME IndInv, Next
  PROVE  NothingIsLeft'
<1> USE FilesAssumption DEF FilesAssumption, IndInv, TypeOK, Scopes, ScopesStarted,
    DirectoriesAsked, FilesFollowSession, FilesAreKnown, NothingIsLeft, StoredIn, history
<1>1. ASSUME NEW u \in Uploads, NEW sc \in Scopes, Upload(u, sc)
      PROVE  NothingIsLeft'
  BY <1>1 DEF Upload
<1>2. ASSUME NEW u \in Uploads, UploadStored(u)
      PROVE  NothingIsLeft'
  BY <1>2 DEF UploadStored, Cleaned
<1>3. ASSUME NEW u \in Uploads, UploadFails(u)
      PROVE  NothingIsLeft'
  BY <1>3 DEF UploadFails
<1>4. ASSUME NEW b \in Bundles, UploadBundle(b)
      PROVE  NothingIsLeft'
  BY <1>4 DEF UploadBundle
<1>5. ASSUME NEW b \in Bundles, BundleTaken(b)
      PROVE  NothingIsLeft'
  BY <1>5 DEF BundleTaken
<1>6. ASSUME NEW s \in Sessions, NEW c \in Uploads \union {None}, Post(s, c)
      PROVE  NothingIsLeft'
  BY <1>6 DEF Post
<1>7. ASSUME NEW s \in Sessions, Prepared(s)
      PROVE  NothingIsLeft'
  BY <1>7 DEF Prepared, Free
<1>8. ASSUME NEW s \in Sessions, Started(s)
      PROVE  NothingIsLeft'
  BY <1>8 DEF Started, Bindable, Free
<1>9. ASSUME NEW s \in Sessions, BindFails(s)
      PROVE  NothingIsLeft'
  BY <1>9 DEF BindFails
<1>10. ASSUME NEW s \in Sessions, Undone(s)
      PROVE  NothingIsLeft'
  BY <1>10 DEF Undone
<1>11. ASSUME NEW s \in Sessions, StartFails(s)
      PROVE  NothingIsLeft'
  BY <1>11 DEF StartFails
<1>12. ASSUME NEW s \in Sessions, Delete(s)
      PROVE  NothingIsLeft'
  BY <1>12 DEF Delete
<1>13. ASSUME NEW s \in Sessions, Deleted(s)
      PROVE  NothingIsLeft'
  BY <1>13 DEF Deleted, CleanAssets, StoredIn
<1>14. ASSUME NEW s \in Sessions, Expire(s)
      PROVE  NothingIsLeft'
  BY <1>14 DEF Expire
<1>15. CASE OwnerLeaves
  BY <1>15 DEF OwnerLeaves
<1>16. CASE Stop
  BY <1>16 DEF Stop
<1>17. ASSUME NEW s \in Sessions, DeleteRefused(s)
      PROVE  NothingIsLeft'
  BY <1>17 DEF DeleteRefused, CleanAssets, StoredIn
<1> QED BY <1>1, <1>2, <1>3, <1>4, <1>5, <1>6, <1>7, <1>8, <1>9, <1>10, <1>11, <1>12,
    <1>13, <1>14, <1>15, <1>16, <1>17 DEF Next

LEMMA CameraStep ==
  ASSUME IndInv, Next
  PROVE  CameraIsKept'
<1> USE FilesAssumption DEF FilesAssumption, IndInv, TypeOK, Scopes, FilesThere,
    FilesFollowSession, CameraIsKept, history
<1>1. ASSUME NEW u \in Uploads, NEW sc \in Scopes, Upload(u, sc)
      PROVE  CameraIsKept'
  BY <1>1 DEF Upload
<1>2. ASSUME NEW u \in Uploads, UploadStored(u)
      PROVE  CameraIsKept'
  BY <1>2 DEF UploadStored, Cleaned
<1>3. ASSUME NEW u \in Uploads, UploadFails(u)
      PROVE  CameraIsKept'
  BY <1>3 DEF UploadFails
<1>4. ASSUME NEW b \in Bundles, UploadBundle(b)
      PROVE  CameraIsKept'
  BY <1>4 DEF UploadBundle
<1>5. ASSUME NEW b \in Bundles, BundleTaken(b)
      PROVE  CameraIsKept'
  BY <1>5 DEF BundleTaken
<1>6. ASSUME NEW s \in Sessions, NEW c \in Uploads \union {None}, Post(s, c)
      PROVE  CameraIsKept'
  BY <1>6 DEF Post
<1>7. ASSUME NEW s \in Sessions, Prepared(s)
      PROVE  CameraIsKept'
  BY <1>7 DEF Prepared, Free
<1>8. ASSUME NEW s \in Sessions, Started(s)
      PROVE  CameraIsKept'
  BY <1>8 DEF Started, Bindable, Free
<1>9. ASSUME NEW s \in Sessions, BindFails(s)
      PROVE  CameraIsKept'
  BY <1>9 DEF BindFails
<1>10. ASSUME NEW s \in Sessions, Undone(s)
      PROVE  CameraIsKept'
  BY <1>10 DEF Undone
<1>11. ASSUME NEW s \in Sessions, StartFails(s)
      PROVE  CameraIsKept'
  BY <1>11 DEF StartFails
<1>12. ASSUME NEW s \in Sessions, Delete(s)
      PROVE  CameraIsKept'
  BY <1>12 DEF Delete
<1>13. ASSUME NEW s \in Sessions, Deleted(s)
      PROVE  CameraIsKept'
  BY <1>13 DEF Deleted, CleanAssets, StoredIn
<1>14. ASSUME NEW s \in Sessions, Expire(s)
      PROVE  CameraIsKept'
  BY <1>14 DEF Expire
<1>15. CASE OwnerLeaves
  BY <1>15 DEF OwnerLeaves
<1>16. CASE Stop
  BY <1>16 DEF Stop
<1>17. ASSUME NEW s \in Sessions, DeleteRefused(s)
      PROVE  CameraIsKept'
  BY <1>17 DEF DeleteRefused, CleanAssets, StoredIn
<1> QED BY <1>1, <1>2, <1>3, <1>4, <1>5, <1>6, <1>7, <1>8, <1>9, <1>10, <1>11, <1>12,
    <1>13, <1>14, <1>15, <1>16, <1>17 DEF Next

\* Claims that are given up, or become files, do not add to those there were.
LEMMA FewerClaims ==
  ASSUME NEW S \in SUBSET Uploads, NEW T \in SUBSET S, Cardinality(S) <= Quota
  PROVE  Cardinality(T) <= Quota
<1>1. IsFiniteSet(S)
  BY FilesAssumption, FS_Subset DEF FilesAssumption
<1>2. IsFiniteSet(T) /\ Cardinality(T) <= Cardinality(S)
  BY <1>1, FS_Subset
<1> QED BY <1>1, <1>2, FS_CardinalityType, FilesAssumption DEF FilesAssumption

LEMMA QuotaInit == Init => ClaimsWithinQuota
<1> SUFFICES ASSUME Init, NEW sc \in Scopes
             PROVE  Cardinality(Claims(sc)) <= Quota
  BY DEF ClaimsWithinQuota
<1>1. Claims(sc) = {}
  BY DEF Init, Claims
<1> QED BY <1>1, FS_EmptySet, FilesAssumption DEF FilesAssumption

\* Only two steps add to the claims of a scope: an upload, which looks at the quota, and the
\* start of a session with a staged asset, which is recorded.
LEMMA QuotaStep ==
  ASSUME TypeOK, ClaimsWithinQuota, Next
  PROVE  ClaimsWithinQuota'
<1> SUFFICES ASSUME NEW sc \in Scopes, sc \notin overlapped'
             PROVE  Cardinality(Claims(sc)') <= Quota
  BY DEF ClaimsWithinQuota, Claims, Scopes
<1>1. sc \notin overlapped
  BY DEF Next, Upload, UploadStored, UploadFails, UploadBundle, BundleTaken, Post, Prepared,
     Started, BindFails, Undone, StartFails, Delete, Deleted, DeleteRefused, Expire,
     OwnerLeaves, Stop, history
<1>2. Cardinality(Claims(sc)) <= Quota
  BY <1>1 DEF ClaimsWithinQuota
<1>3. Claims(sc) \in SUBSET Uploads
  BY DEF Claims
<1>4. ASSUME NEW u \in Uploads, Upload(u, sc)
      PROVE  Cardinality(Claims(sc)') <= Quota
  <2>1. Claims(sc) = StoredIn(sc)
    BY <1>4 DEF Upload, Claims, StoredIn, TypeOK
  <2>2. Claims(sc)' = StoredIn(sc) \union {u} /\ u \notin StoredIn(sc)
    BY <1>4, <2>1 DEF Upload, Claims, StoredIn, TypeOK
  <2>3. IsFiniteSet(StoredIn(sc))
    BY FilesAssumption, FS_Subset DEF FilesAssumption, StoredIn
  <2>4. Cardinality(Claims(sc)') = Cardinality(StoredIn(sc)) + 1
    BY <2>2, <2>3, FS_AddElement
  <2> QED BY <1>4, <2>4 DEF Upload, WithinQuota
<1>5. CASE ~ \E u \in Uploads : Upload(u, sc)
  <2>1. Claims(sc)' \subseteq Claims(sc)
    <3> USE DEF Claims, TypeOK, history
    <3>1. ASSUME NEW u \in Uploads, NEW o \in Scopes, Upload(u, o)
          PROVE  Claims(sc)' \subseteq Claims(sc)
      BY <1>5, <3>1 DEF Upload
    <3>2. ASSUME NEW u \in Uploads, UploadStored(u) \/ UploadFails(u)
          PROVE  Claims(sc)' \subseteq Claims(sc)
      BY <3>2 DEF UploadStored, UploadFails
    <3>3. ASSUME NEW b \in Bundles, UploadBundle(b) \/ BundleTaken(b)
          PROVE  Claims(sc)' \subseteq Claims(sc)
      BY <3>3 DEF UploadBundle, BundleTaken
    <3>4. ASSUME NEW s \in Sessions, Started(s)
          PROVE  Claims(sc)' \subseteq Claims(sc)
      BY <3>4 DEF Started
    <3>5. ASSUME NEW s \in Sessions, NEW c \in Uploads \union {None}, Post(s, c)
          PROVE  Claims(sc)' \subseteq Claims(sc)
      BY <3>5 DEF Post
    <3>6. ASSUME NEW s \in Sessions,
                 \/ Prepared(s) \/ BindFails(s) \/ Undone(s) \/ StartFails(s)
                 \/ Delete(s) \/ Expire(s)
          PROVE  Claims(sc)' \subseteq Claims(sc)
      BY <3>6 DEF Prepared, BindFails, Undone, StartFails, Delete, Expire
    <3>7. ASSUME NEW s \in Sessions, Deleted(s) \/ DeleteRefused(s)
          PROVE  Claims(sc)' \subseteq Claims(sc)
      BY <3>7 DEF Deleted, DeleteRefused, CleanAssets
    <3>8. CASE OwnerLeaves \/ Stop
      BY <3>8 DEF OwnerLeaves, Stop
    <3> QED BY <3>1, <3>2, <3>3, <3>4, <3>5, <3>6, <3>7, <3>8 DEF Next
  <2> QED BY <1>2, <1>3, <2>1, FewerClaims
<1> QED BY <1>4, <1>5

LEMMA StepIndInv == IndInv /\ [Next]_vars => IndInv'
<1> SUFFICES ASSUME IndInv, [Next]_vars
             PROVE  IndInv'
  OBVIOUS
<1>1. CASE Next
  BY <1>1, TypeStep, ScopesStep, DirectoriesStep, MadeStep, FilesThereStep, KnownStep,
      LeftStep, CameraStep
     DEF IndInv, FilesFollowSession
<1>2. CASE UNCHANGED vars
  BY <1>2 DEF IndInv, TypeOK, ScopesStarted, DirectoriesAsked, DirectoriesMade, FilesThere,
     FilesFollowSession, FilesAreKnown, NothingIsLeft, CameraIsKept, DirectoryIsKept, StoredIn,
     vars, handlers, history
<1> QED BY <1>1, <1>2

\* The state of assets, directories and their requests keeps its types.
THEOREM TypeCorrect == Spec => []TypeOK
<1>1. IndInv => TypeOK
  BY DEF IndInv
<1> QED BY InitIndInv, StepIndInv, <1>1, PTL DEF Spec

\* However many sessions and uploads there are, and whenever the testbench stops: a session
\* in use has its camera image and its directory unless a DELETE that was refused took them
\* (api-server.ts:721-731), the testbench knows of every file but the directories of starts
\* that failed too early, and of a session that was deleted none is left but what was
\* registered afterwards.
THEOREM FilesFollow == Spec => []FilesFollowSession
<1>1. IndInv => FilesFollowSession
  BY DEF IndInv
<1> QED BY InitIndInv, StepIndInv, <1>1, PTL DEF Spec

\* Whatever the number of uploads, a scope has more than its quota only if two uploads to it
\* overlapped or a staged asset was bound to it: WithinQuota is compared before the upload.
THEOREM QuotaKept == Spec => []QuotaHolds
<1>1. TypeOK /\ ClaimsWithinQuota /\ [Next]_vars => ClaimsWithinQuota'
  <2>1. CASE UNCHANGED vars
    BY <2>1 DEF ClaimsWithinQuota, Claims, vars, handlers, history
  <2> QED BY <2>1, QuotaStep
<1>2. ClaimsWithinQuota => QuotaHolds
  <2> SUFFICES ASSUME ClaimsWithinQuota, NEW sc \in Scopes, sc \notin overlapped
               PROVE  Cardinality(StoredIn(sc)) <= Quota
    BY DEF QuotaHolds
  <2>1. StoredIn(sc) \in SUBSET Claims(sc) /\ Claims(sc) \in SUBSET Uploads
    BY DEF StoredIn, Claims
  <2> QED BY <2>1, FewerClaims DEF ClaimsWithinQuota
<1> QED BY TypeCorrect, QuotaInit, <1>1, <1>2, PTL DEF Spec
===============================================================================
