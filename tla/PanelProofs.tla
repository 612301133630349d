----------------------------- MODULE PanelProofs -----------------------------
(***************************************************************************)
(* Theorems about the parts of the two HTTP servers that keep state, for   *)
(* any number of requests, tokens, files, drives, links, threads and clock *)
(* readings, and any interleaving: who may see and change what (Routes),   *)
(* which tokens are honoured (ApiTokens), which drives are deleted         *)
(* (SessionFiles), and which links are dropped (ShareTokens).              *)
(***************************************************************************)
EXTENDS ShareTokens, ApiTokens, SessionFiles, Routes, FiniteSetTheorems, TLAPS

-----------------------------------------------------------------------------
(* Routes *)

\* What a request without the login may be shown and change.
Harmless(r, a) ==
  /\ a.changes = "nothing"
  /\ a.shows = "live" => r.link
  /\ a.shows = "odometer" => r.bearer
  /\ a.shows \in {"nothing", "denied", "live", "odometer"}

\* A request without the login is only forwarded on the open paths.
PanelInv ==
  /\ req \in Request
  /\ ~req.login => Harmless(req, answer) /\ (phase = "upstream" => Open(req))

\* What is said to somebody whose token was not accepted, and to somebody whose
\* token was.
LEMMA SayIsHarmless ==
  ASSUME NEW r, NEW status, NEW shows \in {"nothing", "denied", "live", "odometer"},
         shows = "live" => r.link, shows = "odometer" => r.bearer
  PROVE  Harmless(r, Say(status, shows, "nothing"))
<1>1. Say(status, shows, "nothing").shows = shows
      /\ Say(status, shows, "nothing").changes = "nothing"
  BY DEF Say
<1> QED BY Zenon, <1>1 DEF Harmless

\* What the runtime says on an open path is for those who hold the token the
\* path is about, which the panel passes on.
LEMMA OpenIsHarmless ==
  ASSUME NEW r \in Request, Open(r), NEW loads \in BOOLEAN
  PROVE  Harmless(r, Live(Upstream(r), loads))
<1> DEFINE up == Upstream(r)
<1>1. up.method = r.method /\ up.path = r.path /\ up.link = r.link
  BY DEF Upstream, Request
<1>2. up.bearer = (r.bearer /\ r.path \in OdometerPaths)
  BY DEF Upstream, Request
<1> HIDE DEF up
<1>3. \A n : Harmless(r, Say(n, "nothing", "nothing"))
  BY SayIsHarmless
<1>4. \A n : Harmless(r, Say(n, "denied", "nothing"))
  BY SayIsHarmless
<1>5. r.link => Harmless(r, Say(200, "live", "nothing"))
  BY SayIsHarmless
<1>6. r.bearer => Harmless(r, Say(200, "odometer", "nothing"))
  BY SayIsHarmless
<1>7. Harmless(r, ServeShare(up))
  BY Zenon, <1>1, <1>3, <1>4, <1>5 DEF ServeShare, NotFound
<1>8. Harmless(r, ServeOdometer(up, loads))
  BY Zenon, <1>2, <1>3, <1>6 DEF ServeOdometer
<1>9. CASE r.path \in SharePaths
  <2>1. Harmless(r, LiveGet(up, loads))
    BY Zenon, <1>1, <1>7, <1>9 DEF LiveGet
  <2>2. r.path # "/api/mode" /\ r.path \notin {"/api/share", "/api/share/revoke"}
    BY <1>9 DEF SharePaths
  <2>3. Harmless(r, LivePost(up))
    BY Zenon, <1>1, <1>3, <2>2 DEF LivePost, NotFound
  <2> QED BY Zenon, <2>1, <2>3 DEF Live, up
<1>10. CASE r.method = "GET" /\ r.path \in OdometerPaths
  <2>1. r.path \notin SharePaths
    BY <1>10 DEF OdometerPaths, SharePaths
  <2>2. Harmless(r, LiveGet(up, loads))
    BY Zenon, <1>1, <1>8, <1>10, <2>1 DEF LiveGet
  <2> QED BY Zenon, <1>1, <1>10, <2>2 DEF Live, up
<1> QED BY Zenon, <1>9, <1>10 DEF Open

\* What the panel says itself to a request without the login.
LEMMA PanelIsHarmless ==
  ASSUME NEW r \in Request, ~r.login PROVE Harmless(r, Panel(r))
BY DEF Panel, Say, Harmless

LEMMA PanelStep == PanelInv /\ [RouteNext]_routeVars => PanelInv'
<1> SUFFICES ASSUME PanelInv, [RouteNext]_routeVars PROVE PanelInv'
  OBVIOUS
<1>1. CASE Dispatch
  BY <1>1, PanelIsHarmless DEF Dispatch, PanelInv
<1>2. CASE Relay
  BY <1>2, OpenIsHarmless DEF Relay, PanelInv
<1>3. CASE RuntimeDown
  BY <1>3 DEF RuntimeDown, PanelInv, Harmless, Say
<1>4. CASE Wait \/ StreamEnds \/ RuntimeChanges \/ UNCHANGED routeVars
  BY <1>4 DEF Wait, StreamEnds, RuntimeChanges, routeVars, PanelInv
<1> QED BY <1>1, <1>2, <1>3, <1>4 DEF RouteNext, RouteStep

\* Without the login the panel changes nothing and shows nothing but what a
\* live link or the bearer token is for, itself or by forwarding
\* (admin/server.py:1548-1640).
THEOREM NothingWithoutLogin == RouteSpec => []NoLoginNoEffect
<1>1. RouteInit => PanelInv
  BY DEF RouteInit, PanelInv, Harmless, NoAnswer, Say
<1>2. PanelInv => NoLoginNoEffect
  BY DEF PanelInv, Harmless, NoLoginNoEffect
<1> QED BY <1>1, <1>2, PanelStep, PTL DEF RouteSpec

-----------------------------------------------------------------------------
(* ApiTokens *)

\* Stamps are never those of a later file, and one that is still the file's
\* names what was loaded; a file that could not be read holds nobody.
LoadedIsStamped ==
  /\ version \in Nat /\ (store # Missing => version > 0)
  /\ stamp[1] \in Nat /\ stamp[1] <= version
  /\ seen[1] \in Nat /\ seen[1] <= version
  /\ store # Missing /\ stamp[1] = version => glitch \/ loaded = Contents
  /\ glitch => loaded = {}

\* The present content is one of those the file had during the call.
CallIsCovered == step # "idle" => Contents \in held

TokenInv == LoadedIsStamped /\ CallIsCovered /\ AnswerIsCurrent

\* A new version of the file is ahead of every stamp.
LEMMA ReplaceStep ==
  ASSUME TokenInv, NEW content, Replace(content) PROVE TokenInv'
<1>1. version' = version + 1 /\ held \subseteq held' /\ Contents' \in held'
      /\ UNCHANGED <<loaded, stamp, step, who, seen, verdict, glitch>>
  BY DEF Replace, Contents
<1>2. LoadedIsStamped'
  BY <1>1 DEF TokenInv, LoadedIsStamped
<1>3. AnswerIsCurrent'
  BY <1>1 DEF TokenInv, AnswerIsCurrent
<1> QED BY <1>1, <1>2, <1>3 DEF TokenInv, CallIsCovered

\* A file that is gone lets nobody in; one whose stamp is the same is answered
\* from memory.
LEMMA StatStep == ASSUME TokenInv, Stat PROVE TokenInv'
<1>0. step = "stat" /\ Contents \in held
      /\ UNCHANGED <<store, version, tool, who, held>>
  BY DEF Stat, TokenInv, CallIsCovered
<1>1. CASE store = Missing
  <2>1. loaded' = {} /\ stamp' = NoStamp /\ glitch' = FALSE /\ verdict' = "no"
        /\ step' = "idle" /\ seen' = seen
    BY <1>1 DEF Stat, Compare
  <2>2. {} \in held
    BY <1>0, <1>1 DEF Contents
  <2> QED BY <1>0, <1>1, <2>1, <2>2
          DEF TokenInv, LoadedIsStamped, CallIsCovered, AnswerIsCurrent, NoStamp
<1>2. CASE store # Missing /\ Stamp = stamp
  <2>1. UNCHANGED <<loaded, stamp, glitch, seen>> /\ step' = "idle"
        /\ verdict' = IF who \in loaded THEN "yes" ELSE "no"
    BY <1>2 DEF Stat, Compare
  <2>2. glitch \/ loaded = Contents
    BY <1>2 DEF TokenInv, LoadedIsStamped, Stamp
  <2>3. AnswerIsCurrent'
    BY <1>0, <2>1, <2>2 DEF TokenInv, LoadedIsStamped, AnswerIsCurrent
  <2> QED BY <1>0, <2>1, <2>3 DEF TokenInv, LoadedIsStamped, CallIsCovered, Contents
<1>3. CASE store # Missing /\ Stamp # stamp
  <2>1. UNCHANGED <<loaded, stamp, glitch, verdict>> /\ seen' = Stamp
    BY <1>3 DEF Stat
  <2> QED BY <1>0, <2>1 DEF TokenInv, LoadedIsStamped, CallIsCovered,
                            AnswerIsCurrent, Contents, Stamp
<1> QED BY <1>1, <1>2, <1>3

\* What is read is the file as it is now, whatever its stamp says, or nothing.
LEMMA ReadStep == ASSUME TokenInv, Read PROVE TokenInv'
<1>1. /\ step = "read" /\ Contents \in held /\ stamp' = seen /\ step' = "idle"
      /\ verdict' = IF who \in loaded' THEN "yes" ELSE "no"
      /\ UNCHANGED <<store, version, tool, who, seen, held>>
  BY DEF Read, Compare, TokenInv, CallIsCovered
<1>2. \/ loaded' = Contents /\ (glitch' <=> store = Missing)
      \/ loaded' = {} /\ glitch'
  BY Zenon DEF Read
<1>3. store = Missing => Contents = {}
  BY DEF Contents
<1>4. LoadedIsStamped'
  BY <1>1, <1>2, <1>3 DEF TokenInv, LoadedIsStamped, Contents
<1>5. AnswerIsCurrent'
  BY <1>1, <1>2 DEF AnswerIsCurrent
<1> QED BY <1>1, <1>4, <1>5 DEF TokenInv, CallIsCovered

LEMMA TokenStep == TokenInv /\ [ApiNext]_apiVars => TokenInv'
<1> SUFFICES ASSUME TokenInv, [ApiNext]_apiVars PROVE TokenInv'
  OBVIOUS
<1>1. CASE ToolReplaces
  BY <1>1, ReplaceStep DEF ToolReplaces
<1>2. CASE Remove
  BY <1>2, ReplaceStep DEF Remove
<1>3. CASE Arrives
  BY <1>3 DEF Arrives, TokenInv, LoadedIsStamped, CallIsCovered, AnswerIsCurrent,
              Contents
<1>4. CASE ToolReads \/ UNCHANGED apiVars
  BY <1>4 DEF ToolReads, apiVars, TokenInv, LoadedIsStamped, CallIsCovered,
              AnswerIsCurrent, Contents
<1> QED BY <1>1, <1>2, <1>3, <1>4, StatStep, ReadStep DEF ApiNext

\* The answer of a call is the one the token file gave at some moment of it,
\* for any number of tokens and of replacements between its stat, its open and
\* those of earlier calls (live.py:4457-4512, 4556-4569).
THEOREM TokensAreCurrent == ApiSpec => []AnswerIsCurrent
<1>1. ApiInit => TokenInv
  BY DEF ApiInit, TokenInv, LoadedIsStamped, CallIsCovered, AnswerIsCurrent, NoStamp
<1>2. TokenInv => AnswerIsCurrent
  BY DEF TokenInv
<1> QED BY <1>1, <1>2, TokenStep, PTL DEF ApiSpec

-----------------------------------------------------------------------------
(* SessionFiles: a deletion that is not forced loses nothing as long as the  *)
(* clock only goes forward: the newest file is then the one being written,   *)
(* and a drive that is over gets no more rows.                               *)

FileTypes ==
  /\ now \in Int /\ stepped \in BOOLEAN
  /\ disk \subseteq begun /\ begun \subseteq Drives
  /\ mtime \in [Drives -> Int] /\ rows \in [Drives -> Int] /\ mark \in [Drives -> Int]
  /\ live \in begun \cup {Nobody}
  /\ stage \in {"idle", "newest", "listed", "remove"}
  /\ deleted \subseteq [name : Drives, force : BOOLEAN, live : BOOLEAN]

MarkBehind == \A d \in Drives : mark[d] <= rows[d]

\* No file is from the future, and the one being written is the newest.
LiveIsNewest ==
  stepped \/ \A d \in disk : /\ mtime[d] <= now
                             /\ live \in disk \ {d} => mtime[d] < mtime[live]

\* Past the look at the times the target is not being written, and past the
\* look at the watermark all of it is in the lake.
TargetIsOver ==
  stage # "idle" =>
    /\ asked.name \in disk /\ asked.force \in BOOLEAN
    /\ stage \in {"listed", "remove"} => stepped \/ asked.name # live
    /\ stage = "remove" => asked.force \/ stepped \/ mark[asked.name] = rows[asked.name]

DeletedIsOver ==
  \A d \in deleted :
    /\ d.name \in begun
    /\ stepped \/ d.force \/ (d.name # live /\ mark[d.name] = rows[d.name])

FInv == FileTypes /\ MarkBehind /\ LiveIsNewest /\ TargetIsOver /\ DeletedIsOver

USE NobodyAssumption

-----------------------------------------------------------------------------
\* Nothing is on the card and nothing is asked for.
LEMMA FilesInitInv == FilesInit => FInv
<1> SUFFICES ASSUME FilesInit PROVE FInv
  OBVIOUS
<1>1. FileTypes
  <2>1. now = 0 /\ stepped = FALSE /\ disk = {} /\ begun = {} /\ live = Nobody
        /\ stage = "idle" /\ deleted = {}
    BY DEF FilesInit
  <2>2. mtime = [d \in Drives |-> 0] /\ rows = [d \in Drives |-> 0] /\ mark = [d \in Drives |-> -1]
    BY DEF FilesInit
  <2>3. mtime \in [Drives -> Int] /\ rows \in [Drives -> Int] /\ mark \in [Drives -> Int]
    <3> DEFINE minus == -1
    <3>1. minus \in Int
      OBVIOUS
    <3> HIDE DEF minus
    <3>2. mark = [d \in Drives |-> minus]
      BY <2>2 DEF minus
    <3> QED
      BY <2>2, <3>1, <3>2
  <2>4. now \in Int /\ stage \in {"idle", "newest", "listed", "remove"}
    BY <2>1
  <2>7. stepped \in BOOLEAN
    BY <2>1, Zenon
  <2>5. disk \subseteq begun /\ begun \subseteq Drives /\ live \in begun \cup {Nobody}
    BY <2>1
  <2>6. deleted \subseteq [name : Drives, force : BOOLEAN, live : BOOLEAN]
    BY <2>1
  <2> QED
    BY <2>3, <2>4, <2>5, <2>6, <2>7, Zenon DEF FileTypes
<1>3. MarkBehind
  <2>1. \A d \in Drives : mark[d] = -1 /\ rows[d] = 0
    BY Zenon DEF FilesInit
  <2>2. -1 <= 0
    OBVIOUS
  <2> QED
    BY <2>1, <2>2, Zenon DEF MarkBehind
<1>2. LiveIsNewest /\ TargetIsOver /\ DeletedIsOver
  BY DEF FilesInit, LiveIsNewest, TargetIsOver, DeletedIsOver
<1> QED
  BY <1>1, <1>2, <1>3 DEF FInv

\* A new drive has a name of its own and the latest time.
LEMMA StartDriveInv == ASSUME FInv, NEW d \in Drives, StartDrive(d) PROVE FInv'
<1> USE DEF FInv
<1>1. FileTypes'
  BY DEF StartDrive, Touch, panelVars, FileTypes
<1>2. MarkBehind'
  BY DEF StartDrive, panelVars, MarkBehind
<1>3. LiveIsNewest'
  <2>1. now' = now + 1 /\ live' = d /\ stepped' = stepped /\ disk' = disk \cup {d}
    BY DEF StartDrive
  <2>2. mtime' = [mtime EXCEPT ![d] = now'] /\ d \notin disk
    BY DEF StartDrive, Touch, FileTypes
  <2>3. \A e \in disk : mtime'[e] = mtime[e]
    BY <2>2 DEF FileTypes
  <2>4. mtime'[d] = now'
    BY <2>2 DEF FileTypes
  <2>5. now \in Int /\ \A e \in disk : mtime[e] \in Int
    BY DEF FileTypes
  <2> QED
    BY <2>1, <2>2, <2>3, <2>4, <2>5 DEF LiveIsNewest
<1>4. TargetIsOver'
  BY DEF StartDrive, panelVars, FileTypes, TargetIsOver
<1>5. DeletedIsOver'
  BY DEF StartDrive, panelVars, FileTypes, DeletedIsOver
<1> QED
  BY <1>1, <1>2, <1>3, <1>4, <1>5

\* A row goes to the drive that is written, which no deletion is about.
LEMMA CommitInv == ASSUME FInv, Commit PROVE FInv'
<1> USE DEF FInv
<1>1. live \in Drives /\ rows' = [rows EXCEPT ![live] = @ + 1]
  BY DEF Commit, FileTypes
<1>2. FileTypes'
  BY <1>1 DEF Commit, panelVars, FileTypes
<1>3. \A d \in Drives : rows'[d] = IF d = live THEN rows[d] + 1 ELSE rows[d]
  BY <1>1 DEF FileTypes
<1>4. MarkBehind'
  BY <1>3 DEF Commit, MarkBehind, FileTypes
<1>5. LiveIsNewest'
  BY DEF Commit, LiveIsNewest
<1>6. TargetIsOver'
  BY <1>3 DEF Commit, panelVars, FileTypes, TargetIsOver
<1>7. DeletedIsOver'
  BY <1>3 DEF Commit, panelVars, FileTypes, DeletedIsOver
<1> QED
  BY <1>2, <1>4, <1>5, <1>6, <1>7

\* Writing to the live file makes it the newest.
LEMMA CheckpointInv == ASSUME FInv, CheckpointFile PROVE FInv'
<1> USE DEF FInv
<1>1. live \in Drives /\ mtime' = [mtime EXCEPT ![live] = now]
  BY DEF CheckpointFile, Touch, FileTypes
<1>2. FileTypes' /\ MarkBehind' /\ TargetIsOver' /\ DeletedIsOver'
  BY <1>1 DEF CheckpointFile, panelVars, FileTypes, MarkBehind, TargetIsOver, DeletedIsOver
<1>3. \A d \in Drives : mtime'[d] = IF d = live THEN now ELSE mtime[d]
  BY <1>1 DEF FileTypes
<1>4. \A d \in disk \ {live} : mtime[d] # now
  BY DEF CheckpointFile, Touch
<1>5. LiveIsNewest'
  BY <1>3, <1>4 DEF CheckpointFile, LiveIsNewest, FileTypes
<1> QED
  BY <1>2, <1>5

\* Nothing is written after the end of the drive.
LEMMA EndDriveInv == ASSUME FInv, EndDrive PROVE FInv'
<1> USE DEF FInv
<1>1. live \in Drives /\ live' = Nobody /\ Nobody \notin disk
  BY DEF EndDrive, FileTypes
<1>2. FileTypes'
  BY <1>1 DEF EndDrive, Touch, panelVars, FileTypes
<1>3. MarkBehind' /\ TargetIsOver' /\ DeletedIsOver'
  BY <1>1 DEF EndDrive, panelVars, FileTypes, MarkBehind, TargetIsOver, DeletedIsOver
<1>4. LiveIsNewest'
  <2>1. \A d \in disk : mtime'[d] = mtime[d] \/ mtime'[d] = now
    BY <1>1 DEF EndDrive, Touch, FileTypes
  <2> QED
    BY <1>1, <2>1 DEF EndDrive, FileTypes, LiveIsNewest
<1> QED
  BY <1>2, <1>3, <1>4

\* Shipping only brings a watermark up to its file.
LEMMA ShipInv == ASSUME FInv, NEW d \in Drives, Ship(d) PROVE FInv'
<1> USE DEF FInv
<1>1. mark' = [mark EXCEPT ![d] = rows[d]]
  BY DEF Ship
<1>2. FileTypes' /\ LiveIsNewest'
  BY <1>1 DEF Ship, runtimeVars, panelVars, FileTypes, LiveIsNewest
<1>3. \A e \in Drives : mark'[e] = IF e = d THEN rows[e] ELSE mark[e]
  BY <1>1 DEF FileTypes
<1>4. MarkBehind'
  BY <1>3 DEF Ship, runtimeVars, FileTypes, MarkBehind
<1>5. TargetIsOver'
  BY <1>3 DEF Ship, runtimeVars, panelVars, FileTypes, TargetIsOver
<1>6. DeletedIsOver'
  BY <1>3 DEF Ship, runtimeVars, panelVars, FileTypes, DeletedIsOver
<1> QED
  BY <1>2, <1>4, <1>5, <1>6

\* A clock that is not set back only makes the files older.
LEMMA SetClockInv == ASSUME FInv, SetClock PROVE FInv'
<1> USE DEF FInv
<1>1. PICK t \in 0 .. MaxTime : now' = t /\ stepped' = (stepped \/ t < now) /\ t \in Int
  BY DEF SetClock
<1>2. FileTypes' /\ MarkBehind' /\ TargetIsOver' /\ DeletedIsOver'
  BY <1>1 DEF SetClock, runtimeVars, panelVars, FileTypes, MarkBehind, TargetIsOver, DeletedIsOver
<1>3. LiveIsNewest'
  <2> SUFFICES ASSUME ~stepped' PROVE LiveIsNewest'
    BY DEF LiveIsNewest
  <2>1. ~stepped /\ now <= now'
    <3>1. ~stepped /\ ~(t < now) /\ now' = t /\ now \in Int
      BY <1>1 DEF FileTypes
    <3> QED
      BY <3>1, <1>1
  <2>2. \A d \in disk : mtime[d] <= now'
    BY <2>1, <1>1 DEF LiveIsNewest, FileTypes
  <2> QED
    BY <2>1, <2>2 DEF SetClock, runtimeVars, LiveIsNewest
<1> QED
  BY <1>2, <1>3

\* A request names a file that exists.
LEMMA AskDeleteInv ==
  ASSUME FInv, NEW d \in Drives, NEW force \in BOOLEAN, AskDelete(d, force) PROVE FInv'
BY DEF FInv, AskDelete, runtimeVars, FileTypes, MarkBehind, LiveIsNewest, TargetIsOver,
       DeletedIsOver

\* Without a step of the clock only the newest file can be live, and it is
\* refused.
LEMMA CheckNewestInv == ASSUME FInv, CheckNewest PROVE FInv'
<1> USE DEF FInv
<1>1. FileTypes' /\ MarkBehind' /\ LiveIsNewest' /\ DeletedIsOver'
  BY DEF CheckNewest, Refuse, GoOn, runtimeVars, FileTypes, MarkBehind, LiveIsNewest,
         DeletedIsOver
<1>2. TargetIsOver'
  <2>1. PICK newest \in NewestSession :
          IF newest = asked.name THEN Refuse ELSE GoOn("listed")
    BY DEF CheckNewest
  <2>2. CASE newest = asked.name
    BY <2>1, <2>2 DEF Refuse, TargetIsOver
  <2>3. CASE newest # asked.name
    <3>1. newest \in disk /\ asked.name \in disk /\ asked.force \in BOOLEAN
      BY DEF NewestSession, CheckNewest, TargetIsOver
    <3>2. \A e \in disk : mtime[e] <= mtime[newest] /\ mtime[e] \in Int
      BY DEF NewestSession, FileTypes
    <3>3. stepped \/ asked.name # live
      BY <2>3, <3>1, <3>2 DEF LiveIsNewest
    <3>4. stage' = "listed" /\ asked' = asked
      BY <2>1, <2>3 DEF GoOn
    <3> QED
      BY <3>1, <3>3, <3>4 DEF CheckNewest, runtimeVars, TargetIsOver
  <2> QED
    BY <2>2, <2>3
<1> QED
  BY <1>1, <1>2

\* Only a file the agent has shipped to the last row goes on.
LEMMA CheckSyncedInv == ASSUME FInv, CheckSynced PROVE FInv'
<1> USE DEF FInv
<1>1. FileTypes' /\ MarkBehind' /\ LiveIsNewest' /\ DeletedIsOver'
  BY DEF CheckSynced, Refuse, GoOn, runtimeVars, FileTypes, MarkBehind, LiveIsNewest,
         DeletedIsOver
<1>2. asked.name \in Drives
  BY DEF CheckSynced, TargetIsOver, FileTypes
<1>3. Synced(asked.name) => mark[asked.name] = rows[asked.name]
  BY <1>2 DEF Synced, MarkBehind, FileTypes
<1>4. TargetIsOver'
  BY <1>3 DEF CheckSynced, Refuse, GoOn, runtimeVars, TargetIsOver
<1> QED
  BY <1>1, <1>4

\* What goes is over, and in the lake.
LEMMA RemoveFileInv == ASSUME FInv, RemoveFile PROVE FInv'
<1> USE DEF FInv
<1>1. asked.name \in disk /\ asked.force \in BOOLEAN /\ asked.name \in Drives
  BY DEF RemoveFile, TargetIsOver, FileTypes
<1> DEFINE gone == [name |-> asked.name, force |-> asked.force, live |-> asked.name = live]
<1>2. gone \in [name : Drives, force : BOOLEAN, live : BOOLEAN] /\ deleted' = deleted \cup {gone}
  BY <1>1 DEF RemoveFile
<1>3. FileTypes'
  BY <1>2 DEF RemoveFile, Refuse, FileTypes
<1>4. MarkBehind' /\ LiveIsNewest' /\ TargetIsOver'
  BY DEF RemoveFile, Refuse, MarkBehind, LiveIsNewest, TargetIsOver
<1>5. gone.name \in begun /\ (stepped \/ gone.force \/ (gone.name # live /\ mark[gone.name] = rows[gone.name]))
  BY <1>1 DEF RemoveFile, TargetIsOver, FileTypes
<1>6. DeletedIsOver'
  BY <1>2, <1>5 DEF RemoveFile, DeletedIsOver
<1> QED
  BY <1>3, <1>4, <1>6

\* Nothing that is not forced is lost (admin/server.py:1032-1066).
THEOREM DeletionLosesNothing == FilesSpec => []OnlyShippedIsDeleted
<1>1. FInv /\ [FilesNext]_fileVars => FInv'
  <2> SUFFICES ASSUME FInv, [FilesNext]_fileVars PROVE FInv'
    OBVIOUS
  <2>1. ASSUME FilesNext PROVE FInv'
    BY <2>1, StartDriveInv, ShipInv, AskDeleteInv, CommitInv, CheckpointInv, EndDriveInv,
       SetClockInv, CheckNewestInv, CheckSyncedInv, RemoveFileInv DEF FilesNext
  <2>2. ASSUME UNCHANGED fileVars PROVE FInv'
    BY <2>2 DEF fileVars, FInv, FileTypes, MarkBehind, LiveIsNewest, TargetIsOver, DeletedIsOver
  <2> QED
    BY <2>1, <2>2
<1>2. FInv => OnlyShippedIsDeleted
  BY DEF FInv, DeletedIsOver, OnlyShippedIsDeleted
<1> QED
  BY FilesInitInv, <1>1, <1>2, PTL DEF FilesSpec

-----------------------------------------------------------------------------
(* ShareTokens: a refused link stays refused, and was refused for a reason.  *)
(* A link that is no longer kept was revoked, has expired by some reading of *)
(* the clock, or has as many rivals as there is room for; none of these is   *)
(* ever taken back, and no number is given out twice.                        *)

Rivals(l) ==
  {k \in DOMAIN born \ {l} : k > l \/ born[k].created >= born[l].created}

Over(l) ==
  \/ l \in revoked
  \/ born[l].expires <= latest
  \/ Cardinality(Rivals(l)) >= MaxActive

Ops == {"none", "mint", "validate", "active"}

Calls == [op : Ops, link : Int, now : Int]

ShareTypes ==
  /\ clock \in Nat /\ latest \in Nat
  /\ call \in [Handlers -> Calls]
  /\ \E n \in Nat : DOMAIN born = 1 .. n
  /\ \A l \in DOMAIN born : born[l].created \in Int /\ born[l].expires \in Int
  /\ DOMAIN links \subseteq DOMAIN born
  /\ \A l \in DOMAIN links : links[l] = born[l]
  /\ refused \subseteq DOMAIN born

\* A thread's reading is no later than the latest, and it looks for a link that
\* was given out.
CallsAreOlder ==
  \A t \in Handlers : /\ call[t].now <= latest
                      /\ call[t].op = "validate" => call[t].link \in DOMAIN born

DroppedAreOver == \A l \in DOMAIN born \ DOMAIN links : Over(l)

SInv == ShareTypes /\ CallsAreOlder /\ DroppedAreOver /\ RefusedForGood

USE ShareAssumption

-----------------------------------------------------------------------------
\* Links given out are finitely many.
LEMMA BornFinite == ShareTypes => IsFiniteSet(DOMAIN born)
BY FS_Interval DEF ShareTypes

\* What a link is over for is never taken back: links are only added, the
\* latest reading only rises.
LEMMA OverStays ==
  ASSUME ShareTypes, ShareTypes', revoked \subseteq revoked', latest <= latest',
         DOMAIN born \subseteq DOMAIN born', \A k \in DOMAIN born : born'[k] = born[k],
         NEW l \in DOMAIN born, Over(l)
  PROVE  Over(l)'
<1>1. CASE l \in revoked
  BY <1>1 DEF Over
<1>2. CASE born[l].expires <= latest
  <2>1. born[l].expires \in Int /\ latest \in Nat /\ latest' \in Nat
    BY DEF ShareTypes
  <2>2. born'[l].expires = born[l].expires
    OBVIOUS
  <2>3. born[l].expires <= latest'
    BY <1>2, <2>1
  <2> QED
    BY <2>2, <2>3 DEF Over
<1>3. CASE Cardinality(Rivals(l)) >= MaxActive
  <2>1. Rivals(l) \subseteq Rivals(l)'
    BY DEF Rivals
  <2>2. IsFiniteSet(DOMAIN born')
    BY FS_Interval DEF ShareTypes
  <2>3. IsFiniteSet(Rivals(l)')
    BY <2>2, FS_Subset DEF Rivals
  <2>4. /\ Cardinality(Rivals(l)) <= Cardinality(Rivals(l)')
        /\ Cardinality(Rivals(l)) \in Nat /\ Cardinality(Rivals(l)') \in Nat
    BY <2>1, <2>3, FS_Subset, FS_CardinalityType
  <2>5. Cardinality(Rivals(l)') >= MaxActive
    BY <1>3, <2>4
  <2> QED
    BY <2>5 DEF Over, Rivals
<1> QED
  BY <1>1, <1>2, <1>3 DEF Over

\* A step that gives out no link and drops only what is over keeps the invariant
\* about those that are dropped.
LEMMA DroppedStay ==
  ASSUME SInv, ShareTypes', born' = born, revoked \subseteq revoked', latest <= latest',
         \A l \in DOMAIN links \ DOMAIN links' : Over(l)'
  PROVE  DroppedAreOver'
<1>1. \A l \in DOMAIN born \ DOMAIN links : Over(l)'
  BY OverStays DEF SInv, DroppedAreOver
<1> QED
  BY <1>1 DEF DroppedAreOver

\* Pruning drops what has expired by the reading of the clock, and that only.
LEMMA PruneDropsExpired ==
  ASSUME SInv, NEW t \in Handlers
  PROVE  LET kept == Prune(call[t].now) IN
         /\ DOMAIN kept \subseteq DOMAIN links
         /\ \A l \in DOMAIN kept : kept[l] = links[l]
         /\ \A l \in DOMAIN links \ DOMAIN kept : born[l].expires <= latest
<1> DEFINE kept == Prune(call[t].now)
<1>1. DOMAIN kept = {l \in DOMAIN links : links[l].expires > call[t].now}
  BY DEF Prune, Only
<1>2. \A l \in DOMAIN kept : kept[l] = links[l]
  BY DEF Prune, Only
<1>3. call[t].now \in Int /\ latest \in Nat /\ call[t].now <= latest
  BY DEF SInv, ShareTypes, Calls, CallsAreOlder
<1>4. \A l \in DOMAIN links : links[l] = born[l] /\ born[l].expires \in Int
  BY DEF SInv, ShareTypes
<1> QED
  BY <1>1, <1>2, <1>3, <1>4

\* Being returned to its caller, a call is of no interest any more.
LEMMA ReturnKeepsCalls ==
  ASSUME SInv, NEW t \in Handlers, Return(t), latest' = latest,
         DOMAIN born \subseteq DOMAIN born'
  PROVE  CallsAreOlder' /\ call' \in [Handlers -> Calls]
<1>1. call' = [call EXCEPT ![t] = Idle] /\ call \in [Handlers -> Calls]
  BY DEF Return, SInv, ShareTypes
<1>2. Idle \in Calls /\ Idle.now = 0 /\ Idle.op = "none"
  BY DEF Idle, Calls, Ops
<1>3. \A s \in Handlers : call'[s] = IF s = t THEN Idle ELSE call[s]
  BY <1>1
<1>4. call' \in [Handlers -> Calls]
  BY <1>1, <1>2
<1> QED
  BY <1>2, <1>3, <1>4 DEF SInv, ShareTypes, CallsAreOlder

LEMMA ShareInitInv == ShareInit => SInv
<1> SUFFICES ASSUME ShareInit PROVE SInv
  OBVIOUS
<1>1. DOMAIN born = {} /\ DOMAIN links = {} /\ refused = {} /\ clock = 0 /\ latest = 0
  BY DEF ShareInit
<1>2. Idle \in Calls /\ Idle.now = 0 /\ Idle.op = "none"
  BY DEF Idle, Calls, Ops
<1>3. call \in [Handlers -> Calls] /\ \A t \in Handlers : call[t] = Idle
  BY <1>2 DEF ShareInit
<1>4. DOMAIN born = 1 .. 0 /\ 0 \in Nat
  BY <1>1
<1>5. ShareTypes
  BY <1>1, <1>3, <1>4 DEF ShareTypes
<1>6. CallsAreOlder
  BY <1>1, <1>2, <1>3 DEF CallsAreOlder
<1> QED
  BY <1>1, <1>5, <1>6 DEF SInv, DroppedAreOver, RefusedForGood

\* A thread reads the clock, which may be the latest reading.
LEMMA ArriveInv ==
  ASSUME SInv, NEW t \in Handlers, NEW op \in Ops, NEW link \in Int,
         op = "validate" => link \in DOMAIN born, Arrive(t, op, link)
  PROVE  SInv'
<1> DEFINE new == [op |-> op, link |-> link, now |-> clock]
<1>1. /\ call' = [call EXCEPT ![t] = new] /\ call \in [Handlers -> Calls]
      /\ UNCHANGED <<clock, links, born, revoked, refused>>
  BY DEF Arrive, SInv, ShareTypes
<1>2. latest \in Nat /\ clock \in Nat /\ latest' = IF clock > latest THEN clock ELSE latest
  BY DEF Arrive, SInv, ShareTypes
<1>3. latest' \in Nat /\ latest <= latest' /\ clock <= latest'
  BY <1>2
<1>4. new \in Calls
  BY <1>2 DEF Calls
<1>5. call' \in [Handlers -> Calls]
  BY <1>1, <1>4
<1>6. ShareTypes'
  BY <1>1, <1>3, <1>5 DEF SInv, ShareTypes
<1>7. CallsAreOlder'
  <2>1. \A s \in Handlers : call'[s] = IF s = t THEN new ELSE call[s]
    BY <1>1
  <2>2. \A s \in Handlers : call[s].now \in Int /\ call[s].now <= latest
    BY DEF SInv, ShareTypes, CallsAreOlder, Calls
  <2>3. \A s \in Handlers : call[s].now <= latest'
    BY <1>2, <1>3, <2>2
  <2>4. \A s \in Handlers : call[s].op = "validate" => call[s].link \in DOMAIN born
    BY DEF SInv, CallsAreOlder
  <2>5. ASSUME NEW s \in Handlers
        PROVE  call'[s].now <= latest' /\ (call'[s].op = "validate" => call'[s].link \in DOMAIN born')
    <3>1. CASE s = t
      BY <1>1, <1>3, <2>1, <3>1
    <3>2. CASE s # t
      BY <1>1, <2>1, <2>3, <2>4, <3>2
    <3> QED
      BY <3>1, <3>2
  <2> QED
    BY <2>5 DEF CallsAreOlder
<1>8. DroppedAreOver'
  BY <1>1, <1>3, <1>6, DroppedStay DEF SInv
<1> QED
  BY <1>1, <1>6, <1>7, <1>8 DEF SInv, RefusedForGood

\* The eviction drops nothing, or one link with the others as its rivals.
LEMMA EvictsOldest ==
  ASSUME NEW m, NEW room \in Evict(m)
  PROVE  /\ DOMAIN room \subseteq DOMAIN m
         /\ \A l \in DOMAIN room : room[l] = m[l]
         /\ \A l \in DOMAIN m \ DOMAIN room :
              /\ Cardinality(DOMAIN m) >= MaxActive \/ ~(Cardinality(DOMAIN m) < MaxActive)
              /\ \A k \in DOMAIN m : m[l].created <= m[k].created
<1>1. CASE Cardinality(DOMAIN m) < MaxActive
  BY <1>1 DEF Evict
<1>2. CASE ~(Cardinality(DOMAIN m) < MaxActive)
  <2>1. PICK o \in Oldest(m) : room = Only(m, DOMAIN m \ {o})
    BY <1>2 DEF Evict
  <2>2. DOMAIN room = DOMAIN m \ {o} /\ \A l \in DOMAIN room : room[l] = m[l]
    BY <2>1 DEF Only
  <2> QED
    BY <1>2, <2>1, <2>2 DEF Oldest
<1> QED
  BY <1>1, <1>2

\* A new link has a new number; what makes room for it is over.
LEMMA MintInv == ASSUME SInv, NEW t \in Handlers, Mint(t) PROVE SInv'
<1> DEFINE kept == Prune(call[t].now)
           new == Cardinality(DOMAIN born) + 1
<1>1. PICK ttl \in Ttls, room \in Evict(kept) :
        LET e == [created |-> call[t].now, expires |-> call[t].now + ttl] IN
        /\ links' = [k \in DOMAIN room \cup {new} |-> IF k = new THEN e ELSE room[k]]
        /\ born' = [k \in DOMAIN born \cup {new} |-> IF k = new THEN e ELSE born[k]]
  BY DEF Mint
<1> DEFINE e == [created |-> call[t].now, expires |-> call[t].now + ttl]
<1>2. PICK n \in Nat : DOMAIN born = 1 .. n
  BY DEF SInv, ShareTypes
<1>3. new = n + 1 /\ new \notin DOMAIN born /\ DOMAIN born \cup {new} = 1 .. (n + 1)
  <2>1. Cardinality(1 .. n) = IF 1 > n THEN 0 ELSE n - 1 + 1
    BY FS_Interval
  <2>2. Cardinality(DOMAIN born) = n
    BY <1>2, <2>1
  <2> QED
    BY <1>2, <2>2
<1>4. /\ DOMAIN kept \subseteq DOMAIN links
      /\ \A l \in DOMAIN kept : kept[l] = links[l]
      /\ \A l \in DOMAIN links \ DOMAIN kept : born[l].expires <= latest
  BY PruneDropsExpired
<1>5. /\ DOMAIN room \subseteq DOMAIN kept
      /\ \A l \in DOMAIN room : room[l] = kept[l]
      /\ \A l \in DOMAIN kept \ DOMAIN room :
           /\ ~(Cardinality(DOMAIN kept) < MaxActive)
           /\ \A k \in DOMAIN kept : kept[l].created <= kept[k].created
  <2>1. Cardinality(DOMAIN kept) \in Nat
    <3>1. IsFiniteSet(DOMAIN born)
      BY BornFinite DEF SInv
    <3>2. DOMAIN kept \subseteq DOMAIN born
      BY <1>4 DEF SInv, ShareTypes
    <3> QED
      BY <3>1, <3>2, FS_Subset, FS_CardinalityType
  <2> HIDE DEF kept
  <2> QED
    BY <2>1, EvictsOldest
<1>6. e.created \in Int /\ e.expires \in Int
  <2>1. call[t].now \in Int /\ ttl \in Int
    BY DEF SInv, ShareTypes, Calls
  <2> QED
    BY <2>1
<1> HIDE DEF e, new, kept
<1>7. /\ DOMAIN born' = DOMAIN born \cup {new} /\ DOMAIN links' = DOMAIN room \cup {new}
      /\ born'[new] = e /\ links'[new] = e
      /\ \A k \in DOMAIN born : born'[k] = born[k]
      /\ \A k \in DOMAIN room \ {new} : links'[k] = room[k]
  BY <1>1, <1>3 DEF e, new, kept
<1>8. UNCHANGED <<clock, revoked, refused, latest>> /\ Return(t)
  BY DEF Mint
<1>9. CallsAreOlder' /\ call' \in [Handlers -> Calls]
  BY <1>7, <1>8, ReturnKeepsCalls
<1>10. DOMAIN room \subseteq DOMAIN born /\ \A k \in DOMAIN room : room[k] = born[k]
  BY <1>4, <1>5 DEF SInv, ShareTypes
<1>11. ShareTypes'
  <2>1. clock' \in Nat /\ latest' \in Nat
    BY <1>8 DEF SInv, ShareTypes
  <2>2. \E x \in Nat : DOMAIN born' = 1 .. x
    BY <1>3, <1>7
  <2>3. \A l \in DOMAIN born' : born'[l].created \in Int /\ born'[l].expires \in Int
    BY <1>6, <1>7 DEF SInv, ShareTypes
  <2>4. DOMAIN links' \subseteq DOMAIN born' /\ \A l \in DOMAIN links' : links'[l] = born'[l]
    BY <1>7, <1>10
  <2>5. refused' \subseteq DOMAIN born'
    BY <1>7, <1>8 DEF SInv, ShareTypes
  <2> QED
    BY <1>9, <2>1, <2>2, <2>3, <2>4, <2>5 DEF ShareTypes
<1>12. \A l \in DOMAIN kept \ DOMAIN room : Over(l)'
  <2> SUFFICES ASSUME NEW l \in DOMAIN kept \ DOMAIN room PROVE Over(l)'
    OBVIOUS
  <2>1. DOMAIN kept \subseteq DOMAIN born /\ \A k \in DOMAIN kept : kept[k] = born[k]
    BY <1>4 DEF SInv, ShareTypes
  <2> DEFINE others == DOMAIN kept \ {l}
             rivals == others \cup {new}
  <2>2. rivals \subseteq Rivals(l)'
    <3>1. new \in Rivals(l)'
      BY <1>2, <1>3, <1>7, <2>1 DEF Rivals
    <3>2. \A k \in others : k \in DOMAIN born /\ born[k].created >= born[l].created
      BY <1>5, <2>1 DEF SInv, ShareTypes
    <3>3. others \subseteq Rivals(l)'
      BY <1>7, <2>1, <3>2 DEF Rivals
    <3> QED
      BY <3>1, <3>3
  <2>3. IsFiniteSet(DOMAIN kept) /\ IsFiniteSet(DOMAIN born')
    <3>1. IsFiniteSet(DOMAIN born')
      BY <1>11, FS_Interval DEF ShareTypes
    <3>2. IsFiniteSet(DOMAIN born)
      BY BornFinite DEF SInv
    <3> QED
      BY <2>1, <3>1, <3>2, FS_Subset
  <2>4. IsFiniteSet(others) /\ Cardinality(others) = Cardinality(DOMAIN kept) - 1
    BY <2>3, FS_RemoveElement
  <2>5. Cardinality(rivals) = Cardinality(others) + 1
    BY <1>3, <2>1, <2>4, FS_AddElement
  <2>6. IsFiniteSet(Rivals(l)')
    BY <2>3, FS_Subset DEF Rivals
  <2>7. /\ Cardinality(rivals) <= Cardinality(Rivals(l)')
        /\ Cardinality(Rivals(l)') \in Nat /\ Cardinality(DOMAIN kept) \in Nat
    BY <2>2, <2>3, <2>6, FS_Subset, FS_CardinalityType
  <2>8. ~(Cardinality(DOMAIN kept) < MaxActive)
    BY <1>5
  <2>9. Cardinality(Rivals(l)') >= MaxActive
    <3> HIDE DEF rivals, others
    <3> QED
      BY <2>4, <2>5, <2>7, <2>8
  <2> QED
    BY <2>9 DEF Over, Rivals
<1>13. \A l \in DOMAIN born \ DOMAIN kept : Over(l)'
  <2>1. \A l \in DOMAIN born \ DOMAIN kept : Over(l)
    BY <1>4 DEF SInv, DroppedAreOver, Over
  <2>2. revoked \subseteq revoked' /\ latest <= latest'
    BY <1>8 DEF SInv, ShareTypes
  <2> QED
    BY <1>7, <1>11, <2>1, <2>2, OverStays DEF SInv
<1>14. DroppedAreOver'
  BY <1>7, <1>12, <1>13 DEF DroppedAreOver
<1>15. RefusedForGood'
  BY <1>3, <1>4, <1>5, <1>7, <1>8 DEF SInv, ShareTypes, RefusedForGood
<1> QED
  BY <1>9, <1>11, <1>14, <1>15 DEF SInv

\* What a check drops has expired; who is refused is not kept.
LEMMA PruningInv ==
  ASSUME SInv, NEW t \in Handlers, links' = Prune(call[t].now), Return(t),
         UNCHANGED <<clock, born, revoked, latest>>,
         refused' \subseteq DOMAIN born, refused' \cap DOMAIN links' = {}
  PROVE  SInv'
<1> DEFINE kept == Prune(call[t].now)
<1>1. /\ DOMAIN links' \subseteq DOMAIN links
      /\ \A l \in DOMAIN links' : links'[l] = links[l]
      /\ \A l \in DOMAIN links \ DOMAIN links' : born[l].expires <= latest
  BY PruneDropsExpired
<1>2. CallsAreOlder' /\ call' \in [Handlers -> Calls]
  BY ReturnKeepsCalls
<1>3. ShareTypes'
  BY <1>1, <1>2 DEF SInv, ShareTypes
<1>4. latest <= latest'
  BY DEF SInv, ShareTypes
<1>5. \A l \in DOMAIN links \ DOMAIN links' : Over(l)'
  BY <1>1 DEF Over
<1>6. DroppedAreOver'
  BY <1>3, <1>4, <1>5, DroppedStay
<1> QED
  BY <1>2, <1>3, <1>6 DEF SInv, RefusedForGood

LEMMA ValidateInv == ASSUME SInv, NEW t \in Handlers, Validate(t) PROVE SInv'
<1>1. call[t].link \in DOMAIN born
  BY DEF Validate, SInv, CallsAreOlder
<1>2. DOMAIN links' \subseteq DOMAIN links
  BY PruneDropsExpired DEF Validate
<1>3. refused' \subseteq DOMAIN born /\ refused' \cap DOMAIN links' = {}
  BY <1>1, <1>2 DEF Validate, SInv, ShareTypes, RefusedForGood
<1> QED
  BY <1>3, PruningInv DEF Validate

LEMMA ActiveInv == ASSUME SInv, NEW t \in Handlers, Active(t) PROVE SInv'
<1>1. DOMAIN links' \subseteq DOMAIN links
  BY PruneDropsExpired DEF Active
<1>2. refused' \subseteq DOMAIN born /\ refused' \cap DOMAIN links' = {}
  BY <1>1 DEF Active, SInv, ShareTypes, RefusedForGood
<1> QED
  BY <1>2, PruningInv DEF Active

\* What is revoked is remembered as revoked.
LEMMA RevokeInv ==
  ASSUME SInv, NEW gone \in SUBSET DOMAIN links, Revoke(gone) PROVE SInv'
<1>1. /\ DOMAIN links' = DOMAIN links \ gone
      /\ \A l \in DOMAIN links' : links'[l] = links[l]
  BY DEF Revoke, Only
<1>2. UNCHANGED <<clock, call, born, refused, latest>> /\ revoked' = revoked \cup gone
  BY DEF Revoke
<1>3. ShareTypes' /\ CallsAreOlder'
  BY <1>1, <1>2 DEF SInv, ShareTypes, CallsAreOlder
<1>4. \A l \in DOMAIN links \ DOMAIN links' : Over(l)'
  BY <1>1, <1>2 DEF Over
<1>5. latest <= latest'
  BY <1>2 DEF SInv, ShareTypes
<1>6. DroppedAreOver'
  BY <1>2, <1>3, <1>4, <1>5, DroppedStay
<1> QED
  BY <1>1, <1>2, <1>3, <1>6 DEF SInv, RefusedForGood

\* So is everything that dies with the process.
LEMMA RestartInv == ASSUME SInv, RestartProcess PROVE SInv'
<1>1. /\ DOMAIN links' = {} /\ revoked' = DOMAIN born
      /\ call' = [t \in Handlers |-> Idle] /\ UNCHANGED <<clock, born, refused, latest>>
  BY DEF RestartProcess
<1>2. Idle \in Calls /\ Idle.now = 0 /\ Idle.op = "none"
  BY DEF Idle, Calls, Ops
<1>3. call' \in [Handlers -> Calls] /\ \A t \in Handlers : call'[t] = Idle
  BY <1>1, <1>2
<1>4. ShareTypes'
  BY <1>1, <1>3 DEF SInv, ShareTypes
<1>5. CallsAreOlder'
  BY <1>1, <1>2, <1>3 DEF SInv, ShareTypes, CallsAreOlder
<1>6. DroppedAreOver'
  BY <1>1 DEF DroppedAreOver, Over
<1> QED
  BY <1>1, <1>4, <1>5, <1>6 DEF SInv, RefusedForGood

LEMMA PassesInv == ASSUME SInv, Passes PROVE SInv'
<1>1. clock' \in Nat /\ UNCHANGED <<call, links, born, revoked, refused, latest>>
  BY DEF Passes
<1> QED
  BY <1>1 DEF SInv, ShareTypes, CallsAreOlder, DroppedAreOver, Over, Rivals, RefusedForGood

LEMMA ShareStepInv == SInv /\ [ShareNext]_shareVars => SInv'
<1> SUFFICES ASSUME SInv, [ShareNext]_shareVars PROVE SInv'
  OBVIOUS
<1>1. DOMAIN born \subseteq Int /\ 0 \in Int
  BY DEF SInv, ShareTypes
<1>2. ASSUME NEW t \in Handlers, NEW op \in {"mint", "active"}, Arrive(t, op, 0) PROVE SInv'
  BY <1>1, <1>2, ArriveInv DEF Ops
<1>3. ASSUME NEW t \in Handlers, NEW l \in DOMAIN born, Arrive(t, "validate", l) PROVE SInv'
  BY <1>1, <1>3, ArriveInv DEF Ops
<1>4. ASSUME ShareNext PROVE SInv'
  BY <1>2, <1>3, <1>4, MintInv, ValidateInv, ActiveInv, RevokeInv, RestartInv, PassesInv
     DEF ShareNext
<1>5. ASSUME UNCHANGED shareVars PROVE SInv'
  BY <1>5 DEF shareVars, SInv, ShareTypes, CallsAreOlder, DroppedAreOver, Over, Rivals,
              RefusedForGood
<1> QED
  BY <1>4, <1>5

\* A link refused once is gone for good (live.py:3872-3893, 3931-3934).
THEOREM RefusalIsFinal == ShareSpec => []RefusedForGood
<1>1. SInv => RefusedForGood
  BY DEF SInv
<1> QED
  BY ShareInitInv, ShareStepInv, <1>1, PTL DEF ShareSpec

\* A refused link was revoked, has expired or was pushed out
\* (live.py:3850-3870).
THEOREM RefusalHasReason == ShareSpec => []RefusedForAReason
<1>1. SInv => RefusedForAReason
  BY DEF SInv, ShareTypes, DroppedAreOver, Over, Rivals, RefusedForGood, RefusedForAReason
<1> QED
  BY ShareInitInv, ShareStepInv, <1>1, PTL DEF ShareSpec
=============================================================================
