----------------------------- MODULE PageLibrary -----------------------------
(***************************************************************************)
(* The page around the emulator: the library of games and the copies of    *)
(* their files (app.js, library/game-library.js, storage/game-storage.js), *)
(* the archives they come in (import/zip-importer.js), their covers        *)
(* (library/cover-resolver.js), the settings two modules share             *)
(* (settings/), the service worker (render360-sw.js) and the two kinds of  *)
(* web worker (render360-web-worker-pool.mjs, runtime-host.js).            *)
(***************************************************************************)
EXTENDS Integers, Sequences, FiniteSets, TLC

CONSTANTS
    Offered,                \* names of the files the player can choose, by game id
    Nothing,                \* no game, no file
    PoolWorkers, PoolJobs,  \* web workers, in the order they are made; jobs
    MaxJobs,                \* operations of the page that overlap
    MaxDeploys              \* times a new build is published

ASSUME PageAssumption ==
    /\ MaxJobs \in Nat /\ MaxDeploys \in Nat
    /\ Nothing \notin DOMAIN Offered

VARIABLES shelf, zip, cover, prefs, cache, pool, host

pageVars == <<shelf, zip, cover, prefs, cache, pool, host>>

-----------------------------------------------------------------------------
(* The shelf.  All that is kept of a file is the game it was chosen for.   *)

ShelfGames == DOMAIN Offered

FaultyCopyName(g, f) == <<"game", f>>

\* The name of a stored copy: the game's id and the file's name.
CopyName(g, f) == <<g, f>>

CopyNames == UNION {{CopyName(g, f) : f \in Offered[g]} : g \in ShelfGames}

NoPath == <<Nothing, Nothing>>

ShelfInit ==
    shelf = [files |-> [n \in CopyNames |-> Nothing],
             record |-> [g \in ShelfGames |-> [kept |-> FALSE, path |-> NoPath]],
             bound |-> [g \in ShelfGames |-> Nothing], target |-> Nothing, jobs |-> {}, listed |-> {},
             mixed |-> FALSE]

\* Something the page awaits: saving, dropping the old copy, opening.
Job(kind, at, g, f, path) == [kind |-> kind, at |-> at, game |-> g, file |-> f, path |-> path]

Room == Cardinality(shelf.jobs) < MaxJobs

Advance(j, at, path) == (shelf.jobs \ {j}) \union {[j EXCEPT !.at = at, !.path = path]}

PutGame(s, g, path) == [s EXCEPT !.record[g] = [kept |-> TRUE, path |-> path]]
DropGame(s, g) == [s EXCEPT !.record[g] = [kept |-> FALSE, path |-> NoPath]]
DropCopy(s, path) == IF path = NoPath THEN s ELSE [s EXCEPT !.files[path] = Nothing]
Bind(s, g, owner) == [s EXCEPT !.bound[g] = owner]

Import(g, f) ==
    /\ Room /\ ~shelf.record[g].kept /\ \A j \in shelf.jobs : j.game # g
    /\ shelf' = [shelf EXCEPT !.jobs = @ \union {Job("import", "save", g, f, NoPath)}]

StartRelink(g) ==
    /\ shelf.record[g].kept
    /\ shelf' = [shelf EXCEPT !.target = g]

\* The file is chosen for the game that is the target now.
ChooseRelink(f) ==
    /\ shelf.target # Nothing /\ shelf.record[shelf.target].kept /\ f \in Offered[shelf.target]
    /\ Room
    /\ shelf' = [shelf EXCEPT !.jobs = @ \union {Job("relink", "save", shelf.target, f, NoPath)}]

\* persistGameSource replaces the copy as a whole when the writer closes.
\* Without a copy (it is off, does not fit or failed) the file stays linked
\* for this session; a failed write removes the entry.
SaveCopy(j) ==
    /\ j.at = "save"
    /\ LET n == CopyName(j.game, j.file)
       IN  \/ shelf' = [shelf EXCEPT !.files = [@ EXCEPT ![n] = j.game],
                                     !.jobs = Advance(j, "drop", n)]
           \/ shelf' = [shelf EXCEPT !.jobs = Advance(j, "drop", NoPath)]
           \/ shelf' = [DropCopy(shelf, n) EXCEPT !.jobs = Advance(j, "drop", NoPath)]

FinishImport(j) ==
    /\ j.kind = "import" /\ j.at = "drop"
    /\ shelf' = [Bind(PutGame(shelf, j.game, j.path), j.game, j.game)
                    EXCEPT !.jobs = @ \ {j}]

\* relinkTarget is read again: it may be another game by now, or none.
DropOld(j) ==
    /\ j.kind = "relink" /\ j.at = "drop" /\ shelf.target # Nothing
    /\ LET old == shelf.record[shelf.target].path
       IN  shelf' = [(IF j.path = NoPath \/ old = j.path THEN shelf ELSE DropCopy(shelf, old))
                        EXCEPT !.jobs = Advance(j, "put", j.path), !.mixed = shelf.target # j.game]

FinishRelink(j) ==
    /\ j.kind = "relink" /\ j.at = "put" /\ shelf.target # Nothing
    /\ LET t == shelf.target
           put == IF j.path = NoPath THEN shelf ELSE PutGame(shelf, t, j.path)
       IN  shelf' = [Bind(put, t, j.game)
                        EXCEPT !.target = Nothing, !.jobs = @ \ {j}, !.mixed = @ \/ t # j.game]

\* The other selection took the target: reading its id throws.
RelinkFails(j) ==
    /\ j.kind = "relink" /\ j.at \in {"drop", "put"} /\ shelf.target = Nothing
    /\ shelf' = [shelf EXCEPT !.jobs = @ \ {j}]

\* restorePersistentSources: only for games without a source, but opening
\* the copy takes a while.
OpenCopy(g) ==
    LET path == shelf.record[g].path
    IN  /\ Room /\ path # NoPath /\ shelf.bound[g] = Nothing
        /\ shelf.files[path] # Nothing /\ \A j \in shelf.jobs : j.kind # "restore"
        /\ shelf' = [shelf EXCEPT !.jobs = @ \union {Job("restore", "open", g, shelf.files[path], path)}]

FinishRestore(j) ==
    /\ j.kind = "restore"
    /\ shelf' = [Bind(shelf, j.game, j.file) EXCEPT !.jobs = @ \ {j}]

\* removeCurrentGame: the copy, then the record, then the source.
RemoveGame(g) ==
    /\ Room /\ shelf.record[g].kept /\ \A j \in shelf.jobs : j.kind # "remove"
    /\ shelf' = [DropCopy(shelf, shelf.record[g].path)
                    EXCEPT !.jobs = @ \union {Job("remove", "drop", g, Nothing, NoPath)}]

FinishRemove(j) ==
    /\ j.kind = "remove"
    /\ shelf' = [Bind(DropGame(shelf, j.game), j.game, Nothing) EXCEPT !.jobs = @ \ {j}]

\* clearGameCopies of ui-behavior.js, whose capturing listener stops the
\* click before app.js's clearStoredGames (which would unbind) sees it: the
\* records are listed, the directory is emptied, and each listed record that
\* named a copy is put back without it.  Sources stay bound until the page
\* is reloaded.
ClearCopies ==
    /\ Room /\ \A j \in shelf.jobs : j.kind # "clear"
    /\ shelf' = [shelf EXCEPT !.files = [n \in CopyNames |-> Nothing],
                              !.listed = {g \in ShelfGames : shelf.record[g].path # NoPath},
                              !.jobs = @ \union {Job("clear", "put", Nothing, Nothing, NoPath)}]

\* A game removed or linked anew since it was listed is overwritten.
FinishClear(j) ==
    /\ j.kind = "clear"
    /\ shelf' = [shelf EXCEPT !.record = [g \in ShelfGames |-> IF g \in shelf.listed
                                                                THEN [kept |-> TRUE, path |-> NoPath]
                                                                ELSE @[g]],
                              !.listed = {}, !.jobs = @ \ {j}]

ClosePage ==
    shelf' = [shelf EXCEPT !.bound = [g \in ShelfGames |-> Nothing], !.target = Nothing, !.listed = {},
                           !.jobs = {}]

\* After a mix-up (see below) nothing more is followed.
ShelfSteps ==
    /\ ~shelf.mixed
    /\ \/ \E g \in ShelfGames : \E f \in Offered[g] : Import(g, f)
       \/ \E g \in ShelfGames : StartRelink(g) \/ OpenCopy(g) \/ RemoveGame(g)
       \/ \E f \in UNION {Offered[g] : g \in ShelfGames} : ChooseRelink(f)
       \/ \E j \in shelf.jobs :
             SaveCopy(j) \/ FinishImport(j) \/ DropOld(j) \/ FinishRelink(j) \/ RelinkFails(j)
                \/ FinishRestore(j) \/ FinishRemove(j) \/ FinishClear(j)
       \/ ClearCopies
       \/ ClosePage

\* A game is never given the file of another one: neither the source it is
\* played from, nor the stored copy its record names, across overlapping
\* imports, links, restores and closed tabs, as long as no link was begun
\* while another was being saved (`mixed`).
LinksAreOwn ==
    ~shelf.mixed =>
        \A g \in ShelfGames :
            /\ shelf.bound[g] \in {g, Nothing}
            /\ shelf.record[g].path # NoPath => shelf.files[shelf.record[g].path] \in {g, Nothing}

-----------------------------------------------------------------------------
(* ZIP archives.  A field of the central directory is "max" when its value *)
(* is in the ZIP64 extra field, as the next of its values.                 *)

ZipFields == <<"uncompressed", "compressed", "offset", "disk">>

ZipInit == zip = [at |-> "index", fields |-> <<>>, extra |-> <<>>, left |-> 0,
                    entry |-> <<>>, method |-> 8, file |-> "none"]

\* The order parseZip64Extra takes the values in.
ExtraOrder == ZipFields

\* Every sentinel takes the next value while the extra field has one.
ParseZip64Extra(fields, extra) ==
    LET place(f) == CHOOSE i \in 1..Len(ExtraOrder) : ExtraOrder[i] = f
        before(f) == Cardinality({i \in 1..(place(f) - 1) : fields[ExtraOrder[i]] = "max"})
    IN  [f \in DOMAIN fields |->
            IF fields[f] = "max" /\ before(f) < Len(extra) THEN extra[before(f) + 1] ELSE fields[f]]

\* inspectZip: the entries of the directory; a bad signature or a size
\* outside the file refuses the archive.
InspectZip(big, extra) ==
    /\ zip.at = "index"
    /\ LET fields == [f \in {ZipFields[i] : i \in 1..4} |-> IF f \in big THEN "max" ELSE "own"]
       IN  zip' = [zip EXCEPT !.at = "chosen", !.fields = fields, !.extra = extra,
                              !.entry = ParseZip64Extra(fields, extra)]

ArchiveRefused == zip.at = "index" /\ zip' = [zip EXCEPT !.at = "failed"]

\* prepareZipGame: a stored entry is a slice of the archive; a deflated one
\* is written to the origin private file system part by part.
ExtractZipEntry(method, parts) ==
    /\ zip.at = "chosen"
    /\ zip' = CASE method = 0 -> [zip EXCEPT !.at = "done", !.method = 0, !.file = "whole"]
                [] method = 8 -> [zip EXCEPT !.at = "inflate", !.left = parts]
                [] OTHER -> [zip EXCEPT !.at = "failed", !.method = method]

InflatePart ==
    /\ zip.at = "inflate"
    /\ zip' = IF zip.left > 0 THEN [zip EXCEPT !.left = @ - 1] ELSE [zip EXCEPT !.at = "done", !.file = "whole"]

InflateFails ==
    /\ zip.at = "inflate"
    /\ zip' = [zip EXCEPT !.at = "failed"]

ZipSteps ==
    \/ \E big \in SUBSET {ZipFields[i] : i \in 1..4}, n \in 0..4 : InspectZip(big, [i \in 1..n |-> ToString(i)])
    \/ ArchiveRefused
    \/ \E method \in {0, 8, 14}, parts \in 0..2 : ExtractZipEntry(method, parts)
    \/ InflatePart
    \/ InflateFails

\* The values of a ZIP64 extra field are given to the fields they belong to,
\* in the order of the format: uncompressed size, compressed size, offset of
\* the local header, disk; a field with a value of its own keeps it.
Zip64InOrder ==
    zip.entry # <<>> =>
        \A i \in 1..4 :
            LET f == ZipFields[i]
                asked == Cardinality({k \in 1..i : zip.fields[ZipFields[k]] = "max"})
            IN  zip.entry[f] = IF zip.fields[f] = "max" /\ asked <= Len(zip.extra)
                               THEN zip.extra[asked] ELSE zip.fields[f]

-----------------------------------------------------------------------------
(* The cover of a title: three sources in order, one deadline.             *)

CoverInit == cover = [at |-> "info", info |-> "none", aborted |-> FALSE, tried |-> <<>>, from |-> "none"]

AfterInfo == "x360db"

\* info.json names the title and may give the address of its boxart.
AskInfo(answer) ==
    /\ cover.at = "info" /\ answer \in (IF cover.aborted THEN {"none"} ELSE {"none", "plain", "boxart"})
    /\ cover' = [cover EXCEPT !.info = answer, !.at = AfterInfo]

NextCover == [x360db |-> "marketplace", marketplace |-> "unity", unity |-> "done"]

\* One source: an image, or anything else (also an abort) and the next one.
AskCover(ok) ==
    /\ cover.at \in DOMAIN NextCover
    /\ ok => ~cover.aborted /\ (cover.at = "marketplace" => cover.info = "boxart")
    /\ cover' = [cover EXCEPT !.tried = Append(@, <<cover.at, ok>>), !.from = IF ok THEN cover.at ELSE @,
                              !.at = IF ok THEN "done" ELSE NextCover[@]]

\* The timer or the caller; the fetch in flight and every later one fails.
AbortCover ==
    /\ cover.at # "done" /\ ~cover.aborted
    /\ cover' = [cover EXCEPT !.aborted = TRUE]

CoverSteps ==
    \/ \E a \in {"none", "plain", "boxart"} : AskInfo(a)
    \/ \E ok \in BOOLEAN : AskCover(ok)
    \/ AbortCover

\* The community database wins over the marketplace and that over the user
\* covers: an answer is only taken after every better source has failed.
BestCoverFirst ==
    /\ cover.from = "marketplace" => <<"x360db", FALSE>> \in {cover.tried[i] : i \in 1..Len(cover.tried)}
    /\ cover.from = "unity" => {<<"x360db", FALSE>>, <<"marketplace", FALSE>>}
                                  \subseteq {cover.tried[i] : i \in 1..Len(cover.tried)}

-----------------------------------------------------------------------------
(* Settings: app.js saves a snapshot of them all, execution-engine.js only *)
(* its own; the live preference is a global of the page.                   *)

Modes == {"auto", "emulator", "recompiled"}

PrefsInit == prefs = [stored |-> "auto", live |-> "auto", snapshot |-> "auto", profile |-> "inherit",
                      chosen |-> "auto", asked |-> FALSE, launched |-> "auto"]

\* saveAppSettings: the live mode, never the snapshot's.
SavedMode(p) == p.live

\* writeGlobalMode.
ChooseMode(m) ==
    prefs' = [prefs EXCEPT !.stored = m, !.live = m, !.chosen = m, !.asked = FALSE]

\* saveAppSettingsFromUi: any other control.
SaveSettings ==
    LET m == SavedMode(prefs) IN prefs' = [prefs EXCEPT !.stored = m, !.live = m, !.snapshot = m]

\* The reset button: execution-engine.js publishes the default at once ...
AskReset == prefs' = [prefs EXCEPT !.live = "auto", !.asked = TRUE]

\* ... app.js once the player confirms.
ConfirmReset ==
    /\ prefs.asked
    /\ prefs' = [prefs EXCEPT !.stored = "auto", !.live = "auto", !.snapshot = "auto",
                             !.chosen = "auto", !.asked = FALSE]

\* loadAppSettings and the first lines of execution-engine.js.
ReloadPage == prefs' = [prefs EXCEPT !.live = prefs.stored, !.snapshot = prefs.stored]

SaveProfile(m) == prefs' = [prefs EXCEPT !.profile = m]

\* resolveTitleProfile.
LaunchMode(p) == IF p.profile = "inherit" THEN p.live ELSE p.profile

PlayTitle == prefs' = [prefs EXCEPT !.launched = LaunchMode(prefs)]

PrefsSteps ==
    \/ \E m \in Modes : ChooseMode(m)
    \/ SaveSettings
    \/ AskReset
    \/ ConfirmReset
    \/ ReloadPage
    \/ \E m \in Modes \union {"inherit"} : SaveProfile(m)
    \/ PlayTitle

\* The execution mode the player chose stays chosen when any of the other
\* settings is saved from app.js's older snapshot, across reloads; the reset
\* button, confirmed or not, is excepted.
ChosenModeKept == ~prefs.asked => prefs.stored = prefs.chosen /\ prefs.live = prefs.chosen

-----------------------------------------------------------------------------
(* The service worker.  A build is a number; a namespace of CacheStorage   *)
(* belongs to one worker version and keeps the page of some build and the  *)
(* shell assets of some build.                                             *)

NothingKept == [page |-> 0, shell |-> 0]

\* served.fresh: the network answered a request of the worker's own, which
\* goes past the HTTP cache (no-store) or is revalidated (no-cache).
CacheInit ==
    cache = [deployed |-> 1, worker |-> 0, waiting |-> 0,
             kept |-> [v \in 0..(MaxDeploys + 1) |-> NothingKept],
             request |-> [kind |-> "none", since |-> 0],
             served |-> [build |-> 0, since |-> 0, fresh |-> TRUE, kind |-> "none"]]

Deploy ==
    /\ cache.deployed <= MaxDeploys
    /\ cache' = [cache EXCEPT !.deployed = @ + 1]

\* install: each is fetched past the HTTP cache, or not at all.
InstallWorker(fetched) ==
    /\ cache.deployed # cache.worker /\ cache.waiting = 0
    /\ cache' = [cache EXCEPT !.waiting = cache.deployed,
                             !.kept[cache.deployed] = [kind \in DOMAIN @ |->
                                  IF kind \in fetched THEN cache.deployed ELSE @[kind]]]

\* activate: every other Render360 namespace is deleted.
ActivateWorker ==
    /\ cache.waiting # 0
    /\ cache' = [cache EXCEPT !.worker = cache.waiting, !.waiting = 0,
                              !.kept = [v \in DOMAIN @ |-> IF v = cache.waiting THEN @[v] ELSE NothingKept]]

\* fetch: a page, a mutable runtime file (JS, WASM, JSON) or a shell asset.
Request(kind) ==
    /\ cache.worker # 0 /\ cache.request.kind = "none"
    /\ cache' = [cache EXCEPT !.request = [kind |-> kind, since |-> cache.deployed]]

Served(build, fresh) ==
    [build |-> build, since |-> cache.request.since, fresh |-> fresh, kind |-> cache.request.kind]

\* Under which entry of the worker's namespace a request is kept.
EntriesKept == cache.kept[cache.worker]

Answer(build, fresh, kept) ==
    cache' = [cache EXCEPT !.served = Served(build, fresh), !.request = [kind |-> "none", since |-> 0],
                           !.kept[cache.worker] = kept]

\* networkFirstNoStore: an offline request fails.
NetworkFirstNoStore(online) ==
    /\ cache.request.kind = "runtime"
    /\ Answer(IF online THEN cache.deployed ELSE 0, online, EntriesKept)

FaultyPreferred(network, cached) == IF cached # 0 THEN cached ELSE network

\* `await network || cached`.
Preferred(network, cached) == IF network # 0 THEN network ELSE cached

\* shellAsset: the answer of the network also becomes the cached one.
ShellAsset(online) ==
    /\ cache.request.kind = "shell"
    /\ LET network == IF online THEN cache.deployed ELSE 0
       IN  Answer(Preferred(network, EntriesKept.shell), online,
                  [EntriesKept EXCEPT !.shell = Preferred(network, @)])

\* navigation without a preload (the browser has none, or the worker was not
\* active yet): the network, or the cached page.
Navigation(online) ==
    /\ cache.request.kind = "page"
    /\ LET network == IF online THEN cache.deployed ELSE 0
       IN  Answer(Preferred(network, EntriesKept.page), online,
                  [EntriesKept EXCEPT !.page = Preferred(network, @)])

\* navigation with a preload: the browser asked in its own way, so the HTTP
\* cache may answer with the page of an earlier build, and that page also
\* becomes the cached one.  A preload that fails (0) rejects the navigation:
\* it is awaited outside the try, and the cached page is not looked at.
PreloadedNavigation(build) ==
    /\ cache.request.kind = "page" /\ build <= cache.deployed
    /\ Answer(build, FALSE, [EntriesKept EXCEPT !.page = Preferred(build, @)])

CacheSteps ==
    \/ Deploy
    \/ \E fetched \in SUBSET {"page", "shell"} : InstallWorker(fetched)
    \/ \E online \in BOOLEAN : NetworkFirstNoStore(online) \/ ShellAsset(online) \/ Navigation(online)
    \/ \E build \in 0..(MaxDeploys + 1) : PreloadedNavigation(build)
    \/ ActivateWorker
    \/ \E kind \in {"page", "runtime", "shell"} : Request(kind)

\* What the network answers to a request of the worker's own is at least as
\* new as the build deployed when it was asked for, and a file of the runtime
\* never comes from a cache: no deploy leaves an old JavaScript or WebAssembly
\* file or an old style sheet behind while the network answers.  A page that
\* the browser preloaded is not one of these: it may be that of an earlier
\* build.
ServedIsDeployed ==
    /\ cache.served.fresh => cache.served.build >= cache.served.since
    /\ cache.served.kind = "runtime" /\ ~cache.served.fresh => cache.served.build = 0

-----------------------------------------------------------------------------
(* The worker pool.                                                        *)

PoolSet == {PoolWorkers[i] : i \in 1..Len(PoolWorkers)}

PoolInit ==
    pool = [idle |-> PoolWorkers, queue |-> <<>>, job |-> [w \in PoolSet |-> Nothing],
            fate |-> [j \in PoolJobs |-> "new"], closed |-> FALSE]

ASSUME PoolAssumption ==
    /\ PoolWorkers \in Seq(PoolSet) /\ Nothing \notin PoolJobs
    /\ \A i, k \in 1..Len(PoolWorkers) : PoolWorkers[i] = PoolWorkers[k] => i = k

\* The last idle worker takes the first job, and so on.
Assigned(p, n) == [w \in PoolSet |->
    LET used == {i \in 1..n : p.idle[Len(p.idle) + 1 - i] = w}
    IN  IF used = {} THEN p.job[w] ELSE p.queue[CHOOSE i \in used : TRUE]]

HandedOver(p) ==
    IF p.closed THEN 0 ELSE IF Len(p.idle) < Len(p.queue) THEN Len(p.idle) ELSE Len(p.queue)

Dispatched(p) ==
    LET n == HandedOver(p)
    IN  [p EXCEPT !.job = Assigned(p, n), !.idle = SubSeq(@, 1, Len(@) - n), !.queue = SubSeq(@, n + 1, Len(@))]

RunJob(j) ==
    /\ pool.fate[j] = "new"
    /\ pool' = IF pool.closed THEN [pool EXCEPT !.fate[j] = "rejected"]
               ELSE Dispatched([pool EXCEPT !.fate[j] = "queued", !.queue = Append(@, j)])

\* onmessage and onerror: the worker is idle again, its job is settled.
JobAnswered(w, outcome) ==
    /\ pool.job[w] # Nothing /\ ~pool.closed
    /\ pool' = Dispatched([pool EXCEPT !.job[w] = Nothing, !.idle = Append(@, w),
                                 !.fate[pool.job[w]] = outcome])

\* Queued jobs are rejected; those of the terminated workers are not.
ClosePool ==
    /\ ~pool.closed
    /\ pool' = [pool EXCEPT !.closed = TRUE, !.queue = <<>>, !.idle = <<>>,
                            !.fate = [j \in PoolJobs |-> IF \E i \in 1..Len(pool.queue) : pool.queue[i] = j
                                                         THEN "rejected" ELSE @[j]]]

PoolSteps ==
    \/ \E j \in PoolJobs : RunJob(j)
    \/ \E w \in PoolSet, outcome \in {"resolved", "rejected"} : JobAnswered(w, outcome)
    \/ ClosePool

\* Until the pool is closed no job is lost or given to two workers: every
\* unsettled job is in the queue or with exactly one worker.
JobsHaveOnePlace ==
    ~pool.closed => \A j \in {x \in PoolJobs : pool.fate[x] = "queued"} :
        Cardinality({w \in PoolSet : pool.job[w] = j})
           + Cardinality({i \in 1..Len(pool.queue) : pool.queue[i] = j}) = 1

-----------------------------------------------------------------------------
(* RuntimeHost and its worker: a start with a deadline, then messages.     *)

HostInit == host = [start |-> "waiting", timer |-> TRUE, worker |-> "loading", sent |-> 0,
                      mask |-> 0, channel |-> <<>>,
                    announced |-> FALSE, lost |-> FALSE]

WorkerReady == host.worker = "loading" /\ host' = [host EXCEPT !.worker = "up"]

\* core.init failed: an error is posted, which does not settle the start.
CoreFails == host.worker = "loading" /\ host' = [host EXCEPT !.worker = "failed"]

\* The ready message; it may come after the deadline.
HostReady ==
    /\ host.worker = "up" /\ ~host.announced
    /\ host' = [host EXCEPT !.timer = FALSE, !.start = IF @ = "waiting" THEN "ready" ELSE @, !.announced = TRUE]

ScriptError ==
    /\ host.worker = "loading"
    /\ host' = [host EXCEPT !.worker = "failed", !.timer = FALSE,
                           !.start = IF @ = "waiting" THEN "rejected" ELSE @]

StartTimesOut ==
    /\ host.timer
    /\ host' = [host EXCEPT !.timer = FALSE, !.start = IF @ = "waiting" THEN "rejected" ELSE @]

\* setKey sends the whole mask.
SendMask(m) ==
    /\ Len(host.channel) < 2
    /\ host' = [host EXCEPT !.sent = m, !.channel = Append(@, [type |-> "input", mask |-> m])]

AfterReset == 0

ResetHost ==
    /\ Len(host.channel) < 2
    /\ host' = [host EXCEPT !.sent = AfterReset, !.channel = Append(@, [type |-> "reset", mask |-> 0])]

\* The worker drops what comes before its core.
TakeMessage ==
    /\ host.channel # <<>>
    /\ host' = [host EXCEPT !.channel = Tail(@), !.lost = host.worker # "up",
                            !.mask = IF host.worker = "up" THEN Head(host.channel).mask ELSE @]

HostSteps ==
    \/ WorkerReady \/ CoreFails \/ HostReady \/ ScriptError \/ StartTimesOut
    \/ \E m \in 0..1 : SendMask(m)
    \/ ResetHost
    \/ TakeMessage

\* A key held down before a reset does not stay down on one side only: once
\* every message is taken and the last one found the core, the mask of the
\* worker is the host's.
MasksAgree == host.channel = <<>> /\ ~host.lost => host.mask = host.sent

\* A game is linked with its own file, unpacked from the right place, and shown
\* with the best cover there is.
GamesGetTheirOwn == LinksAreOwn /\ Zip64InOrder /\ BestCoverFirst

\* What is chosen, deployed, queued or pressed is neither lost nor replaced by
\* what was there before.
PageKeepsUp == ChosenModeKept /\ ServedIsDeployed /\ JobsHaveOnePlace /\ MasksAgree
=============================================================================
