----------------------------- MODULE PortRuntime -----------------------------
(***************************************************************************)
(* PC titles recompiled to WebAssembly: who holds the running session      *)
(* (runtime/pc-recompiled-runtime.js, runtime/recompiled-title-runtime.js, *)
(* settings/execution-engine.js), the engine worker                        *)
(* (recompiled/pc/portal/source-wasm), the keys its pad holds down         *)
(* (runtime/pc-controller-input.js), the copy of the player's files        *)
(* (storage/pc-persistent-storage.js, runtime/pc-library-integration.js),  *)
(* their VPK archives (runtime/source-vpk-source.js) and how they are      *)
(* mounted (runtime/pc-workerfs-session.js, community-wasm-package.js).    *)
(***************************************************************************)
EXTENDS Integers, Sequences, FiniteSets

CONSTANTS
    PortLaunches, \* launches of a title
    NoLaunch,     \* no session held
    Buttons,      \* keys and mouse buttons of PORTAL_BUTTON_MAP
    Moves,        \* WASD
    SaveFiles,    \* files of an installation, saved in order 1..SaveFiles
    MaxLinks,     \* times the player links an installation
    MaxReserve    \* WebAssembly pages

ASSUME PortAssumption ==
    NoLaunch \notin PortLaunches /\ SaveFiles \in Nat \ {0} /\ MaxLinks \in Nat /\ MaxReserve \in Nat

VARIABLES
    port,    \* the launches, and what of them is alive
    engine,  \* the adapter, its worker and the messages between them
    keys,    \* createPcControllerInput
    saved,   \* the origin private file system, the game record, the link
    overlay, \* createSourceVpkOverlay
    mount,   \* createPortalPcSession
    reserve  \* ensureEmulatorMemoryReserve

portVars == <<port, engine, keys, saved, overlay, mount, reserve>>

-----------------------------------------------------------------------------
(* The held session.                                                       *)

PortInit ==
    port = [at |-> [l \in PortLaunches |-> "idle"], kind |-> [l \in PortLaunches |-> "pc"], live |-> {},
            held |-> NoLaunch, pad |-> NoLaunch, title |-> NoLaunch, displaced |-> FALSE]

Without(p, parts, l) == [p EXCEPT !.live = @ \ (parts \X {l})]

\* session.stop(): the adapter stops its pad, terminates the worker.
SessionStopped(p, l) == Without(p, {"session", "engine", "pad"}, l)

\* The pointers of the runtime, when they are still this launch's.
Released(p, l) ==
    [p EXCEPT !.held = IF @ = l THEN NoLaunch ELSE @, !.pad = IF @ = l THEN NoLaunch ELSE @]

FaultyDropped(p) == [Without(p, {"pad"}, p.pad) EXCEPT !.held = NoLaunch, !.pad = NoLaunch]

\* The first lines of the PC router: whatever is held stops.
Dropped(p) ==
    [Without(SessionStopped(p, p.held), {"pad"}, p.pad) EXCEPT !.held = NoLaunch, !.pad = NoLaunch]

PlayPort(l) ==
    /\ port.at[l] = "idle"
    /\ port' = [Dropped(port) EXCEPT !.at[l] = "probing", !.kind[l] = "pc"]

\* The static router stops nobody.
PlayStatic(l) ==
    /\ port.at[l] = "idle"
    /\ port' = [port EXCEPT !.at[l] = "probing", !.kind[l] = "static"]

\* probePcRecompiledTitle, probeRecompiledTitle, validatePcSource.
ProbePort(l) ==
    /\ port.at[l] = "probing"
    /\ \E found \in BOOLEAN : port' = [port EXCEPT !.at[l] = IF found THEN "presenting" ELSE "failed"]

\* The catch of runPcRecompiledTitle.
Failed(p, l) ==
    LET q == Released(Without(p, {"pad", "presenter"}, l), l)
    IN  [(IF <<"session", l>> \in p.live THEN SessionStopped(q, l) ELSE q) EXCEPT !.at[l] = "failed"]

\* createPcWebGpuPresenter, or the direct one that owns nothing.
PresentPort(l) ==
    /\ port.at[l] = "presenting" /\ port.kind[l] = "pc"
    /\ \/ \E parts \in {{}, {<<"presenter", l>>}} :
             port' = [port EXCEPT !.at[l] = "creating", !.live = @ \union parts]
       \/ port' = Failed(port, l)

\* The host is published and the adapter starts its worker.
CreateSession(l) ==
    /\ port.at[l] = "creating"
    /\ port' = [port EXCEPT !.at[l] = "loading", !.title = l, !.live = @ \union {<<"engine", l>>}]

SessionHeld(p, l, parts) ==
    [p EXCEPT !.at[l] = "starting", !.live = @ \union (parts \X {l}),
              !.held = l, !.displaced = @ \/ p.held # NoLaunch]

\* create() answers: the pad is made and the session held.
SessionReady(l) ==
    /\ port.at[l] = "loading"
    /\ port' = [SessionHeld(port, l, {"session", "pad"}) EXCEPT !.pad = l]

\* create() rejects: there is no session to stop; the worker may have
\* closed itself, or runs on.
SessionFails(l) ==
    /\ port.at[l] = "loading"
    /\ \E closed \in {{}, {"engine"}} : port' = Failed(Without(port, closed, l), l)

CreateStatic(l) ==
    /\ port.at[l] = "presenting" /\ port.kind[l] = "static"
    /\ port' = [SessionHeld(port, l, {"session"}) EXCEPT !.title = l]

StartSession(l) ==
    /\ port.at[l] = "starting"
    /\ \/ port' = [port EXCEPT !.at[l] = "running", !.title = l]
       \/ port.kind[l] = "pc" /\ port' = Failed(port, l)
       \/ port.kind[l] = "static" /\ port' = [port EXCEPT !.at[l] = "failed"]

\* globalThis.render360ModernTitle.stop(): a static title has it before
\* its start, a PC title when it runs.
StopPort(l) ==
    /\ port.title = l
    /\ \/ port.kind[l] = "pc" /\ port.at[l] = "running"
       \/ port.kind[l] = "static" /\ <<"session", l>> \in port.live
    /\ port' = [Released(Without(SessionStopped(port, l), {"presenter"}, l), l) EXCEPT !.at[l] = "stopped"]

HoldSteps ==
    \E l \in PortLaunches :
        \/ PlayPort(l) \/ PlayStatic(l) \/ ProbePort(l) \/ PresentPort(l) \/ CreateSession(l)
        \/ SessionReady(l) \/ SessionFails(l) \/ CreateStatic(l) \/ StartSession(l) \/ StopPort(l)

\* A PC launch that failed leaves no session, pad or presenter behind.
FailedPortLeavesNothing ==
    \A l \in PortLaunches : port.at[l] = "failed" /\ port.kind[l] = "pc" =>
        port.live \intersect ({"session", "pad", "presenter"} \X {l}) = {}

\* runtime.recompiledSession, which pause, resume and the keys go to, is
\* never a session that was stopped.
HeldIsLive == port.held # NoLaunch => <<"session", port.held>> \in port.live

\* Unless one launch takes the place of another that is still held, two
\* sessions never run at once.
OneSession ==
    ~port.displaced => Cardinality({l \in PortLaunches : <<"session", l>> \in port.live}) <= 1

-----------------------------------------------------------------------------
(* The engine worker.                                                      *)

EngineInit ==
    engine = [adapter |-> "idle", worker |-> "none", loaded |-> "nothing", files |-> FALSE,
              stack |-> FALSE, main |-> "no", toWorker |-> <<>>, toPage |-> <<>>]

\* createRender360PcPort up to its wait.
PostInit ==
    /\ engine.adapter = "idle"
    /\ engine' = [engine EXCEPT !.adapter = "waiting", !.worker = "idle", !.toWorker = Append(@, "init")]

Fatal(e) == [e EXCEPT !.toPage = Append(@, "fatal")]

\* What initialize has done; it posts "ready" at the end.
Stages == <<"filtered", "staged", "checked", "imported", "mounted", "ready">>

WorkerTakes ==
    /\ engine.worker # "none" /\ engine.toWorker # <<>>
    /\ LET e == [engine EXCEPT !.toWorker = Tail(@)]
       IN  engine' = IF Head(engine.toWorker) = "init" THEN [e EXCEPT !.worker = "loading"]
                     ELSE IF e.loaded # "ready" THEN Fatal(e)
                     ELSE IF e.main # "no" THEN e
                     ELSE [e EXCEPT !.main = "due"]

NextStage(e) ==
    IF e.loaded = "nothing" THEN Stages[1]
    ELSE Stages[1 + CHOOSE i \in 1..Len(Stages) : Stages[i] = e.loaded]

\* One step of initialize.  Side modules are constructed by the import,
\* which loses the stack limits; repairStackGeometry follows.
Initialize ==
    /\ engine.worker = "loading"
    /\ LET next == NextStage(engine)
           e == [engine EXCEPT !.loaded = next, !.stack = @ \/ next = "imported",
                               !.files = @ \/ next = "mounted"]
       IN  \/ engine' = IF next = "ready"
                        THEN [e EXCEPT !.worker = "up", !.toPage = Append(@, "ready")] ELSE e
           \/ next # "ready" /\ engine' = [Fatal(engine) EXCEPT !.worker = "closing"]

\* An unhandled rejection is reported, and the work goes on.
Unhandled ==
    /\ engine.worker \in {"loading", "up"} /\ Len(engine.toPage) < 2
    /\ engine' = Fatal(engine)

\* A late constructor of a side module.
LateConstructor ==
    /\ engine.loaded \in {"imported", "mounted", "ready"} /\ engine.main # "entered"
    /\ engine' = [engine EXCEPT !.stack = FALSE]

Repaired(e) == [e EXCEPT !.stack = TRUE]

\* The timer of run().
CallMain ==
    /\ engine.main = "due"
    /\ engine' = [Repaired(engine) EXCEPT !.main = "entered"]

CloseWorker ==
    /\ engine.worker = "closing"
    /\ engine' = [engine EXCEPT !.worker = "none", !.toWorker = <<>>]

\* waitFor's listener; settled once.
PageTakes ==
    /\ engine.toPage # <<>>
    /\ engine' = [engine EXCEPT !.toPage = Tail(@),
                     !.adapter = IF @ # "waiting" THEN @
                                 ELSE IF Head(engine.toPage) = "ready" THEN "ready" ELSE "failed"]

FaultyMayTimeOut(e) == e.adapter = "waiting" /\ e.worker = "closing"
MayTimeOut(e) == e.adapter = "waiting"

WaitTimesOut ==
    /\ MayTimeOut(engine)
    /\ engine' = [engine EXCEPT !.adapter = "failed"]

\* session.start(): once.
PostRun ==
    /\ engine.adapter = "ready"
    /\ engine' = [engine EXCEPT !.adapter = "started", !.toWorker = Append(@, "run")]

\* session.stop(): terminate; what is under way is lost.
Terminate ==
    /\ engine.adapter \in {"ready", "started"}
    /\ engine' = [engine EXCEPT !.adapter = "stopped", !.worker = "none", !.toWorker = <<>>, !.toPage = <<>>,
                                !.main = IF @ = "due" THEN "no" ELSE @]

EngineSteps ==
    \/ PostInit \/ WorkerTakes \/ Initialize \/ Unhandled \/ LateConstructor \/ CallMain \/ CloseWorker
    \/ PageTakes \/ WaitTimesOut \/ PostRun \/ Terminate

\* main is entered with the player's files mounted and the stack limits in
\* place, whatever the side modules did before.
MainFindsItsFiles == engine.main = "entered" => engine.stack /\ engine.files

\* The launch is told: a worker that never answers does not keep it waiting.
EngineWaitEnds == [](engine.adapter = "waiting" => <>(engine.adapter # "waiting"))

-----------------------------------------------------------------------------
(* The pad.                                                                *)

KeysInit == keys = [buttons |-> {}, moves |-> {}, down |-> {}, paused |-> FALSE, stopped |-> FALSE]

\* setKey: a button in the state it has is not sent again.
SetKey(b, pressed) ==
    /\ ~keys.stopped /\ (b \in keys.buttons) # pressed
    /\ keys' = IF pressed THEN [keys EXCEPT !.buttons = @ \union {b}, !.down = @ \union {b}]
               ELSE [keys EXCEPT !.buttons = @ \ {b}, !.down = @ \ {b}]

\* setMoveAnalog and updateMove; nobody holds a pad that was stopped.
SetMove(dirs) ==
    /\ ~keys.stopped /\ ~keys.paused
    /\ keys' = [keys EXCEPT !.moves = dirs, !.down = (@ \ Moves) \union dirs]

\* resetInput
ResetKeys(k) == [k EXCEPT !.down = @ \ (k.buttons \union k.moves), !.buttons = {}, !.moves = {}]

PausePad == keys' = [ResetKeys(keys) EXCEPT !.paused = TRUE]
ResumePad == keys.paused /\ keys' = [keys EXCEPT !.paused = FALSE]
StopPad == ~keys.stopped /\ keys' = [ResetKeys(keys) EXCEPT !.stopped = TRUE]

KeySteps ==
    \/ \E b \in Buttons, pressed \in BOOLEAN : SetKey(b, pressed)
    \/ \E dirs \in SUBSET Moves : SetMove(dirs)
    \/ PausePad \/ ResumePad \/ StopPad

\* When the pad stops the game holds no key that nobody can let go.
StopReleasesKeys == keys.stopped => keys.down = {}

-----------------------------------------------------------------------------
(* The saved copy.                                                         *)

SavedInit ==
    saved = [at |-> "idle", version |-> 0, done |-> 0, files |-> [f \in 1..SaveFiles |-> 0], meta |-> 0,
             record |-> FALSE, bound |-> 0, links |-> 0, seen |-> "none", kept |-> FALSE, restored |-> {}]

\* addOrRelink: the source is bound and the record says it is not saved.
LinkSource ==
    /\ saved.links < MaxLinks
    /\ saved' = [saved EXCEPT !.links = @ + 1, !.bound = saved.links + 1, !.record = FALSE, !.restored = {}]

FaultyEmptied(s) == s
Emptied(s) == [s EXCEPT !.files = [f \in 1..SaveFiles |-> 0], !.meta = 0]

\* persistPcRecompiledSource: the old copy goes first; an error of that is
\* swallowed.
BeginSave ==
    /\ saved.at = "idle" /\ saved.bound # 0 /\ ~saved.record
    /\ LET s == [saved EXCEPT !.at = "copy", !.version = saved.bound, !.done = 0]
       IN  \/ saved' = Emptied(s)
           \/ saved.meta # 0 /\ saved' = [s EXCEPT !.kept = TRUE]

CopyFile ==
    /\ saved.at = "copy" /\ saved.done < SaveFiles
    /\ saved' = [saved EXCEPT !.done = @ + 1, !.files[saved.done + 1] = saved.version]

WriteMeta ==
    /\ saved.at = "copy" /\ saved.done = SaveFiles
    /\ saved' = [saved EXCEPT !.at = "saved", !.meta = saved.version]

\* The record read before the copy is put back after it.
RecordSave ==
    /\ saved.at = "saved"
    /\ saved' = [saved EXCEPT !.at = "idle", !.record = TRUE]

\* Its catch, and the one of persistLinkedPcSources.
SaveFails ==
    /\ saved.at = "copy"
    /\ saved' = [Emptied(saved) EXCEPT !.at = "idle", !.record = FALSE]

\* hydratePcArtwork reads the records, fetches, and puts what it read.
Hydrate ==
    \/ /\ saved.seen = "none"
       /\ saved' = [saved EXCEPT !.seen = IF saved.record THEN "saved" ELSE "linked"]
    \/ /\ saved.seen # "none"
       /\ saved' = [saved EXCEPT !.record = (saved.seen = "saved"), !.seen = "none"]

\* The tab is closed; what is on disk stays.
CloseTab ==
    /\ saved' = [saved EXCEPT !.at = "idle", !.bound = 0, !.seen = "none", !.restored = {}]

\* restorePersistedPcSources
RestoreSource ==
    /\ saved.at = "idle" /\ saved.bound = 0 /\ saved.record
    /\ LET copies == {saved.files[f] : f \in 1..SaveFiles}
       IN  saved' = IF saved.meta # 0 /\ 0 \notin copies
                    THEN [saved EXCEPT !.bound = saved.meta, !.restored = copies \union {saved.meta}]
                    ELSE [saved EXCEPT !.record = saved.meta # 0]

SavedSteps ==
    \/ LinkSource \/ BeginSave \/ CopyFile \/ WriteMeta \/ RecordSave \/ SaveFails \/ Hydrate \/ CloseTab
    \/ RestoreSource

\* An installation that is restored is one the player linked, never files
\* of two of them, wherever the tab was closed; unless the browser refused
\* to remove the old copy.
RestoredIsWhole == ~saved.kept => Cardinality(saved.restored) <= 1

-----------------------------------------------------------------------------
(* VPK archives: the first directory, in the order of the search path.     *)

VpkDirs == <<"portal", "hl2", "platform">>

\* dirPaths, sorted by rank.
SearchOrder == VpkDirs

OverlayInit ==
    overlay = [at |-> "idle", holds |-> {}, bad |-> {}, parsed |-> {}, next |-> 1, found |-> "none"]

\* Somebody resolves a path; the trees are those the player linked.
AskPath(holds, bad) ==
    /\ overlay.at \in {"idle", "found", "missing", "rejected"}
    /\ overlay.at = "idle" \/ bad = overlay.bad
    /\ overlay' = [overlay EXCEPT !.at = "walk", !.holds = holds, !.bad = bad, !.next = 1, !.found = "none"]

\* A tree is parsed once; one that cannot be rejects everybody after it.
WalkDirectory ==
    /\ overlay.at = "walk" /\ overlay.next <= Len(SearchOrder)
    /\ LET dir == SearchOrder[overlay.next]
           o == [overlay EXCEPT !.parsed = @ \union {dir}]
       IN  overlay' = IF dir \in o.bad THEN [o EXCEPT !.at = "rejected"]
                      ELSE IF dir \in o.holds THEN [o EXCEPT !.at = "found", !.found = dir]
                      ELSE [o EXCEPT !.next = @ + 1]

WalkEnds ==
    /\ overlay.at = "walk" /\ overlay.next > Len(SearchOrder)
    /\ overlay' = [overlay EXCEPT !.at = "missing"]

OverlaySteps ==
    \/ \E holds, bad \in SUBSET {"portal", "hl2", "platform"} : AskPath(holds, bad)
    \/ WalkDirectory \/ WalkEnds

\* Portal's own file hides the one of Half-Life 2 and of the platform, and
\* a path is missing only when no archive has it.
ResolvedIsFirst ==
    /\ overlay.at = "found" => \A i \in 1..3 : VpkDirs[i] \in overlay.holds =>
           \E j \in 1..i : VpkDirs[j] = overlay.found
    /\ overlay.at = "missing" => overlay.holds = {}

-----------------------------------------------------------------------------
(* Mounting the player's files.                                            *)

MountInit == mount = [at |-> "idle", mode |-> "none", roots |-> {}, written |-> 0]

\* loadCommunityWasmPackage...: the manifest, then the files it names.
LoadPackage ==
    /\ mount.at = "idle"
    /\ \E valid, complete \in BOOLEAN :
          mount' = [mount EXCEPT !.at = IF valid /\ complete THEN "bridge" ELSE "failed"]

\* module.render360MountPcContent
BridgeMount ==
    /\ mount.at = "bridge"
    /\ \E answer \in {"mounted", "workerfs", "failed"} :
          mount' = [mount EXCEPT !.at = answer, !.mode = IF answer = "mounted" THEN "bridge" ELSE "none"]

Unmounted(m) == [m EXCEPT !.roots = {}]

\* mountPlayerOwnedFolderWithWorkerFs, a root at a time; on an error what
\* was mounted is unmounted.
MountRoot ==
    /\ mount.at = "workerfs"
    /\ \/ \E root \in {"portal", "hl2", "platform"} \ mount.roots :
             mount' = [mount EXCEPT !.roots = @ \union {root}]
       \/ /\ {"portal", "hl2"} \subseteq mount.roots
          /\ mount' = [mount EXCEPT !.at = "mounted", !.mode = "workerfs"]
       \/ mount' = [Unmounted(mount) EXCEPT !.at = "index"]

\* mountIndexedPcContent, a file at a time: WORKERFS is read-only.
IndexFile ==
    /\ mount.at = "index"
    /\ \/ mount.written < 2 /\ mount.roots = {} /\ mount' = [mount EXCEPT !.written = @ + 1]
       \/ mount.written > 0 /\ mount' = [mount EXCEPT !.at = "mounted", !.mode = "index"]
       \/ mount' = [mount EXCEPT !.at = "failed"]

MountSteps == LoadPackage \/ BridgeMount \/ MountRoot \/ IndexFile

\* The files are visible in one way only: the fallback never copies into,
\* or runs beside, half a WORKERFS mount.
OneMount ==
    /\ mount.at = "index" => mount.roots = {}
    /\ mount.at = "mounted" => (mount.mode = "workerfs") = (mount.roots # {})

-----------------------------------------------------------------------------
(* The memory reserve of the emulator, in WebAssembly pages.               *)

ReserveInit == reserve = [at |-> "idle", target |-> 0, size |-> 1, before |-> 1]

GrowStep == 2

\* The preset, under the ceiling of the device.
RequestReserve(wanted, ceiling) ==
    /\ reserve.at # "growing"
    /\ reserve' = [reserve EXCEPT !.at = "growing", !.before = reserve.size,
                                  !.target = IF wanted < ceiling THEN wanted ELSE ceiling]

GrowBy(r) == IF r.target - r.size < GrowStep THEN r.target - r.size ELSE GrowStep

GrowReserve ==
    /\ reserve.at = "growing" /\ reserve.size < reserve.target
    /\ \/ reserve' = [reserve EXCEPT !.size = @ + GrowBy(reserve)]
       \/ reserve' = [reserve EXCEPT !.at = "partial"]

ReserveDone ==
    /\ reserve.at = "growing" /\ reserve.size >= reserve.target
    /\ reserve' = [reserve EXCEPT !.at = "reserved"]

ReserveSteps ==
    \/ \E wanted, ceiling \in 1..MaxReserve : RequestReserve(wanted, ceiling)
    \/ GrowReserve \/ ReserveDone

\* The heap, which never shrinks, grows to the cap of the device and no
\* page past it.
ReserveIsCapped ==
    reserve.size <= IF reserve.before < reserve.target THEN reserve.target ELSE reserve.before

\* There is one session of a PC game, the page holds it, and its pad lets go.
SessionIsHeld == FailedPortLeavesNothing /\ HeldIsLive /\ OneSession /\ StopReleasesKeys

\* A PC game finds one installation, whole, the right file of it, in memory the
\* device has.
PlayerFilesAreWhole == RestoredIsWhole /\ ResolvedIsFirst /\ OneMount /\ ReserveIsCapped

\* The engine is started with all it needs, or the launch is told.
EngineStarts == []MainFindsItsFiles /\ EngineWaitEnds
=============================================================================
