---------------------------- MODULE TitleLaunch ----------------------------
(***************************************************************************)
(* Launching titles in the page: the player's Play and Leave (app.js), the *)
(* content and the ISO bridge, the WebAssembly core they share             *)
(* (render360-browser-title-runtime.mjs) and the handoff of a default.xex  *)
(* to that core (render360-title-controller.mjs).                          *)
(*                                                                         *)
(* A launch is an async function: its steps end where the code awaits, and *)
(* between them the page may leave the game, play another or run the       *)
(* pumps of an earlier one.  Launches are numbered in the order in which   *)
(* they are made, so that a launch is its own run number.  Of a title's    *)
(* image, imports and context only whose they are is kept; of the          *)
(* execution, how it ends.                                                 *)
(***************************************************************************)
EXTENDS Naturals, FiniteSets

CONSTANTS
    Launches,     \* 1 .. n
    Cores,        \* bound: 1 .. m instances of the core
    AssetFaults,  \* what verification of the core's files can find
    MaxFetches    \* bound on file fetches of one run (maxRetries = 128)

ASSUME LaunchAssumption ==
    /\ IsFiniteSet(Launches) /\ Launches = 1 .. Cardinality(Launches)
    /\ IsFiniteSet(Cores) /\ Cores # {} /\ Cores = 1 .. Cardinality(Cores)
    /\ MaxFetches \in Nat

Bridges == {"content", "iso"}

VARIABLES
    kind,        \* the bridge that serves each launch
    view,        \* appState: details, or the game that is booting, running or paused
    launch,      \* what each launch is doing
    bridge,      \* activeRun and activeScheduler of each bridge
    pumps,       \* runLoop of each launch's scheduler
    core,        \* the instances of the core
    singleton,   \* globalThis[BOOTSTRAP_SINGLETON_KEY], 0: none
    guestRun,    \* globalThis.render360GuestRun, 0: none
    aborted,     \* launches whose guest run was told to stop
    published,   \* globalThis.render360ModernTitle
    hurried,     \* history: the player did not wait for a launch or a pump to end
    reported     \* history: cores whose trap ended a launch or pumps of a bridge

titleVars == <<kind, view, hurried>>
titleRunVars == <<guestRun, aborted>>
launchVars == <<titleVars, launch, bridge, pumps, core, singleton, titleRunVars, published, reported>>

Waiting == {"boot", "files", "prepare", "session", "pump", "hirPrepare", "hir", "fetch", "inspect"}
EndedStates == {"done", "returned", "failed"}

NoCore == [status |-> "none", exec |-> 1, title |-> 0, thread |-> 0,
           fibers |-> 0, vfs |-> 0]

LaunchInit ==
    /\ kind \in [Launches -> Bridges]
    /\ view = "details"
    /\ launch = [l \in Launches |->
                    [at |-> "idle", core |-> 0, prev |-> 1, blocked |-> FALSE,
                     driven |-> FALSE, fetches |-> 0]]
    /\ bridge = [b \in Bridges |-> [run |-> 0, scheduler |-> 0]]
    /\ pumps = [l \in Launches |-> [running |-> FALSE, pumping |-> FALSE]]
    /\ core = [c \in Cores |-> NoCore]
    /\ singleton = 0 /\ guestRun = 0 /\ aborted = {} /\ published = 0
    /\ hurried = FALSE /\ reported = {}

LaunchTypeOK ==
    /\ kind \in [Launches -> Bridges]
    /\ view \in {"details", "game"}
    /\ launch \in [Launches -> [at : {"idle"} \cup Waiting \cup EndedStates, core : Cores \cup {0},
                                prev : 0 .. 1, blocked : BOOLEAN, driven : BOOLEAN,
                                fetches : 0 .. MaxFetches]]
    /\ bridge \in [Bridges -> [run : Launches \cup {0}, scheduler : Launches \cup {0}]]
    /\ pumps \in [Launches -> [running : BOOLEAN, pumping : BOOLEAN]]
    /\ core \in [Cores -> [status : {"none", "loading", "ready", "failed"}, exec : 0 .. 1,
                           title : Launches \cup {0}, thread : Launches \cup {0},
                           fibers : Launches \cup {0}, vfs : Launches \cup {0}]]
    /\ singleton \in Cores \cup {0} /\ guestRun \in Launches \cup {0}
    /\ aborted \subseteq Launches /\ published \in Launches \cup {0}
    /\ hurried \in BOOLEAN /\ reported \subseteq Cores

Superseded(l) == bridge[kind[l]].run # l
CoreOf(l) == core[launch[l].core]

\* Changes to the core that serves launch l.
WithCore(l, record) == core' = [core EXCEPT ![launch[l].core] = record]
MovesOn(l, at) == launch' = [launch EXCEPT ![l].at = at]

-----------------------------------------------------------------------------
(* The core: one verified instance at a time.                              *)

\* loadRender360Bootstrap: the instance there is, or the next one.
CoreAfterCall ==
    IF singleton # 0
    THEN {singleton}
    ELSE {c \in Cores : core[c].status = "none" /\ \A d \in Cores : d < c => core[d].status # "none"}

\* validatePpcBootstrapAsset and what instantiateVerifiedBootstrap checks.
Verified(faults) == faults = {}

\* instantiateVerifiedBootstrap ends; a load that failed is forgotten.
LoadEnds(c) ==
    /\ core[c].status = "loading"
    /\ \E faults \in {{}} \cup {{f} : f \in AssetFaults} :
        IF Verified(faults)
        THEN core' = [core EXCEPT ![c].status = "ready"] /\ UNCHANGED singleton
        ELSE /\ core' = [core EXCEPT ![c].status = "failed"]
             /\ singleton' = IF singleton = c THEN 0 ELSE singleton
    /\ UNCHANGED <<titleVars, launch, bridge, pumps, titleRunVars, published, reported>>

\* discardRender360Bootstrap: only a singleton that is loaded can be told apart.
AfterDiscard(c) ==
    IF singleton = c \/ (singleton # 0 /\ core[singleton].status = "loading") THEN 0 ELSE singleton

\* wrapCoreTrap with onPoisoned: the trap of launch l's core is reported.
TrapReported(l) ==
    /\ singleton' = AfterDiscard(launch[l].core)
    /\ reported' = reported \cup {launch[l].core}

-----------------------------------------------------------------------------
(* Play and Leave.                                                         *)

InProgress == {l \in Launches : launch[l].at \in Waiting}

Stopped(ls) == [l \in Launches |-> [pumps[l] EXCEPT !.running = @ /\ l \notin ls]]

\* stopActive and stopActiveScheduler.
ActiveStopped(b) == Stopped({bridge[b].scheduler})

\* playCurrent, Render360Runtime.play and the bridge up to its first await.
StartLaunch(l) ==
    /\ launch[l].at = "idle" /\ \A k \in Launches : k < l => launch[k].at # "idle"
    /\ view = "details"
    /\ view' = "game"
    /\ hurried' = (hurried \/ \E k \in Launches : pumps[k].pumping)
    /\ pumps' = ActiveStopped(kind[l])
    /\ bridge' = [bridge EXCEPT ![kind[l]] = [run |-> l, scheduler |-> 0]]
    /\ \E c \in CoreAfterCall :
        /\ launch' = [launch EXCEPT ![l].at = "boot", ![l].core = c]
        /\ singleton' = c
        /\ core' = [core EXCEPT ![c].status = IF @ = "none" THEN "loading" ELSE @]
    /\ UNCHANGED <<kind, titleRunVars, published, reported>>

FaultyLeftLoops == Stopped({})

\* stopTitle stops the guest run and the scheduler of the title published last.
LeftLoops == Stopped({published})

\* leaveGame.
Leave ==
    /\ view # "details"
    /\ view' = "details"
    /\ hurried' = (hurried \/ InProgress # {})
    /\ aborted' = aborted \cup ({guestRun} \ {0})
    /\ pumps' = LeftLoops
    /\ UNCHANGED <<kind, launch, bridge, core, singleton, guestRun, published, reported>>

\* The rest of playCurrent, when runtime.play has ended in at.
ViewAfter(l, at) == IF at = "failed" THEN "details" ELSE view

Ends(l, at) ==
    /\ MovesOn(l, at)
    /\ view' = ViewAfter(l, at)
    /\ UNCHANGED <<kind, hurried>>

Goes(l, at) == MovesOn(l, at) /\ UNCHANGED titleVars

\* A bridge that looks whether it has been superseded returns null if so.
Continues(l, at) == IF Superseded(l) THEN Ends(l, "returned") ELSE Goes(l, at)

-----------------------------------------------------------------------------
(* From the core to the image.                                             *)

\* getBootstrap ended badly.
BootFails(l) ==
    /\ launch[l].at = "boot" /\ CoreOf(l).status = "failed"
    /\ Ends(l, "failed")
    /\ UNCHANGED <<bridge, pumps, core, singleton, titleRunVars, published, reported>>

\* browserGuestRunOptions: the guest run before this one is told to stop.
NewGuestRun(l) ==
    /\ guestRun' = l
    /\ aborted' = (aborted \cup ({guestRun} \ {0})) \ {l}

\* The content bridge has its core and reads the file.
ContentBooted(l) ==
    /\ launch[l].at = "boot" /\ CoreOf(l).status = "ready" /\ kind[l] = "content"
    /\ Continues(l, "files")
    /\ UNCHANGED <<bridge, pumps, core, singleton, titleRunVars, published, reported>>

\* The ISO bridge has its core and hands over to handoffXboxIsoBrowser.
IsoBooted(l) ==
    /\ launch[l].at = "boot" /\ CoreOf(l).status = "ready" /\ kind[l] = "iso"
    /\ Continues(l, "files")
    /\ IF Superseded(l) THEN UNCHANGED titleRunVars ELSE NewGuestRun(l)
    /\ UNCHANGED <<bridge, pumps, core, singleton, published, reported>>

\* default.xex cannot be read, or is not one.
FilesFail(l) ==
    /\ launch[l].at = "files"
    /\ Ends(l, "failed")
    /\ UNCHANGED <<bridge, pumps, core, singleton, titleRunVars, published, reported>>

\* The mode of execution is saved and translation without effects begins.
TranslationBegins(l, files) ==
    /\ launch' = [launch EXCEPT ![l].at = "prepare", ![l].prev = CoreOf(l).exec]
    /\ WithCore(l, [CoreOf(l) EXCEPT !.vfs = files, !.exec = 0])
    /\ UNCHANGED titleVars

\* readDirectXex or readStfsDefaultXex, prepareGuestVfs (whose failure is
\* caught), and the beginning of translateOnlyXex.
ContentFiles(l) ==
    /\ launch[l].at = "files" /\ kind[l] = "content"
    /\ \E files \in {l, CoreOf(l).vfs} :
        IF Superseded(l)
        THEN Ends(l, "returned") /\ WithCore(l, [CoreOf(l) EXCEPT !.vfs = files])
        ELSE TranslationBegins(l, files)
    /\ UNCHANGED <<bridge, pumps, singleton, titleRunVars, published, reported>>

\* handoffXboxIso: the disc is mounted, read and registered.
IsoFiles(l) ==
    /\ launch[l].at = "files" /\ kind[l] = "iso"
    /\ \E files \in {l, CoreOf(l).vfs} : TranslationBegins(l, files)
    /\ UNCHANGED <<bridge, pumps, singleton, titleRunVars, published, reported>>

-----------------------------------------------------------------------------
(* The handoff.                                                            *)

\* The finally clause around the handoff.
RestoredMode(l) == [CoreOf(l) EXCEPT !.exec = launch[l].prev]

\* handoffDefaultXex after the image is prepared: kernel objects, threads and
\* fibers of whoever was there are cleared and the image takes their place.
Boots(record, l) == [record EXCEPT !.title = l, !.thread = 0, !.fibers = 0]

\* prepareRetailXexImage or a check before the core is touched fails.
PrepareFails(l) ==
    /\ launch[l].at \in {"prepare", "hirPrepare"}
    /\ WithCore(l, RestoredMode(l))
    /\ Ends(l, "failed")
    /\ UNCHANGED <<bridge, pumps, singleton, titleRunVars, published, reported>>

\* Translation fails, or was no translation: the core was told to execute.
TranslationFails(l) ==
    /\ launch[l].at = "prepare"
    /\ WithCore(l, Boots(RestoredMode(l), l))
    /\ Ends(l, "failed")
    /\ UNCHANGED <<bridge, pumps, singleton, titleRunVars, published, reported>>

\* The core traps while a launch of l calls it.  The content bridge stops the
\* active scheduler as well, whoever's it is.
LaunchTraps(l) ==
    /\ launch[l].at \in {"prepare", "hir"} \/ (launch[l].at = "pump" /\ kind[l] = "content")
    /\ WithCore(l, [(IF launch[l].at = "pump" THEN CoreOf(l) ELSE RestoredMode(l)) EXCEPT
                        !.fibers = 0])
    /\ Ends(l, "failed")
    /\ TrapReported(l)
    /\ IF kind[l] = "content"
       THEN /\ pumps' = ActiveStopped("content")
            /\ bridge' = [bridge EXCEPT !["content"].scheduler = 0]
       ELSE UNCHANGED <<pumps, bridge>>
    /\ UNCHANGED <<titleRunVars, published>>

\* handoffDefaultXex has translated the entry.
Translated(l) ==
    /\ launch[l].at = "prepare" /\ CoreOf(l).exec = 0
    /\ UNCHANGED <<bridge, pumps, singleton, titleRunVars, published, reported>>

\* The content bridge goes on to create a session.
ContentTranslated(l) ==
    /\ Translated(l) /\ kind[l] = "content"
    /\ WithCore(l, Boots(RestoredMode(l), l))
    /\ Continues(l, "session")

\* The core is made to execute and the handoff runs again.
CompatibilityBegins(l, record) ==
    /\ WithCore(l, [record EXCEPT !.exec = 1])
    /\ launch' = [launch EXCEPT ![l].at = "hirPrepare", ![l].prev = record.exec]
    /\ UNCHANGED titleVars

\* handoffXboxIso goes on to the generated code, or without it to the executor.
IsoTranslated(l) ==
    /\ Translated(l) /\ kind[l] = "iso"
    /\ \/ WithCore(l, Boots(RestoredMode(l), l)) /\ Goes(l, "session")
       \/ CompatibilityBegins(l, Boots(RestoredMode(l), l))

-----------------------------------------------------------------------------
(* Generated code: a session, a scheduler and its first pump.              *)

\* The kernel is reset and the primary thread created.
Attached(l) == [CoreOf(l) EXCEPT !.thread = l, !.fibers = 0]

\* attachScheduler of the content bridge.
ContentAttach(l) ==
    /\ launch[l].at = "session" /\ kind[l] = "content"
    /\ WithCore(l, Attached(l))
    /\ Goes(l, "pump")
    /\ UNCHANGED <<bridge, pumps, singleton, titleRunVars, published, reported>>

\* No generated function: executeNativeHirCompatibility.
ContentCompatibility(l) ==
    /\ launch[l].at = "session" /\ kind[l] = "content"
    /\ CompatibilityBegins(l, [CoreOf(l) EXCEPT !.thread = 0])
    /\ NewGuestRun(l)
    /\ UNCHANGED <<bridge, pumps, singleton, published, reported>>

\* handoffXboxIsoBrowser's own session and scheduler.
IsoAttach(l) ==
    /\ launch[l].at = "session" /\ kind[l] = "iso"
    /\ WithCore(l, Attached(l))
    /\ Goes(l, "pump")
    /\ UNCHANGED <<bridge, pumps, singleton, titleRunVars, published, reported>>

\* The first slice ran.
FirstPump(l) ==
    /\ launch[l].at = "pump"
    /\ IF Superseded(l)
       THEN Ends(l, "returned")
       ELSE /\ launch' = [launch EXCEPT ![l].at = "inspect", ![l].driven = TRUE]
            /\ UNCHANGED titleVars
    /\ UNCHANGED <<bridge, pumps, core, singleton, titleRunVars, published, reported>>

\* The first slice threw: the content bridge gives up.
ContentPumpFails(l) ==
    /\ launch[l].at = "pump" /\ kind[l] = "content"
    /\ Ends(l, "failed")
    /\ UNCHANGED <<bridge, pumps, core, singleton, titleRunVars, published, reported>>

\* handoffXboxIsoBrowser catches what the first slice throws, a trap of the
\* core too, and reports it as a blocker.
IsoPumpFails(l) ==
    /\ launch[l].at = "pump" /\ kind[l] = "iso"
    /\ IF Superseded(l)
       THEN Ends(l, "returned")
       ELSE /\ launch' = [launch EXCEPT ![l].at = "inspect", ![l].blocked = TRUE]
            /\ UNCHANGED titleVars
    /\ UNCHANGED <<bridge, pumps, core, singleton, titleRunVars, published, reported>>

-----------------------------------------------------------------------------
(* The native executor, in slices, with the fibers of the title's threads. *)

\* handoffDefaultXex again, with a main thread; runWithGuestFibers begins.
HirBegins(l) ==
    /\ launch[l].at = "hirPrepare"
    /\ WithCore(l, [Boots(CoreOf(l), l) EXCEPT !.thread = l, !.fibers = l])
    /\ Goes(l, "hir")
    /\ UNCHANGED <<bridge, pumps, singleton, titleRunVars, published, reported>>

\* The run is over, by itself, at a boundary or because it was told to stop.
HirEnds(l) ==
    /\ launch[l].at = "hir"
    /\ WithCore(l, [RestoredMode(l) EXCEPT !.fibers = 0])
    /\ Continues(l, "inspect")
    /\ UNCHANGED <<bridge, pumps, singleton, titleRunVars, published, reported>>

\* The driver finds no switch target, as another run has reset the fibers.
HirLost(l) ==
    /\ launch[l].at = "hir" /\ CoreOf(l).fibers # l /\ l \notin aborted
    /\ WithCore(l, [RestoredMode(l) EXCEPT !.fibers = 0])
    /\ Ends(l, "failed")
    /\ UNCHANGED <<bridge, pumps, singleton, titleRunVars, published, reported>>

\* runWithGuestVfsRetries gives up after so many.
MayFetch(l) == launch[l].fetches < MaxFetches

\* The title waits for bytes of a file, which are fetched.
FileWanted(l) ==
    /\ launch[l].at = "hir" /\ l \notin aborted /\ MayFetch(l)
    /\ WithCore(l, [CoreOf(l) EXCEPT !.fibers = 0])
    /\ launch' = [launch EXCEPT ![l].at = "fetch", ![l].fetches = @ + 1]
    /\ UNCHANGED <<titleVars, bridge, pumps, singleton, titleRunVars, published, reported>>

\* The bytes are there and the boot runs again.  The content bridge makes new
\* options for it, the ISO bridge keeps those it has.
FileFetched(l) ==
    /\ launch[l].at = "fetch"
    /\ Goes(l, "hirPrepare")
    /\ IF kind[l] = "content" THEN NewGuestRun(l) ELSE UNCHANGED titleRunVars
    /\ UNCHANGED <<bridge, pumps, core, singleton, published, reported>>

-----------------------------------------------------------------------------
(* The published title and its pumps.                                      *)

\* After inspectRuntime nobody looks whether the launch is still wanted.
Publishes(l, drives) ==
    /\ Ends(l, "done")
    /\ published' = l
    /\ IF drives
       THEN /\ bridge' = [bridge EXCEPT ![kind[l]].scheduler = l]
            /\ pumps' = [pumps EXCEPT ![l].running = TRUE]
       ELSE UNCHANGED <<bridge, pumps>>

\* publish and driveScheduler of the content bridge.
ContentDrives(l) ==
    /\ launch[l].at = "inspect" /\ kind[l] = "content"
    /\ Publishes(l, launch[l].driven)
    /\ UNCHANGED <<core, singleton, titleRunVars, reported>>

\* publishModernDebug and driveRemainingTitleThreads of the ISO bridge.
IsoDrives(l) ==
    /\ launch[l].at = "inspect" /\ kind[l] = "iso"
    /\ Publishes(l, launch[l].driven /\ ~launch[l].blocked)
    /\ UNCHANGED <<core, singleton, titleRunVars, reported>>

\* A pump of runLoop has begun: the slice waits for modules to compile.
PumpBegins(l) ==
    /\ pumps[l].running /\ ~pumps[l].pumping
    /\ pumps' = [pumps EXCEPT ![l].pumping = TRUE]
    /\ UNCHANGED <<titleVars, launch, bridge, core, singleton, titleRunVars, published, reported>>

FaultyRunsOn(l) == TRUE

\* onPump: a superseded title is stopped after its pump.
RunsOn(l) == ~Superseded(l)

\* The pump is over and the title is published again.
TitlePumpEnds(l) ==
    /\ pumps[l].pumping
    /\ pumps' = [pumps EXCEPT ![l] = [running |-> @.running /\ RunsOn(l), pumping |-> FALSE]]
    /\ published' = IF Superseded(l) THEN published ELSE l
    /\ UNCHANGED <<titleVars, launch, bridge, core, singleton, titleRunVars, reported>>

\* No thread is runnable, or the slice ended in a blocker.
PumpStops(l) ==
    /\ pumps[l].pumping
    /\ pumps' = [pumps EXCEPT ![l] = [running |-> FALSE, pumping |-> FALSE]]
    /\ published' = l
    /\ UNCHANGED <<titleVars, launch, bridge, core, singleton, titleRunVars, reported>>

\* onError of the content bridge: a trap is reported.
ContentPumpTraps(l) ==
    /\ pumps[l].pumping /\ kind[l] = "content"
    /\ pumps' = [pumps EXCEPT ![l] = [running |-> FALSE, pumping |-> FALSE]]
    /\ published' = l
    /\ TrapReported(l)
    /\ UNCHANGED <<titleVars, launch, bridge, core, titleRunVars>>

\* onError of the ISO bridge makes it a blocker.
IsoPumpTraps(l) ==
    /\ pumps[l].pumping /\ kind[l] = "iso"
    /\ pumps' = [pumps EXCEPT ![l] = [running |-> FALSE, pumping |-> FALSE]]
    /\ published' = l
    /\ UNCHANGED <<titleVars, launch, bridge, core, singleton, titleRunVars, reported>>

-----------------------------------------------------------------------------

LaunchStep(l) ==
    \/ BootFails(l) \/ ContentBooted(l) \/ IsoBooted(l)
    \/ FilesFail(l) \/ ContentFiles(l) \/ IsoFiles(l)
    \/ PrepareFails(l) \/ TranslationFails(l) \/ LaunchTraps(l)
    \/ ContentTranslated(l) \/ IsoTranslated(l)
    \/ ContentAttach(l) \/ ContentCompatibility(l) \/ IsoAttach(l)
    \/ FirstPump(l) \/ ContentPumpFails(l) \/ IsoPumpFails(l)
    \/ HirBegins(l) \/ HirEnds(l) \/ HirLost(l) \/ FileWanted(l) \/ FileFetched(l)
    \/ ContentDrives(l) \/ IsoDrives(l)

PumpStep(l) ==
    \/ PumpBegins(l) \/ TitlePumpEnds(l) \/ PumpStops(l)
    \/ ContentPumpTraps(l) \/ IsoPumpTraps(l)

LaunchNext ==
    \/ \E l \in Launches : StartLaunch(l) \/ LaunchStep(l) \/ PumpStep(l)
    \/ Leave
    \/ \E c \in Cores : LoadEnds(c)

LaunchSpec == LaunchInit /\ [][LaunchNext]_launchVars

-----------------------------------------------------------------------------
(* Properties                                                              *)

InMode(l) == launch[l].at \in {"prepare", "hirPrepare", "hir", "fetch"}

\* Whatever way a launch ends, the core is in the mode of execution it was in
\* before, if the player let every launch and pump end first (the finally
\* clauses around the handoff save and restore the mode across awaits).
ModeRestored ==
    ~hurried =>
        \A c \in Cores :
            (\A l \in Launches : InMode(l) => launch[l].core # c) => core[c].exec = 1

\* A title whose scheduler runs finds its own image and its own primary thread
\* in the core, if the player let every launch and pump end first (stopTitle,
\* stopActive and the schedulers of both bridges over one core).
OwnTitleRuns ==
    ~hurried =>
        \A l \in Launches : pumps[l].running => CoreOf(l).title = l /\ CoreOf(l).thread = l

\* A core whose trap a bridge has reported is not what the next launch gets
\* (discardRender360Bootstrap).
ReportedIsDiscarded == singleton \notin reported

\* A title whose bridge has started another stops being pumped, even when the
\* new launch could not stop it: onPump and onError look for that.
SupersededStops ==
    \A l \in Launches : [](Superseded(l) => <>(~pumps[l].running))

\* Launches hand the core on as the next one needs it.
LaunchesShareTheCore ==
    /\ LaunchTypeOK
    /\ ModeRestored
    /\ OwnTitleRuns
    /\ ReportedIsDiscarded
=============================================================================
