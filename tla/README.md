# Render360 in TLA+

Render360 runs Xbox 360 titles in a browser (WebAssembly) and as a native
application.  The guest's PowerPC code is translated to HIR and then to
WebAssembly, and executed on one host thread; a kernel written in C++ serves the
title's system calls; a graphics back end replays the title's command ring on
WebGPU or in software.  Around it, a page keeps a library of games, launches
them, and runs PC games that were recompiled to WebAssembly.

This directory models the parts of it where the order of events decides whether
the program is right, and the pure computations whose boundary cases decide it.
Paths below are relative to the repository's `src/`; `bootstrap/` abbreviates
`src/xenia_web_bootstrap/`.

## Inventory

| Part | Source | State it keeps | What is hard about it |
| --- | --- | --- | --- |
| guest-thread registry | `bootstrap/kernel_runtime_foundation.cpp` | thread slots, generations, current thread, cursor, TLS | handles that outlive their threads; two threads believing they run |
| guest-fiber scheduler, driver loop | `bootstrap/guest_fibers.cpp`, `render360-guest-fibers.mjs` | fibers, target, quantum, guest clock | starvation, lost or stale wake-ups, idling, suspension at any moment |
| kernel waits, dispatcher objects | `bootstrap/kernel_xboxkrnl_services.cpp` 449-1159, 3130-3430, 4290-4404, 5695-5759 | objects in guest memory; `g_status` and the caller's registers, both global | retried calls, state read before and used after a switch |
| guest files, saved content | same file, 1467-2500, 4900-5150; `render360-guest-vfs.mjs` | table of entries and its index, links, devices, handles | deletion renumbers what handles refer to; reads that wait for the host |
| kernel calls, variables, trace | `bootstrap/kernel_import_probe.cpp`, `render360-title-controller.mjs`, `v74-kernel-trace.mjs` | ring of calls; one page of variables laid out by hand | results written through old pointers; overlapping words |
| translation cache, guest JIT | `bootstrap/probe_backend.cpp`, `hir_wasm_jit.cpp`, `render360-guest-jit.mjs` | translations, compiled code, memo, pins | stale code, eviction of what runs, compilers that answer late |
| Xenos command ring | `bootstrap/title_gpu_runtime.cpp`, `render360-title-gpu-traffic.mjs` | ring pointers, stall point | stalls that resume, page and core reading one ring |
| WebGPU back end | `render360-webgpu-backend.mjs` | encoder, rings, staging, EDRAM tiles, targets, bind groups | what is overwritten or destroyed before it is submitted |
| shaders, resolves, frame output, pacing | `render360-webgpu-*.mjs`, `render360-xenos-shader-runtime.mjs`, `render360-title-frontbuffer.mjs`, `render360-performance-policy.mjs`, `render360-perf-overlay.mjs` | caches, two canvases, samples | one buffer read across awaits, stale pictures, hysteresis |
| title image, sources | `retail-xex-*-pipeline.mjs`, `render360-xdvdfs.mjs`, `render360-stfs-browser-extractor.mjs`, `render360-streaming-source.mjs`, `wasm-core.js` | chunk cursors, block cache, requests | chunk borders, cyclic tables, what the last title left behind |
| PPC session, browser thread scheduler | `render360-browser-ppc-session.mjs`, `render360-browser-thread-scheduler.mjs` | modules, continuation slots, context snapshots, run flags | awaits between reading and using a flag or a context |
| launch bridges | `render360-browser-modern-*-bridge.mjs`, `render360-browser-title-runtime.mjs` | the one core, its execution mode, the current launch | overlapping launches, traps, a launch that goes on after it was superseded |
| PC games | `runtime/`, `storage/pc-persistent-storage.js`, `recompiled/pc/portal/source-wasm/` | session, worker, pad, saved copy, mounts | a worker that never answers, a tab closed halfway |
| page: library, storage, settings, service worker, pool | `app.js`, `library/`, `storage/`, `settings/`, `render360-sw.js`, `render360-web-worker-pool.mjs` | records, views, caches, jobs | views drawn across awaits, deploys, crossing messages |
| browser features | `render360-browser-features.mjs` | wake lock, registration, full screen | requests answered after the player moved on |
| developer console, diagnosis | `developer-console.js`, `v74-kernel-trace.mjs` | log, stack history, traced launches | a report that names the wrong cause |
| object table, pool, virtual memory | `bootstrap/kernel_xboxkrnl_services.cpp` 539-931, 3539-3593; `sparse_guest_memory.cpp` | slots, counts, free lists, pages | not modelled |
| audio, XMA, XAM dialogs | `bootstrap/kernel_xboxkrnl_services.cpp` 5448-5493, 5761-5920, 6157-6176 | frame queues, the pending message box | not modelled |
| PPC and HIR semantics, XEX decoding, pixel work, native shell, tools | `bootstrap/hir_*.cpp`, `xex_*.cpp`, `xenos_soft_*.cpp`, `native/`, `tools/` | none that events order | not modelled |

They interact like this.  The page launches a title through one of the bridges:
the image is prepared, import slots are registered and the primary thread made
in the one WebAssembly core, which then runs in slices.  A title's call reaches
`TryBuiltInKernelService`, which records the caller and calls
`DispatchExtendedKernelService`.  That dispatches the service; a service that
would block sets `g_status`, and the dispatcher leaves for another fiber
(`GuestFiberYield`), which unwinds to the driver loop in JavaScript.  The driver
applies the switch (`r360_fiber_prepare`) and starts or rewinds the target.  Which
threads may be targets is asked of the registry (`r360_guest_thread_runnable_list`).
Every successful call, and every answer of the host, notes progress, which makes
all blocked fibers eligible again: they dispatch their calls once more.  Without
fibers, `render360-browser-thread-scheduler.mjs` runs the threads in slices over
one PPC session.  Code is found in the translation cache, files in the table of
content, GPU commands leave through the ring; after every slice and pump the page
shows what was drawn, and after a stop the console says why.

For each part, what makes it correct:
- registry: one running thread, the one `g_current_thread` names; a handle names
  one thread for ever; TLS is private and starts cleared;
- fibers: one runs; a runnable thread gets its share; a blocked one is looked at
  again when that may help; idling ends; deadlines belong to their calls;
- waits: each call takes effect once, as its own thread; no wakeup is lost; locks
  are held by those who took them;
- files: the index is the table; open content stays; saves go into their own file;
- translation cache: a function runs as the code its pages hold; what runs is
  not freed;
- command ring, back end: commands run once, in order, on the memory, constants
  and targets they were recorded with; the newest frame is seen;
- launches: a title runs with its own image and thread, the core's mode is given
  back, a trapped core is not used again;
- browser scheduler: a slice finds its own thread's context and continuation;
- page: a game is given its own files and plays what it shows; settings and
  screens end as the player left them;
- object table, memory, audio: objects live while referred to, allocations are
  disjoint and come back, queues are bounded (not modelled).

## Modules

### Threads and kernel

**ThreadRegistry** has one action per operation of the registry: `CreateThread`,
`RegisterExternalThread`, `SetCurrentThread`, `SuspendThread`, `ResumeThread`,
`TerminateThread`, `NextRunnable`, `TlsAlloc`, `TlsFree`, `TlsSet`, `Reset`.  Each
field of `GuestThread` that control depends on is a function on the slots; a
handle is a pair of slot and generation.  `retired` and `written` are history
variables.  Operations that fail change nothing and are stuttering.

**FiberScheduler** models `guest_fibers.cpp` with the driver.  `fibers` is
`g_fibers`; `mode` says whether guest code, an interrupt poll, an exiting thread
or the driver is at work.  `PickTarget` is built as the code is: `Synced`
(adopts and retires), `Lagged` (bounded lag), `LeastRun`, `Raised`.  Its result is
a set with one element, because an action binds it with `\E`.  The paths that
leave a fiber are `WaitBlocks`, `SleepContinues`, `Yield`, `Poll` and `FiberEnds`;
`Prepare` and `Abort` are the driver's.  Time is counted in units of execution
between two polls, and the guest clock is the deterministic one.  Whether a wait
is satisfied is left open (`CallReturns` may fire or not).

**DispatcherObjects** has no state: when a call can complete on events,
semaphores, mutants, critical sections and reader/writer locks, and what it does
to them.  **KernelCalls** is the promise to the title: a call begins, takes effect
atomically as its own thread, returns; a timed wait may return without effect.
**KernelWaits** is the implementation: the dispatcher's retry loop, its global `status`
and `caller`, timed waits that sleep inside the call, interrupts, preemption, idling and
the deadlock report. The ten seconds after which a deadlock is reported run from the
first time the call idles, whoever runs or sleeps in between, so the model reports one
whenever no other fiber can run. The end of a timed wait that the dispatcher overlooks,
because another thread's block is still in `status`, takes two steps as in the code:
`TimedCompletesUnseen` consumes the signal, and `UnseenBlocks` records the retry.
`Pending` is the refinement mapping; `ExactlyOnce` and `UntimedExactlyOnce` state that
KernelWaits implements KernelCalls, the second without a promise for timed waits. Which
eligible fiber runs next is left open there, as FiberScheduler settles it.

**ContentFiles** is the table of files with its index, the devices and the links
to them, handles, and content packages that are created, opened, closed and
deleted.  Entries are numbered as in the code; a deletion compacts the table and
renumbers the index but not the handles.  **CallTrace** is the ring of traced
calls; a call that blocks keeps its entry's place.  **KernelVariables** lays the
exported variables into their page, word by word, and follows import slots to
them; **TitleShims** runs the functions the page puts behind an entry for a core
that is too old, instruction by instruction.  **RingTraffic** is the title's command ring, the native drain with its
stall, and the page's inspection; a word stands for a packet.

**TranslationCache** holds main and evicted entries, the memo, pins, tiers and
slots of compiled code; guest fibers call, return, block and are abandoned, the
title rewrites its pages, a compiler answers late, and the next title starts.
What an eviction takes is written as the set of its victims; the code's loop takes
the same ones, one by one.

### The page's executor

**PpcSession** is the session's module cache and continuation slots, and
**GuestThreadScheduler** the slices over it: each loop is a process whose steps end
where the code awaits (`SliceStart`, `LoadFunction`, `SliceRun`, `SliceEnds`).
`lastRun` records what the last slice found, for the properties.  Functions are
translated before the session starts and never during it: code that is rewritten
loses its callable module, and the CFG tier's bytes stay.
**TitleImage** goes from the bytes of a `default.xex` to a started title: decryption and
unpacking in chunks, import records, the order in which the core is prepared by boots
that may fail at each step, host reads. **GuestFiles** has the re-run of a boot for each
missing read, the block cache, the directory walk of a disc and the block chains of a
package.
**TitleLaunch** is the player's Play and Leave, both bridges, the shared core, and
its traps; a launch is an async function with a step per await.

### Graphics

**XenosBackend** replays the command stream: each recorded command keeps what it
must read, and the properties compare that with what is there at the submit; a submit
that names a destroyed buffer or texture is rejected as a whole, as WebGPU does.
**XenosFormats** checks the float formats' conversions and the dump's tiling over
bounded inputs.  **GpuFoundation** has shader capture, translation, compilation,
and the resolve targets with their eviction.  **FrameOutput** has the two canvases
and the stream's replay, **FramePacing** the resolution policy and the frame bar.

### PC games and the page

**PortRuntime** has the session of a PC game, its worker, pad, saved copy, archives
and mounts; **PcContent** the folder it is recognised in, and the
sheet that adds or relinks it while records and runtimes are loaded.  **PageLibrary** has stored
copies and links, ZIP64 fields, covers, settings, service worker, worker pool and
the legacy worker; **LibraryView** the grid, the details and the records under
overlapping transactions.  **BrowserFeatures** has wake lock, service worker switch
and full screen.  **FaultFocus** and **DeveloperConsole** have what a report names as
the cause, from what was captured at the stop and what it reads of a core that may
run on or load the next image, the log, and the trace that runs on a timer.

### Compositions and conventions

`PpcSession` is part of `GuestThreadScheduler`; `DispatcherObjects` is part of both
`KernelCalls` and `KernelWaits`.  `MCParts`, `MCWaiting` and `MCCodeAndPage` join
components that share no state: `part` is chosen in the initial state and says which
of them moves, so one run checks each under every order of its own steps, and
nothing is claimed about their interplay.  What does interact is in one module:
fibers and driver, waits and objects, launches with core and pumps, slices with
session, cache with compiler and fibers.

History variables say which cases a property leaves out.  `crossed`
(BrowserFeatures, the grid and the details), `mixed` and `spoiled` (links and
records of the library), `hurried` (launches) and `overtaken` (the call trace)
turn true where two requests overlapped that the code does not tell apart; `lost`
(XenosBackend) when a submit was rejected, `failed` (TitleImage) collects boots whose
image was refused, `since` (FaultFocus) says what the core did after the stop, and
`lastRun.stale` (GuestThreadScheduler) which functions a slice could run rewritten;
the comment at each property names the case.  Operators named
`Faulty...` are plausible errors used to see that a property can fail; nothing in
the specifications uses them.

## Runs

| Run | Module, configuration | Distinct states | Shows |
| --- | --- | --- | --- |
| parts | `MCParts`, `Parts.cfg` | 791,783 | the components that share no state and need no liveness |
| waits | `MCWaiting`, `Waits.cfg` | 281,470 | refinement of KernelCalls, no lost wakeup, holders; worker start of a PC game; launches |
| fiber_sleep | `MCFiberScheduler`, `FiberSleep.cfg` | 792,707 | one fiber, deadlines, suspended threads, successors, fair share, idling ends |
| code_and_page | `MCCodeAndPage`, `CodeAndPage.cfg` | 1,450,746 | reader/writer lock, translation cache, content, library, browser features |
| guest_threads | `MCGuestThreadScheduler`, `GuestThreads.cfg` | 668,408 | contexts and continuations are their own, every thread runs |
| fiber_suspend, fiber_idle, timed_waits, signal_waits, guest_resume, stale_code, stale_file | the other seven | | each ends in a violation, see below |

A property of a run is the conjunction of a module's named parts, so that what
belongs together is checked together; the comment at each part has the claim in
full.

| Property | Module, run | Its parts |
| --- | --- | --- |
| `StatesAgree` | ThreadRegistry, parts | `TypeOK`, `RunningIsCurrent`, `LifecycleCoherent` |
| `NothingOutlivesItsThread` | ThreadRegistry, parts | `RetiredHandlesStayDead`, `TlsValuesAreOwn` |
| `OneMayRun`, `EveryThreadGoesOn` | FiberScheduler, fiber_sleep | `TypeOK`, `OneRunning`, `TargetMayRun`; `FinishFindsTarget`, `EveryThreadHasFiber` |
| `DeadlineIsOwn`, `IdleEndsUnlessOverdue` | FiberScheduler, fiber_sleep | a deadline is its call's; idling ends |
| `FairShare` | FiberScheduler, fiber_sleep | in one turn nobody is passed over for more than the lag and two quanta |
| `TypeOK`, `WaitsAgree` | KernelWaits, waits and code_and_page | `NoLostWakeup`, `NobodyCanRun`, `HoldersAgree` |
| `UntimedExactlyOnce` | KernelWaits, waits | the refinement of KernelCalls |
| `ContentIsKept` | ContentFiles, code_and_page | `IndexIsTheTable`, `OpenContentStays`, `GameIsMounted` |
| `CodeIsCurrent` | TranslationCache, code_and_page | `RunsCurrentCode`, `MemoAgrees`, `PinnedStays`, `CodeIsOfItsTranslation` |
| `TraceIsTrue`, `VariablesAreTheirs`, `RingRunsOnce` | CallTrace, KernelVariables with TitleShims, RingTraffic, parts | `RecentAreLast`, `ResultsAreOwn`; `VariablesKeepTheirs`, `SlotsLeadHome`, `ShimsTellTheRing`; `WordsRunOnce`, `DrainedIsDrained` |
| `ImageIsWhole`, `BootIsClean` | TitleImage, parts | `PreparedIsTheImage`, `RecordsAccounted`, `LoadedImagesReadMapped`; `RunsWithItsOwn`, `ReadsAreRuns`, `CapturedInPlace` |
| `ReadsGetOn`, `TablesAreTrees` | GuestFiles, parts | `RetriesAdvance`, `BlocksReadOnce`; `ListingIsTheTree`, `BlocksAreDistinct`, `TablesAndDataDisjoint` |
| `SlicesAreOwn`, `RunIsAccounted` | GuestThreadScheduler, guest_threads | `TypeOK`, `OnlyCfgIsStale`, `SlotsAreOwn`, `OwnContext`, `OwnContinuation`; `RunningIsDriven`, `CompletedAreDead` |
| `EveryThreadRuns` | GuestThreadScheduler, guest_threads | liveness |
| `LaunchesShareTheCore` | TitleLaunch, waits | `LaunchTypeOK`, `ModeRestored`, `OwnTitleRuns`, `ReportedIsDiscarded` |
| `SupersededStops` | TitleLaunch, waits | liveness |
| `CommandsSeeTheirs` | XenosBackend, parts | `GpuTypeOK`, `CommandsSeeTheirMemory`, `CommandsSeeTheirConstants`, `OnlyGrowthDooms`, `OwnersAreCurrent`, `ContentsAreLoaded`, `GroupsAreCurrent` |
| `WordsComeBack`, `CachesAreTrue` | XenosFormats, GpuFoundation, parts | `ClearedWordsDumpBack`, `DumpsFillTheirTiles`; `ModulesMatchTheirKeys`, `ResolvedTargetLives`, `ResolvesWaitForLiveCompiles` |
| `OutputKeepsUp`, `PacingIsSteady` | FrameOutput, FramePacing, parts | `NewestIsVisible`, `StreamStaysBounded`; `ChangesAreSpaced`, `FramesAreCounted` |
| `SessionIsHeld`, `PlayerFilesAreWhole` | PortRuntime, parts | `FailedPortLeavesNothing`, `HeldIsLive`, `OneSession`, `StopReleasesKeys`; `RestoredIsWhole`, `ResolvedIsFirst`, `OneMount`, `ReserveIsCapped` |
| `EngineStarts` | PortRuntime, waits | `MainFindsItsFiles`, and `EngineWaitEnds`, liveness |
| `FolderIsTheGame` | PcContent, code_and_page | `FilesKeepTheirNames`, `GameIsRecognised`, `GamesAreLinked` |
| `GamesGetTheirOwn`, `PageKeepsUp` | PageLibrary, parts | `LinksAreOwn`, `Zip64InOrder`, `BestCoverFirst`; `ChosenModeKept`, `ServedIsDeployed`, `JobsHaveOnePlace`, `MasksAgree` |
| `LibraryIsTrue` | LibraryView, code_and_page | `GridShowsTheSearch`, `PlaysWhatItShows`, `PlaysAreKept`, `CoversAreOwned` |
| `BrowserFollows` | BrowserFeatures, code_and_page | `ScreenMaySleep`, `SettingIsApplied`, `LandscapeAfterFullscreen` |
| `CauseIsNamed`, `ConsoleIsTrue` | FaultFocus, DeveloperConsole, parts | `FocusIsOfTheStop`, `MissingIsReal`, `ImportIsNamed`; `LogHoldsTheLastRuns`, `DiagnosedOnce` |

### Bounds

The bounds are small but reach the cases that matter; every one is a CONSTANT
with a comment.  Registry: three slots, one reserved, each used at most twice, so
an old handle meets a new thread; no thread is suspended twice while TLS is in use.  Fibers: three (a runner, a candidate, one that is
passed over).  A behaviour takes one of two courses: in one, guest code runs for three
units and delays last two, so that a delay ends during another's run, during idling
and after a suspension; in the other nobody sleeps or suspends, and four units let a
fiber run ahead by several quanta.  Only guest code is held back by the course, so the
host's fairness is that of `FairSpec`.  A wait of the full bound of `FairShare` takes
both suspensions and five units, which TLC finds on a larger instance; for every
instance the bound is proved.  `MaxFibers` is not exceeded:
beyond it `EveryThreadHasFiber` is false of the code because entries of finished
fibers are never reused.  Waits: two threads give every pair of interleaved calls;
three at the lock let a writer meet two readers; recursion of two passes through
every case of the counts.  Slices: two threads, two continuation slots, two
generations of code, so that a slot is handed over and code is rewritten between and
within slices.
Cache: one translation within the budget and two functions, so that every call of
the other evicts; two titles.  Files: two packages and a disc, one root, one link
and one handle.  Back end: two targets, three EDRAM tiles, two slots in each ring
and streams of five commands, so that rings and staging wrap within one stream, and a
target grows while a draw or a copy waits; the fifth comes only if all shaders compiled.
Formats: all words of the 10-bit float, the edges of the 24-bit one.  Image: chunk
borders are placed at every offset of blocks of a few half AES blocks; three boots,
so that one follows a failed one and one that ran.  Diagnosis: rings of three events
and four events, so that one is dropped; the core does not run again after the fourth.  Ring: four
words, six queued, so that it wraps.  Trace: three entries, eight calls.  Launches:
two, on two cores; PC launches: three.  Library: two games, two overlapping calls
and drawings.  Browser: three locks and two toggles of each setting.
Sheet of a PC game: two known games and a new one, two sheets, three choices, so
that one sheet is closed and another opened between a read and its answer.
Shims: three calls, two entries.

### Fairness

Runs without liveness use no fairness.
- `fiber_sleep`, `fiber_idle`: weak fairness of `HostStep`: the host thread keeps
  executing the kernel call that the running fiber is in and the driver's loop.
  Nothing is assumed of the guest's code, which may compute or stop as it likes.
- `guest_threads`: weak fairness of each loop's steps: the browser resolves the
  promises a loop awaits.  The player may pause or stop at any time.
- `waits`: weak fairness of `WaitTimesOut`, a timer of the page, and of each
  launch's `PumpStep`, an interval that the page keeps calling.  A worker, the
  core and the player owe nothing.

In `FiberScheduler` the state with `mode` in `EndModes`, and in `KernelWaits` a
reported deadlock, are where the program stops; the action `Ended` stutters
there.  `parts` does not look for deadlock: in it one-shot computations, such as
the unpacking of an image, come to their end.

## Disagreements between the code and its documents

- `fiber_suspend`: "A suspended thread keeps its fiber" (`guest_fibers.cpp:180`).
  A thread suspended after the scheduler first saw it but before its first
  switch has its fiber marked done; resumed, it never runs.
- `fiber_idle`: "The guest clock moves on" (`guest_fibers.cpp:582`).  A suspended
  sleeper whose deadline passed pins the idle target to the past; with the
  deterministic clock a sleeping thread then idles for ever.
  `IdleEndsUnlessOverdue` shows that this is the only way.
- `timed_waits`: a resuming thread "must not inherit" service state
  (`kernel_xboxkrnl_services.cpp:5925`).  A timed wait satisfied after another
  thread blocked is repeated, and its signal is lost.
- `signal_waits`: "Blocked paths have no side effects"
  (`kernel_xboxkrnl_services.cpp:5716`).  A blocked signal-and-wait signals again on
  every retry.
- `guest_resume`: "The next slice restores that exact state"
  (`render360-browser-ppc-session.mjs:22-26`).  When the set of generated functions
  changed in another thread's slice, all continuation slots are cleared and a
  function that yielded starts again at its entry.  `OwnContinuation` shows that
  it resumes there or exactly.
- `stale_code`: translations are "dropped when the code pages are rewritten"
  (`probe_backend.cpp:323-326`).  An abandoned fiber keeps its pin, a pinned
  translation survives the reset between titles, and page generations start
  again: the next title can be given the previous one's code.  `RunsCurrentCode`
  shows that only such entries are concerned.
- `stale_file`: "Saves last for the session" (`README.md:136`).  After a package is
  deleted, an open handle to a file of another package writes into whatever file
  took its number.

Four more are in the models without a run of their own; the properties say what is
left of the claim:
- "Ten seconds of guest time with no thread able to run is a real deadlock"
  (`kernel_xboxkrnl_services.cpp:5735`).  `idle_started_ns` is set once per call
  (:5702) and neither set back when other threads have run (:5726) nor held off by
  sleepers, so a thread that waits while another one sleeps again and again is
  reported.  `NobodyCanRun` claims that at that moment nobody can go on but by a
  deadline still to come.
- "A taller target replaces the old one; its contents are kept by copying"
  (`render360-webgpu-backend.mjs:275`).  The old texture is destroyed before the copy
  is submitted (:281), so WebGPU rejects the submit, the copy and all that was
  recorded since the last one with it.  `OnlyGrowthDooms` claims that nothing else does.
- Code that was rewritten is to run as rewritten.  The callable module is erased
  (`wasm_backend_call_probe.cpp:544`), but nothing translates the function again during a
  session, so calling it fails closed; the CFG tier's old bytes are filed under the new
  generation (`render360-browser-ppc-session.mjs:187`).  `OnlyCfgIsStale` claims that
  only that one function runs old code.
- "Each handoff is a fresh title boot" (`render360-title-controller.mjs:428`).  Page words
  that were handed over for an image which is then refused
  (`xex_pe_guest_loader.cpp:130-171`) stay, and the next title without words of its own
  is mapped by them.  `RunsWithItsOwn` names the case.

## Proofs

The theorems hold for every value of the constants that satisfies the assumption
named in the component's module, and have no other hypothesis unless one is given
here.  Every safety theorem follows from an inductive invariant with one step per
action; the invariants were checked on the runs before they were proved.
`DataLemmas` has what several proofs need: a set of numbers has a least element,
a function on `1 .. n` is a sequence.

`TitleStartProofs` proves, for every number of slots, TLS indexes, uses and
suspend counts, that the registry's specification implies its five invariants,
and with them `StatesAgree` and `NothingOutlivesItsThread`.
The inductive invariant `Inv` joins them with two facts: `CurrentValid`, the
current handle is `NoHandle` or names a live slot, and `RetiredOrder`, the
generation of a retired handle is at most its slot's, and equals it only while the
slot is terminated or unused.  Without the second, `RetiredHandlesStayDead` is not
inductive: a new thread must be known to get a generation no retired handle has.
That holds by the assumption `RegistryAssumption`, which keeps the number of uses
of a slot below the wrap of the 16-bit generation.  Each action has a step of its
own; helper lemmas say what `NextGeneration` returns.

It also proves `ImageIsWhole` and `BootIsClean` (TitleImage): `TitleSpec` is the
conjunction of the parts' specifications, since they change independently.
- `PrepInv`: what is packed so far is the image the header describes, up to where
  the preparation stands in its block, frame or chunk (`Feeding`); before that
  nothing is packed (`Untouched`), and a body being decrypted is clear up to where
  the decryption stands (`Deciphering`).  An image that is done then has the length
  and the content its file describes, for blocks, frames and chunks of any lengths.
  Nothing is claimed of a preparation that failed.
- `ImportsInv`: the entries found hold each record once, as a value or as the thunk
  of the function before it (`FoundIn`).
- `StartInv`: what a boot has set by each of its stages carries its own number; between
  boots, what is left of page words is of a boot whose image was refused.
  `PreadInv`: what a host read has filled lies within the file.  `RequestsInv`: what
  is captured lies in its place, and what is left is the rest.

Of the files of a title it proves `ContentIsKept` (ContentFiles), for any paths, packages
and links.  `ContentInv` is that the index is the table and holds what its paths go
through (`TableIs`), that every entry is of the disc or of a package there is
(`PackagesAre`), that a mounted root is a link to a device there is (`NamesAre`), and
that handles name paths (`HandlesAre`).  `RegisteredKeeps` and `DeletedKeeps` say what the
table is after an entry was registered with its directories, and after a device's
entries were taken out and the rest numbered again.  The roots titles mount content
under are no names of links they make or delete themselves (`ContentFilesAssumption`):
`DeleteLink` would take the name of a mounted package.

`FiberSchedulerProofs`.  `FiberInv` is the list of fibers as it always is
(`FiberList`: no fiber ran longer than the clock says, the primary thread's is the
first and does not end, no two fibers share a thread, a deadline is that of the
call its fiber sleeps in), which fibers are marked running in each `mode`, and the
ranges of the counts.  `OneMayRun`, `DeadlineIsOwn` and `FinishFindsTarget` follow
for any number of threads, fibers, quanta and lags.  `EveryThreadGoesOn` has the
hypothesis `RoomForAll`, `NumSlots * MaxGen < MaxFibers`: entries of the table are
never reused, so a title that creates more threads than `kMaxFibers`, 32
(`guest_fibers.cpp:68`), leaves one without a fiber; the hypothesis bounds all
threads ever created by it.  The proof counts the distinct handles in the list.

`FairShare` has an invariant of its own, `TurnInv`.  A fiber that could run has not
waited longer than the current quantum has used (`QuantumInv` bounds that); or it was
a candidate of the preempting choice at the last quantum's end (`PolledInv`), which
left its count neither below that of the running fiber nor above it by more than the
lag; since then the running fiber's count has grown with the wait (`WaitedInv`).
`PickStays` is what a choice that names nobody says of every candidate.  The theorem
is about one turn, however the page slices it.  Over several turns nothing of the
kind holds of the model: a turn may take no unit, and with four fibers two that wake
each other bring the count of a third one down as often as they please (TLC finds a
fourth waiting for as long as the clock goes).

`KernelWaitsProofs`.  `KernelInv` joins the types, the course of a call
(`FlowInv`: what `at`, `caller` and the call of each thread say of each other),
what each thread may hold (`AllowedInv`) and `HeldInv`: owner, depth and counts of
every object are those of its holders.  `WakeInv` adds that nobody is blocked
whose call can complete unless it is to be tried again.  The hypotheses exclude
what the code gets wrong, and no more:
- `NoSignalAndWait` (all of `WaitsAgree`, and the refinement): a signal-and-wait
  signals at every retry (run `signal_waits`), and progress is noted only when it
  succeeds (`kernel_xboxkrnl_services.cpp:5752`), so nobody is woken by its signal.
  For `HoldersAgree` alone, `SignalsNoMutant` is enough.
- `TimedNotOnMutants` (`TypeOK`, `HoldersAgree`): a timed wait goes on in the name
  of whoever called last (`g_caller_r13`, :1125), and a mutant it takes is then
  recorded as that thread's (:998).
- `TimedOnEvents` (`WaitsAgree`): a timed wait that was overlooked (run
  `timed_waits`) leaves an object that is not an auto-reset event signalled.

The refinement `UntimedExactlyOnceHolds` has only the first: every step of the
dispatcher is a step of KernelCalls or a stutter, for all threads, objects and
calls, timed ones included.  The abstraction is the lenient one, in which a timed wait may
take effect more than once.

`GuestThreadSchedulerProofs`.  `SchedulerInv` says for each loop what the slice it
is in may rely on (`SliceInv`, `RefreshInv`), that one loop drives the threads, whose
context a snapshot is (`SnapshotInv`), whose slot and which code a continuation is
(`ContinuationInv`), and that the counts are those of dead threads.
`SlicesAreOwn` and `RunIsAccounted` follow if `RestartAnytime` is false, that is,
if no loop is started while an old one is on its way out.  Each launch makes a
scheduler of its own and starts it once
(`render360-browser-modern-iso-bridge.mjs:237`,
`render360-browser-modern-content-bridge.mjs:244`); with two loops over one
scheduler TLC finds both violated.

`TranslationCacheProofs`.  `TranslationInv` is `RunsCurrentCode` with what makes it
inductive: an entry has the code its pages held at its generation, or is kept by
an abandoned fiber (`EntriesInv`); the memo names an entry that is present and of
the current generation (`MemoInv`); a pending compilation belongs to the entry
that asked for it (`PendingInv`); and pins count the calls in progress
(`PinsInv`).  The proof uses nothing of the order in which translations are evicted,
only that none is pinned.

`RunningTitleProofs` has the components around a running title, each with an
invariant of its own.
- `RingInv`: between the read pointer and the tail lie the queued words that have
  not run, in order (`RingHolds`), and what ran is what was consumed (`HasRun`);
  both are claimed until the core refuses a word.  Wrap-around is one lemma about
  `%`, and `PlaceAfter`.
- `TraceInv`: cells hold the last calls by number modulo the ring (`CellsInv`), and
  what a fiber points to is the cell of its call until the ring has turned
  (`PointersInv`).
- `FoundationInv`: captured, compiled and cached shaders agree by key, targets that
  are kept or just handed out live, and a resolve waits only for a compilation that
  can still succeed (`ShadersInv`, `TargetsInv`, `PipelineInv`).
- `BackendInv`: the next command would see in shared memory what the stream has put
  there, until a submit is lost, and every copy that waits still finds its slot
  (`SeesIn`); what commands read in the rings lies below the write position (`RingsIn`);
  a scratch buffer that was replaced is smaller than the one in use, and what is
  destroyed while a recorded command names it was replaced by the growing of a target
  recorded later (`ScratchIn`); the tiles are owned by targets of the height their
  object says (`TilesIn`), targets drawn to keep their contents (`PaintIn`), and the
  groups show what a draw would bind now (`GroupsIn`).  Uploads, submits, dispatches
  and passes are functions on a back end, so each has one lemma, whatever operation
  calls it; between the growing of a target and the pass that takes its tiles the
  targets that grew are named (`grown`).
- `OutputInv`: what is recorded, what the presenter has and which canvas is on top
  (`RecordingInv`, `PresenterInv`, `ShownInv`).
- `FocusInv`: what the first report of a stop named is what any later one would, until
  the core runs again; after that, what any later one would but for causes in a zero
  register, until another image is loaded. For the frames of the stack, `HistoryInv`
  says that, until the ring has turned, a live frame holds what the writes since the
  newest call into it have allocated (`FramesInv`).
- `ConsoleInv`: the log shows the last runs of equal messages, each with its count
  (`LogInv`); a result is published and traced at most once (`TracesInv`).
- `PolicyInv` and `StatsInv`: how far the counts of good samples and the samples
  kept go back.

`PageProofs` has what the page keeps to.  It proves, for every bound on the
requests and the changes, the three properties of BrowserFeatures, together `BrowserFollows`.  `ScreenMaySleep` and `SettingIsApplied`
speak of moments when every request is answered; they are not inductive because
they say nothing of the moments in between.  `FeaturesInv` adds what an exchange
leaves behind while it is under way: `LockOf`, one lock at most is asked for or
held, the page knows the one that is held, and out of a game what is held is
being released; and `WorkerOf`, at most one change is under way and it is the one
the player made last.  Both are claimed only until requests cross, and the lemmas
about `Acquire`, `Release` and the answers say that crossing is never forgotten
before the page is hidden.  The type, the lock and the worker are joined in one
invariant since an answer acts on what the page has recorded of both.

It also proves `LaunchesShareTheCore`, for any number of launches, cores and
fetches.  `LaunchInv` has three parts.  `CoresInv` and `ReportedIsDiscarded` hold
whatever overlaps: a core whose trap was reported is never handed out again, since
every step of a launch that runs the core records its trap and discards it.
`CalmInv` holds until the player leaves a launch in progress, or starts one while a
pump has yet to end (`hurried`): one launch is in progress, or one title is pumped and the
page shows it.  `Fits` says what a launch relies on at each of its awaits: the mode
it restores is that of execution, and from its first attachment on the core has
its title, later its thread.  Without `Fits`, `ModeRestored` and `OwnTitleRuns` are not
inductive: they say nothing of a launch between the steps that set and reset.

Of a PC game it proves `SessionIsHeld` and `PlayerFilesAreWhole`, and `MainFindsItsFiles`,
the safety part of `EngineStarts`.  The parts change independently, so each has a
specification of its own and `PortSpec` is their conjunction.  `HoldInv` adds that a launch
that has not begun has nothing either, and that the one held is the only session
while none was displaced; `SavedInv` that a copy under way has no metadata and that
what it has written is of one version; `EngineInv` that a worker is told to initialize
once and to run only after it answered.

Of the page it proves `GamesGetTheirOwn` and `PageKeepsUp` (PageLibrary), again part
by part, with `PageSpec` as the conjunction:
- `ShelfOwn`: a job that copies a file of a game copies it under a name of that game,
  and one that opens a copy has found the game's own file in it (`JobIsOwn`); each
  copy holds the game its name is made of (`FilesAreOwn`); records and sources are
  claimed until a link was begun while another was saved.  Two names are the same
  only if their games are (`NamesApart`).
- `PlacesIn`: an idle worker is idle once and has no job, a queued job is in the queue
  once or with one worker, and has not been settled.  It is claimed until the pool is
  closed; the workers have distinct names (`PoolAssumption`).
- `DeploysInv`, `HostInv`, `CoverInv`, `PrefsInv`, `ZipInv`: a request is not newer than
  what is deployed, and an answer of the network to a request of the worker's own is
  what is deployed (`AnswerKeeps`); a page preloaded by the browser may be older; the
  last mask in the channel is the one sent last; a source of covers is asked after the
  better ones have failed; stored and live mode stay the chosen one; an entry is what
  its fields and its extra field say, value by value (`ValuesInOrder`).

Of the files of a game it proves `ReadsGetOn` and `TablesAreTrees` (GuestFiles), with
`FilesSpec` as the conjunction of the parts:
- `BootInv`: until the cache is dropped, each read before the one the guest stopped
  at is covered, so a boot that is repeated stops later than before.  `RangeInv`: what is
  pending is on its way once; the cache holds at most the blocks it may.
- `TreeInv`: below what is listed is only what is listed, what waits on the stack, and
  the end of the table.  `ChainInv`: the blocks visited and those left make up the
  file.  That the hash tables of STFS lie between the data, and none on a block,
  is arithmetic over all blocks below 170^3, not only the sample the run takes.

`LibraryInv` (LibraryView) is about the calls that overlap on the database.  `GameIsKept`
says of each game that is not `spoiled` that a single call that writes is on it, that
what the call has read is what is stored, that what it will write keeps the last
play, and that a stored cover is the record's or about to be; `DetailFits` says that
the details about to be shown are those of the game the page holds.  `PlaysAreKept`
and `CoversAreOwned` are not inductive without it: they do not see the copy of a
record that a call carries from one transaction to the next.  `GridInv` is the grid's
part: the tiles and what one drawing has left are together what matches
(`DrawsTheSearch`), until a drawing begins while another waits for a cover.

Model-checked only:
- liveness (`EveryThreadRuns`, `EngineWaitEnds`, `SupersededStops`,
  `IdleEndsUnlessOverdue`), which the provers do not reach;
- `WordsComeBack`: a float is rounded with a logarithm that is chosen and powers that are
  computed recursively, and a tile is a set of pixels; the run computes all words it tries;
- `VariablesAreTheirs`: bitwise operations, which the provers do not have, and folds
  over the code of the images;
- `FolderIsTheGame`: it filters sequences with operators of the library that the
  provers do not know.

## Not modelled

- Kernel object table, pool, guest virtual memory, audio clients, XMA, XAM
  notifications and dialogs, timers, waits for threads, spin locks.
- Fibers: the native baton (`guest_fibers.cpp` 283-428), nested interrupts,
  Asyncify buffers and memory exhaustion, threads that exit while they hold
  something, a suspended primary thread, sleeps beyond the ten-second idle limit.
- Files: enumeration of directories, the data that is read, times and sizes, links
  to anything but the disc.  Folder handles occur only in `stale_file`.
- Ring: packets and their effects, a poll that resumes inside an indirect buffer,
  interrupts.  Trace: the decoding of arguments.  The diagnosis of
  `HalReturnToFirmware` is modelled as the code has it: it needs a core that does
  not implement that call, which the built core does.
- Image: optional header fields, TLS directory and entry point, LZX itself.
- Back end: pipelines' fixed-function state and shader text, lost devices beyond
  what GpuFoundation has, and what a page shows after WebGPU rejected a submit.
- PowerPC and HIR semantics, code generation, XEX decoding in C++, software and
  native rendering, layout of the page, the native and iOS shells, build overlays
  and tools: transformation of data or presentation, without an order of events.

### Cases no property covers

The code is exposed to these too.  Modelled, but promised by nothing: the 16-bit
generation of a handle wraps (`kernel_runtime_foundation.cpp:236`, an assumption
of the proof); a pulsed event releases no blocked thread
(`kernel_xboxkrnl_services.cpp:3141`); a signal-and-wait wakes nobody with its
signal while it blocks (:5752); readers can keep a writer out for ever
(:4384); CREATE_ALWAYS on an open root deletes the package before the open fails
(:5069); continuation slots run out until the functions are refreshed
(`render360-browser-ppc-session.mjs:160`); a trap in an ISO title's first slice
leaves its core in use (`render360-browser-title-runtime.mjs:264`); a stop asked
while a boot is repeated is lost (`render360-browser-modern-content-bridge.mjs:136`);
a worker that timed out stays (`portal-package-adapter.mjs:47`); every Play asks for
two wake locks (`render360-browser-features.mjs:300`, the flag `crossed`); a browser
that refuses to remove a copy leaves files of two installations mixed
(`pc-persistent-storage.js:64`); the sheet of a PC game adds it twice when it is
asked twice, closes a sheet opened meanwhile, and names in the record the runtime
chosen last, not the one it bound (`pc-recompiled-ui.js:156`); a navigation preload
brings the page of an earlier build and keeps it, or fails and never comes to the
cached page (`render360-sw.js:65`); a report of an old stop reads the instruction, the
registers and the owners of the calls from a core that has loaded the next image
(`developer-console.js:219`); clearing the stored games overwrites the records of games
removed or relinked meanwhile (`ui-behavior.js:46`).

Not in the models: a timed wait that resumes in another caller's name takes a mutant for
it (`kernel_xboxkrnl_services.cpp:1128`; the runs use timed waits on events, the proofs
assume it); a timer that falls due is signalled only when someone polls it (:1005); a
failed mapping loses a pool block (:603); a directory enumeration goes on by number over
a table that moved (:3959); functions of more than two pages are checked for a rewrite
at their first and last page only (`probe_backend.cpp:495`), and a callable module is
erased only when the page of its entry is written (`wasm_backend_call_probe.cpp:547`); a
compile that throws before there is a promise (`render360-webgpu-runtime.mjs:32`); a
library database that failed to open stays failed (`game-library.js:9`).

## Plan

1. `ObjectTable`: slots, handle and pointer counts, names, closing while waiting.
2. Timers and thread objects in DispatcherObjects; exits while holding.
3. `KernelPool` and guest virtual memory: disjointness and conservation.
4. `NativeBaton` and nested interrupts; audio queues; the message box handshake.
5. Enumeration and truncation in ContentFiles.

Theorems worth proving next: `FolderIsTheGame`; disjointness in KernelPool.
