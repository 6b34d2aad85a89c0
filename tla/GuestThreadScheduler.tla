------------------------ MODULE GuestThreadScheduler ------------------------
(***************************************************************************)
(* The cooperative scheduler of render360-browser-thread-scheduler.mjs,    *)
(* which runs guest threads in slices over one PPC session.  All threads   *)
(* share the live PPCContext: a slice restores the thread's snapshot into  *)
(* it, refreshes the session's functions, runs and saves it again.  Every  *)
(* await lets the page's other callbacks in, so a loop here is a process   *)
(* whose steps end where the code awaits.                                  *)
(*                                                                         *)
(* A PPCContext is abstracted to whose it is and how many quanta it has    *)
(* run, modulo Quanta.  The thread registry is the native one; of it only  *)
(* life, the current thread and the round-robin choice are kept.           *)
(***************************************************************************)
EXTENDS PpcSession

CONSTANTS
    Threads,        \* thread handles, 1 .. n: their order in the registry
    Entry,          \* the function each thread starts in
    Loops,          \* activations of runLoop and pumpOnce
    RestartAnytime  \* whether runLoop is called before the last loop ended

ASSUME SchedulerAssumption ==
    /\ Threads \subseteq Keys \ {Nested} /\ Threads \subseteq Nat \ {0}
    /\ IsFiniteSet(Threads)
    /\ Entry \in [Threads -> Functions]
    /\ RestartAnytime \in BOOLEAN

VARIABLES
    life,       \* r360_guest_thread_state of each thread
    current,    \* the registry's current thread, 0: none
    live,       \* the PPCContext in bootstrap memory
    snapshots,  \* saved contexts
    loop,       \* what each activation is doing
    running, paused,
    completed,  \* completedThreads
    lastBlocker,
    done,       \* history: quanta each thread has run
    base,       \* history: those of them before its continuation was last cleared
    lastRun     \* history: what a slice found when it ran, until it is saved

threadVars == <<life, current, live, snapshots>>
historyVars == <<done, base, lastRun>>
vars == <<sessionVars, threadVars, loop, running, paused, completed, lastBlocker, historyVars>>

Contexts == [of : Threads \cup {0}, n : 0 .. Quanta - 1]
Reset == [of |-> 0, n |-> 0]
Fresh(t) == [of |-> t, n |-> 0]

Steps == {"off", "top", "refresh", "ran", "report"}
Idle == [at |-> "off", once |-> FALSE, thread |-> 0, want |-> {}, todo |-> {},
         got |-> {}, out |-> "none"]

NoRun == [thread |-> 0, live |-> Reset, done |-> 0, base |-> 0, resume |-> 0, stale |-> {}]

Init ==
    /\ SessionInit
    /\ life = [t \in Threads |-> "none"]
    /\ current = 0
    /\ live = Reset
    /\ snapshots = [t \in Threads |-> Reset]
    /\ loop = [l \in Loops |-> Idle]
    /\ running = FALSE
    /\ paused = FALSE
    /\ completed = 0
    /\ lastBlocker = 0
    /\ done = [t \in Threads |-> 0]
    /\ base = [t \in Threads |-> 0]
    /\ lastRun = NoRun

-----------------------------------------------------------------------------
(* The page's calls.                                                       *)

AllOff == \A l \in Loops : loop[l].at = "off"

\* createThread: by the page for the primary thread, by the kernel for others.
CreateThread(t) ==
    /\ life[t] = "none"
    /\ life' = [life EXCEPT ![t] = "ready"]
    /\ UNCHANGED <<sessionVars, current, live, snapshots, loop, running, paused,
                   completed, lastBlocker, historyVars>>

\* runLoop: a second call while running joins the first.
RunLoop(l) ==
    /\ loop[l].at = "off"
    /\ ~running
    /\ RestartAnytime \/ AllOff
    /\ running' = TRUE
    /\ loop' = [loop EXCEPT ![l].at = "top"]
    /\ UNCHANGED <<sessionVars, threadVars, paused, completed, lastBlocker, historyVars>>

\* pumpOnce called by the page, as it is before the loop starts.
PumpOnce(l) ==
    /\ loop[l].at = "off"
    /\ ~running
    /\ RestartAnytime \/ AllOff
    /\ loop' = [loop EXCEPT ![l].at = "top", ![l].once = TRUE]
    /\ UNCHANGED <<sessionVars, threadVars, running, paused, completed, lastBlocker, historyVars>>

Pause == paused' = TRUE /\ UNCHANGED running
Resume == paused' = FALSE /\ UNCHANGED running
Stop == running' = FALSE /\ paused' = FALSE

Control ==
    /\ Pause \/ Resume \/ Stop
    /\ UNCHANGED <<sessionVars, threadVars, loop, completed, lastBlocker, historyVars>>

-----------------------------------------------------------------------------
(* One slice.                                                              *)

Runnable == {t \in Threads : life[t] \in {"ready", "running"}}

\* The native round robin: the first runnable thread after the current one.
Turn(t) == IF t > current THEN t - current ELSE t - current + Cardinality(Threads)
FaultyNextRunnable == {t \in Runnable : \A u \in Runnable : t <= u}
NextRunnable == {t \in Runnable : \A u \in Runnable : Turn(t) <= Turn(u)}

\* setCurrent: who ran before is ready again.
Switched(t) ==
    [u \in Threads |-> CASE u = t -> "running"
                         [] u # t /\ life[u] = "running" -> "ready"
                         [] OTHER -> life[u]]

\* restoreThreadContext, with initializeThreadContext on first dispatch.
Restored(t) == IF snapshots[t] = Reset THEN Fresh(t) ELSE snapshots[t]

\* A loop that is told to stop returns; the caller of pumpOnce does not look.
LoopEnds(l) ==
    /\ loop[l].at = "top" /\ ~loop[l].once /\ ~running
    /\ loop' = [loop EXCEPT ![l] = Idle]
    /\ UNCHANGED <<sessionVars, threadVars, running, paused, completed, lastBlocker, historyVars>>

Pumps(l) == loop[l].at = "top" /\ (loop[l].once \/ (running /\ ~paused))

\* Nothing is runnable: the pump reports no slices.
NothingToRun(l) ==
    /\ Pumps(l) /\ Runnable = {}
    /\ loop' = [loop EXCEPT ![l].at = "report", ![l].thread = 0]
    /\ UNCHANGED <<sessionVars, threadVars, running, paused, completed, lastBlocker, historyVars>>

\* runThreadSlice up to the first await, inside refreshFunctions.
SliceStart(l) ==
    /\ Pumps(l)
    /\ \E t \in NextRunnable :
        /\ life' = Switched(t)
        /\ current' = t
        /\ live' = Restored(t)
        /\ snapshots' = [snapshots EXCEPT ![t] = Restored(t)]
        /\ loop' = [loop EXCEPT ![l].at = "refresh", ![l].thread = t,
                        ![l].want = Descriptors, ![l].got = {},
                        ![l].todo = IF Descriptors = RegistryKey THEN {} ELSE Descriptors]
    /\ UNCHANGED <<sessionVars, running, paused, completed, lastBlocker, historyVars>>

\* One round of refreshFunctions' loop over the descriptors.
LoadFunction(l) ==
    /\ loop[l].at = "refresh"
    /\ \E d \in loop[l].todo :
        /\ modules' = CacheAfter(d)
        /\ loop' = [loop EXCEPT ![l].todo = @ \ {d}, ![l].got = @ \cup {ModuleFor(d)}]
    /\ UNCHANGED <<gen, callable, cfgFn, records, cont, threadVars, running, paused,
                   completed, lastBlocker, historyVars>>

\* The refresh changed the registry: records are replaced, continuations cleared.
Refreshed(l) == loop[l].want # RegistryKey
RecordsAfter(l) == IF Refreshed(l) THEN loop[l].got ELSE records
ContAfter(l) == IF Refreshed(l) THEN NoContinuations ELSE cont
BaseAfter(l) == IF Refreshed(l) THEN done ELSE base

Outcome(out, c) == [out |-> out, cont |-> c]

\* A function of the CFG tier resumes from its slot: it returns, yields, or
\* ends in a kernel boundary, which leaves the slot as it is.
CfgRuns(c, own) ==
    LET a == Acquired(c, own)
    IN  {Outcome("exit", a), Outcome("fail", a), Outcome("return", Released(a, own)),
         Outcome("yield", Advanced(a, own))}

\* A callable function runs to its end.  It may call a function of the CFG
\* tier, which has to return within its quantum.
CallableRuns(c, rs) ==
    LET nested == {g \in Functions : \E r \in rs : r.fn = g /\ r.tier = "cfg"}
        callees == {g \in nested : CanAcquire(c, Owner(g, Nested))}
    IN  {Outcome("return", c), Outcome("exit", c), Outcome("fail", c)}
        \cup {Outcome("return", Returned(c, g)) : g \in callees}
        \cup {Outcome("fail", Stuck(c, g)) : g \in callees}

\* What runFunctionSlice can come to for thread t.
Runs(c, rs, t) ==
    LET start == Entry[t]
        own == Owner(start, t)
    IN  IF \A r \in rs : r.fn # start
        THEN {Outcome("fail", c)}
        ELSE IF \E r \in rs : r.fn = start /\ r.tier = "callable"
        THEN CallableRuns(c, rs)
        ELSE IF CanAcquire(c, own) THEN CfgRuns(c, own) ELSE {Outcome("fail", c)}

Resumes(c, rs, t) ==
    LET own == Owner(Entry[t], t)
    IN  IF (\E r \in rs : r.fn = Entry[t] /\ r.tier = "cfg") /\ Holds(c, own)
        THEN c.slot[SlotOf(c, own)]
        ELSE 0

\* The rest of runFunctionSlice: the guest runs, with nothing in between, and
\* the kernel calls it makes may write code pages.
SliceRun(l) ==
    LET t == loop[l].thread
        rs == RecordsAfter(l)
        c == ContAfter(l)
    IN  /\ loop[l].at = "refresh" /\ loop[l].todo = {}
        /\ records' = rs
        /\ base' = BaseAfter(l)
        /\ \E run \in Runs(c, rs, t) :
            /\ cont' = run.cont
            /\ loop' = [loop EXCEPT ![l].at = "ran", ![l].out = run.out,
                               ![l].want = {}, ![l].got = {}]
            /\ done' = [done EXCEPT ![t] = IF run.out = "yield" THEN (@ + 1) % Quanta ELSE @]
            /\ live' = IF run.out = "yield" THEN [live EXCEPT !.n = (@ + 1) % Quanta] ELSE live
            /\ life' = IF run.out = "exit" THEN [life EXCEPT ![t] = "dead"] ELSE life
            /\ lastRun' = [thread |-> t, live |-> live, done |-> done[t], base |-> base'[t],
                           resume |-> Resumes(c, rs, t), stale |-> Stale(rs)]
            /\ \E fs \in SUBSET Functions : CodeWritten(fs)
        /\ UNCHANGED <<cfgFn, modules, current, snapshots, running, paused,
                       completed, lastBlocker>>

\* saveThreadContext.
Saved(t) == [snapshots EXCEPT ![t] = live]

\* The thread has ended: its entry returned, or it was terminated in a kernel call.
ThreadEnds(out) == out \in {"return", "exit"}

\* After the await: the context is saved and the outcome accounted for.
SliceEnds(l) ==
    LET t == loop[l].thread
        ended == ThreadEnds(loop[l].out)
    IN  /\ loop[l].at = "ran" /\ loop[l].out # "fail"
        /\ snapshots' = Saved(t)
        /\ life' = IF ended THEN [life EXCEPT ![t] = "dead"] ELSE life
        /\ completed' = IF ended THEN completed + 1 ELSE completed
        /\ loop' = [loop EXCEPT ![l].at = "report", ![l].out = "none"]
        /\ lastRun' = NoRun
        /\ UNCHANGED <<sessionVars, current, live, running, paused, lastBlocker, done, base>>

FaultyRunsAfter(l) == running

\* A slice that throws ends the loop, a single pump throws to its caller.
RunsAfter(l) == running /\ loop[l].once

SliceFails(l) ==
    LET t == loop[l].thread
    IN  /\ loop[l].at = "ran" /\ loop[l].out = "fail"
        /\ snapshots' = Saved(t)
        /\ lastBlocker' = t
        /\ running' = RunsAfter(l)
        /\ loop' = [loop EXCEPT ![l] = Idle]
        /\ lastRun' = NoRun
        /\ UNCHANGED <<sessionVars, life, current, live, paused, completed, done, base>>

\* A pump of the loop without a slice ends the loop.
StillRunning(l) == running /\ (loop[l].once \/ loop[l].thread # 0)

\* yieldToBrowser, then onPump.
PumpEnds(l) ==
    /\ loop[l].at = "report"
    /\ running' = StillRunning(l)
    /\ loop' = [loop EXCEPT ![l] = IF @.once THEN Idle ELSE [Idle EXCEPT !.at = "top"]]
    /\ UNCHANGED <<sessionVars, threadVars, paused, completed, lastBlocker, historyVars>>

-----------------------------------------------------------------------------

LoopStep(l) ==
    \/ LoopEnds(l) \/ NothingToRun(l) \/ SliceStart(l) \/ LoadFunction(l)
    \/ SliceRun(l) \/ SliceEnds(l) \/ SliceFails(l) \/ PumpEnds(l)

Next ==
    \/ \E t \in Threads : CreateThread(t)
    \/ \E l \in Loops : RunLoop(l) \/ PumpOnce(l) \/ LoopStep(l)
    \/ Control

Spec == Init /\ [][Next]_vars

\* The browser resolves the promises the loops await.
FairSpec == Spec /\ \A l \in Loops : WF_vars(LoopStep(l))

-----------------------------------------------------------------------------
(* Properties                                                              *)

\* The variables keep their types.
TypeOK ==
    /\ SessionTypeOK
    /\ life \in [Threads -> {"none", "ready", "running", "dead"}]
    /\ current \in Threads \cup {0}
    /\ live \in Contexts
    /\ snapshots \in [Threads -> Contexts]
    /\ \A l \in Loops : loop[l].at \in Steps
    /\ running \in BOOLEAN /\ paused \in BOOLEAN
    /\ completed \in 0 .. Cardinality(Threads)
    /\ lastBlocker \in Threads \cup {0}

\* A slice finds in the shared PPCContext what its own thread left there,
\* whatever ran in between (runThreadSlice restores, awaits, runs, saves).
OwnContext ==
    lastRun.thread # 0 => lastRun.live = [of |-> lastRun.thread, n |-> lastRun.done]

\* A function of the CFG tier resumes where its own thread's last quantum
\* ended, or where the function starts if the registry has changed since.
OwnContinuation == lastRun.resume = (lastRun.done + Quanta - lastRun.base) % Quanta

\* What the session's description says: the next slice restores the exact
\* state in which the function yielded.
YieldResumesExactly == lastRun.resume = lastRun.done

\* completedThreads counts the threads that have ended, but for those whose
\* slice has yet to be accounted for.
CompletedAreDead ==
    completed = Cardinality({t \in Threads : life[t] = "dead"
                                /\ \A l \in Loops : ~(loop[l].at = "ran" /\ loop[l].thread = t)})

\* While the scheduler says it runs, some activation of runLoop drives it.
RunningIsDriven == running => \E l \in Loops : loop[l].at # "off" /\ ~loop[l].once

\* As long as the loop runs and is not paused, a runnable thread gets slices.
EveryThreadRuns ==
    \A t \in Threads :
        []<>(~running \/ paused \/ t \notin Runnable \/ \E l \in Loops : loop[l].thread = t)

\* Of the functions a slice can run or call, none is loaded with code that was
\* rewritten before the slice: it has been dropped, and calling it fails closed.
\* Only the CFG tier, which files the bytes of its one translation under whatever
\* generation the function has by now, runs old code.
OnlyCfgIsStale == \A r \in lastRun.stale : r.tier = "cfg" /\ r.fn = cfgFn

\* A slice runs its own thread from where it was, with code that is current but
\* for the CFG tier's.
SlicesAreOwn == TypeOK /\ OnlyCfgIsStale /\ SlotsAreOwn /\ OwnContext /\ OwnContinuation

\* The scheduler is driven while it says so, and counts the threads that ended.
RunIsAccounted == RunningIsDriven /\ CompletedAreDead
=============================================================================
