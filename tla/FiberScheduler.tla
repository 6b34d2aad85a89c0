--------------------------- MODULE FiberScheduler ---------------------------
(***************************************************************************)
(* The guest-fiber scheduler of guest_fibers.cpp together with the driver  *)
(* loop of render360-guest-fibers.mjs.  All guest threads share one host   *)
(* thread: a fiber leaves at a kernel call that blocks, sleeps or yields,  *)
(* or at an interrupt poll when its quantum or the page's time slice is    *)
(* over; the driver then starts or rewinds the fiber it left for.          *)
(*                                                                         *)
(* fibers[1] is g_fibers[0], the primary thread.  A thread handle is a     *)
(* pair <<slot, generation>> of the thread registry.  Time is counted in   *)
(* units of execution between two interrupt polls; the guest clock is the  *)
(* deterministic one: it advances with execution and when the CPU idles.   *)
(* Whether a wait can be satisfied is left open, because the dispatcher    *)
(* objects are not part of this module.  Memory for fibers is assumed to   *)
(* be available.                                                           *)
(***************************************************************************)
EXTENDS Naturals, Sequences, FiniteSets

CONSTANTS
    NumSlots,   \* slots of the thread registry the title uses
    MaxGen,     \* bound: threads created in one slot
    MaxFibers,  \* kMaxFibers
    Quantum,    \* kPreemptQuantum
    MaxLag,     \* kMaxLag
    IdleStep,   \* kMaxIdleStepNs (and kIdleStepNs)
    MaxIdle,    \* kMaxIdleNs: idling of a blocked call before it gives up
    Delays,     \* how long sleeps and timed waits last
    MaxClock,   \* bound: how far the guest clock runs
    MaySuspend  \* whether title threads suspend one another

ASSUME SchedulerAssumption ==
    /\ NumSlots \in Nat /\ MaxGen \in Nat
    /\ MaxFibers \in Nat \ {0}
    /\ Quantum \in Nat \ {0}
    /\ MaxLag \in Nat /\ Quantum <= MaxLag
    /\ IdleStep \in Nat \ {0} /\ MaxIdle \in Nat
    /\ Delays \subseteq Nat \ {0}
    /\ MaxClock \in Nat \ {0}
    /\ MaySuspend \in BOOLEAN

Slots == 1 .. NumSlots
Primary == <<0, 0>>
Threads == (Slots \X (1 .. MaxGen)) \cup {Primary}
FiberStates == {"New", "Running", "Ready", "Blocked", "Done"}
EndModes == {"returned", "stopped", "aborted", "deadlock", "noTarget"}

\* A kernel call the fiber is in the middle of; until is the deadline of a
\* sleep or timed wait, or the time a blocked wait began to idle (0: not yet).
CallKinds == {"none", "yield", "wait", "timed", "sleep"}
Calls == [kind : CallKinds, until : 0 .. MaxClock]
Call(kind, until) == [kind |-> kind, until |-> until]
NoCall == Call("none", 0)

VARIABLES
    registry,   \* the thread registry: generation and life of each slot
    fibers,     \* g_fibers, and for each fiber the call it is in
    cur,        \* g_current
    target,     \* g_target
    mode,       \* guest code, an interrupt poll, the driver (a switch is pending)...
    hostYield,  \* g_host_yield
    forceFail,  \* g_force_fail
    ran,        \* HIRTotalInstructions() - g_run_start
    usedQ,      \* HIRTotalInstructions() - g_quantum_start
    clock,      \* GuestClockNanoseconds()
    waited      \* history: units of the current turn run while another fiber could

switchVars == <<cur, target, mode, hostYield, forceFail>>
vars == <<registry, fibers, switchVars, ran, usedQ, clock, waited>>

\* noted stands for progress_mark # g_progress.
NewFiber(thread) ==
    [thread |-> thread, state |-> "New", vruntime |-> 0, noted |-> FALSE,
     wake |-> 0, call |-> NoCall]

\* r360_fiber_reset(1): the primary thread runs, nothing else exists.
Init ==
    /\ registry = [s \in Slots |-> [gen |-> 0, life |-> "free"]]
    /\ fibers = <<[NewFiber(Primary) EXCEPT !.state = "Running"]>>
    /\ cur = 1
    /\ target = 1
    /\ mode = "guest"
    /\ hostYield = FALSE
    /\ forceFail = FALSE
    /\ ran = 0
    /\ usedQ = 0
    /\ clock = 1
    /\ waited = [i \in 1 .. MaxFibers |-> 0]

-----------------------------------------------------------------------------
(* Which fibers can run.  The operators named Faulty... are wrong variants of *)
(* the definition that follows them: replacing it by one must break a         *)
(* property stated below.                                                     *)

Least(S) == CHOOSE x \in S : \A y \in S : x <= y

HandleOf(s) == <<s, registry[s].gen>>
RunnableSlots == {s \in Slots : registry[s].life = "runnable"}

\* r360_guest_thread_runnable_list, at most kMaxFibers entries.
Listed ==
    {s \in RunnableSlots :
        Cardinality({r \in RunnableSlots : r < s}) < MaxFibers}
ThreadRunnable(thread) == \E s \in Listed : thread = HandleOf(s)

FaultyEligible(f) ==
    \/ f.state \in {"New", "Ready"}
    \/ f.state = "Blocked" /\ f.noted

Eligible(f) ==
    \/ f.state \in {"New", "Ready"}
    \/ /\ f.state = "Blocked"
       /\ f.noted \/ (f.wake # 0 /\ clock >= f.wake)

\* Fibers PickTarget may choose among; the primary thread is not in the list.
Candidates(fs, from) ==
    {i \in DOMAIN fs \ {from} :
        Eligible(fs[i]) /\ (i = 1 \/ ThreadRunnable(fs[i].thread))}

\* f itself: TLC otherwise carries function expressions along unevaluated.
Evaluated(f) == f \o <<>>

\* GuestFiberNoteProgress: every blocked fiber may look at its wait again.
Noted(fs) == Evaluated([i \in DOMAIN fs |-> [fs[i] EXCEPT !.noted = TRUE]])

\* Unknown runnable threads, in registry order, as far as there is room.
Unknown(fs) == {s \in Listed : \A i \in DOMAIN fs : fs[i].thread # HandleOf(s)}
Rank(S, s) == Cardinality({r \in S : r <= s})

Adopted(fs) == {s \in Unknown(fs) : Rank(Unknown(fs), s) + Len(fs) <= MaxFibers}

\* A thread known to the scheduler that cannot run before its first switch.
Retired(f) == f.state = "New" /\ f.thread # Primary /\ ~ThreadRunnable(f.thread)

\* SyncFibersWithThreads.
Synced(fs) ==
    LET adopted == Adopted(fs)
        nth(k) == CHOOSE s \in adopted : Rank(adopted, s) = k
    IN  [i \in DOMAIN fs |->
            IF Retired(fs[i]) THEN [fs[i] EXCEPT !.state = "Done"] ELSE fs[i]]
        \o [k \in 1 .. Cardinality(adopted) |-> NewFiber(HandleOf(nth(k)))]

FaultyFromCount(fs) == fs[cur].vruntime

\* The running fiber's count includes its current run; a candidate that has run
\* far more than the others is brought to within the bounded lag.
FromCount(fs) == fs[cur].vruntime + ran
LagCap(fs) ==
    Least({fs[i].vruntime : i \in Candidates(fs, cur)} \cup {FromCount(fs)}) + MaxLag
Lagged(fs) ==
    Evaluated([i \in DOMAIN fs |->
        IF i \in Candidates(fs, cur) /\ fs[i].vruntime > LagCap(fs)
        THEN [fs[i] EXCEPT !.vruntime = LagCap(fs)]
        ELSE fs[i]])

\* The least-run candidate, ties in round-robin order.
Turn(fs, i) == (i + Len(fs) - cur) % Len(fs)
Precedes(fs, i, j) ==
    \/ fs[i].vruntime < fs[j].vruntime
    \/ fs[i].vruntime = fs[j].vruntime /\ Turn(fs, i) <= Turn(fs, j)
LeastRun(fs) ==
    {i \in Candidates(fs, cur) : \A j \in Candidates(fs, cur) : Precedes(fs, i, j)}

\* The target: none, 0, if nothing can run or a preempted fiber stays ahead.
Choice(fs, preempting) ==
    LET better == {i \in LeastRun(fs) :
                      preempting => fs[i].vruntime < FromCount(fs)}
    IN  IF better = {} THEN {0} ELSE better

\* The chosen fiber's count is raised to within a quantum of the running one's.
Raised(fs, to) ==
    LET floor == IF FromCount(fs) > Quantum THEN FromCount(fs) - Quantum ELSE 0
    IN  IF to # 0 /\ fs[to].vruntime < floor
        THEN [fs EXCEPT ![to].vruntime = floor]
        ELSE fs

\* PickTarget(g_current, ..., preempting), as the set of its one outcome: the
\* target and the fibers it leaves behind.
PickTarget(unsynced, preempting) ==
    UNION {{[target |-> to, fibers |-> Raised(fs, to)] : to \in Choice(fs, preempting)} :
              fs \in {Lagged(fs) : fs \in {Synced(unsynced)}}}

-----------------------------------------------------------------------------
(* Leaving the running fiber *)

\* SwitchTo: the fiber's run is charged and the driver takes over.
SwitchTo(fs, to, leaving) ==
    /\ fibers' = [fs EXCEPT ![cur].vruntime = @ + ran,
                            ![cur].state = leaving,
                            ![cur].noted = FALSE]
    /\ target' = to
    /\ mode' = "driver"
    /\ ran' = 0
    /\ UNCHANGED <<cur, forceFail>>

\* GuestFiberHostYieldIfDue, then the interrupt handlers if the fiber stays:
\* woken says whether a handler made a kernel call that noted progress, which
\* takes an interrupt that fell due since the last poll.
QuantumOver == Len(fibers) > 1 /\ usedQ >= Quantum

Poll ==
    /\ mode \in {"poll", "idlePoll"}
    /\ \E pick \in IF QuantumOver THEN PickTarget(fibers, TRUE)
                   ELSE {[target |-> 0, fibers |-> fibers]} :
          \/ /\ pick.target # 0
             /\ SwitchTo(pick.fibers, pick.target, "Ready")
             /\ hostYield' = FALSE
          \/ /\ pick.target = 0
             /\ SwitchTo(pick.fibers, cur, "Ready")
             /\ hostYield' = TRUE
          \/ /\ pick.target = 0
             /\ \E woken \in {FALSE, mode = "poll"} :
                   fibers' = IF woken THEN Noted(pick.fibers) ELSE pick.fibers
             /\ mode' = "guest"
             /\ UNCHANGED <<cur, target, hostYield, forceFail, ran>>
    /\ usedQ' = IF QuantumOver THEN 0 ELSE usedQ
    /\ UNCHANGED <<registry, clock, waited>>

\* The earliest deadline of a sleeping fiber or the caller, a step at most.
IdleUntil(deadline) ==
    LET sleepers == {i \in DOMAIN fibers :
                        fibers[i].state = "Blocked" /\ fibers[i].wake # 0}
    IN  Least({fibers[i].wake : i \in sleepers} \cup {deadline, clock + IdleStep})

\* GuestFiberIdle: the clock skips ahead, interrupts are polled.
Idle(deadline) ==
    /\ clock' = IF IdleUntil(deadline) > clock THEN IdleUntil(deadline) ELSE clock
    /\ mode' = IF IdleUntil(deadline) > clock THEN "poll" ELSE "idlePoll"
    /\ UNCHANGED <<cur, target, hostYield, forceFail, ran>>

-----------------------------------------------------------------------------
(* The kernel call the running fiber is in *)

InCall(kinds) == mode = "guest" /\ fibers[cur].call.kind \in kinds

\* The call returns: the wait is satisfied (on the first look, a retry or a
\* re-check), or the deadline of a sleep or timed wait has passed.
CallReturns ==
    /\ \/ InCall({"yield", "wait", "timed"})
       \/ InCall({"timed", "sleep"}) /\ clock >= fibers[cur].call.until
    /\ fibers' = Noted([fibers EXCEPT ![cur].call = NoCall])
    /\ UNCHANGED <<registry, switchVars, ran, usedQ, clock, waited>>

\* DispatchExtendedKernelService with a call that would block: run another
\* fiber and retry, or idle, or report the deadlock, which ends the title.
IdleSince == IF fibers[cur].call.until = 0 THEN clock ELSE fibers[cur].call.until

WaitBlocks ==
    /\ InCall({"wait"})
    /\ \E pick \in PickTarget(fibers, FALSE) :
          \/ /\ pick.target # 0
             /\ SwitchTo(pick.fibers, pick.target, "Blocked")
             /\ UNCHANGED <<hostYield, clock>>
          \/ /\ pick.target = 0
             /\ clock - IdleSince < MaxIdle
             /\ clock + IdleStep <= MaxClock
             /\ fibers' = [pick.fibers EXCEPT ![cur].call = Call("wait", IdleSince)]
             /\ Idle(clock + IdleStep)
          \/ /\ pick.target = 0
             /\ clock - IdleSince >= MaxIdle
             /\ fibers' = pick.fibers
             /\ mode' = "deadlock"
             /\ UNCHANGED <<cur, target, hostYield, forceFail, ran, clock>>
    /\ UNCHANGED <<registry, usedQ, waited>>

\* GuestFiberSleepUntil, and GuestFiberIdle when nothing else can run.
SleepContinues ==
    LET deadline == fibers[cur].call.until IN
    /\ InCall({"timed", "sleep"})
    /\ clock < deadline
    /\ \E pick \in PickTarget(fibers, FALSE) :
          \/ /\ pick.target # 0
             /\ SwitchTo([pick.fibers EXCEPT ![cur].wake = deadline],
                         pick.target, "Blocked")
             /\ UNCHANGED <<hostYield, clock>>
          \/ /\ pick.target = 0
             /\ fibers' = pick.fibers
             /\ Idle(deadline)
    /\ UNCHANGED <<registry, usedQ, waited>>

-----------------------------------------------------------------------------
(* Guest code of the running fiber *)

InGuest == InCall({"none"})

\* One unit of guest code, up to its next interrupt poll.
Run ==
    /\ InGuest
    /\ clock < MaxClock
    /\ clock' = clock + 1
    /\ ran' = ran + 1
    /\ usedQ' = usedQ + 1
    /\ mode' = "poll"
    /\ waited' = [i \in 1 .. MaxFibers |->
                     IF i \in Candidates(fibers, cur) THEN waited[i] + 1 ELSE 0]
    /\ UNCHANGED <<registry, fibers, cur, target, hostYield, forceFail>>

\* What a kernel call may do to a thread of the registry.
CreateThread(s) ==
    /\ registry[s].life = "free"
    /\ \A r \in Slots : r < s => registry[r].life # "free"
    /\ registry[s].gen < MaxGen
    /\ \E life \in {"runnable", "suspended"} :
          registry' = [registry EXCEPT ![s] = [gen |-> @.gen + 1, life |-> life]]

SuspendThread(s) ==
    /\ MaySuspend /\ registry[s].life = "runnable"
    /\ registry' = [registry EXCEPT ![s].life = "suspended"]

ResumeThread(s) ==
    /\ registry[s].life = "suspended"
    /\ registry' = [registry EXCEPT ![s].life = "runnable"]

\* A kernel call that returns at once.
ServiceCall ==
    /\ InGuest
    /\ \/ UNCHANGED registry
       \/ \E s \in Slots : CreateThread(s) \/ SuspendThread(s) \/ ResumeThread(s)
    /\ fibers' = Noted(fibers)
    /\ UNCHANGED <<switchVars, ran, usedQ, clock, waited>>

\* NtYieldExecution or a zero sleep: GuestFiberYield(false).
Yield ==
    /\ InGuest
    /\ \E pick \in PickTarget(Noted([fibers EXCEPT ![cur].call = Call("yield", 0)]), FALSE) :
          \/ /\ pick.target # 0
             /\ SwitchTo(pick.fibers, pick.target, "Ready")
          \/ /\ pick.target = 0
             /\ fibers' = pick.fibers
             /\ UNCHANGED <<cur, target, mode, forceFail, ran>>
    /\ UNCHANGED <<registry, hostYield, usedQ, clock, waited>>

\* A wait without timeout, one with a timeout, or KeDelayExecutionThread, which
\* notes progress before it sleeps.
EnterCall ==
    /\ InGuest
    /\ \/ fibers' = [fibers EXCEPT ![cur].call = Call("wait", 0)]
       \/ \E d \in Delays :
             /\ clock + d <= MaxClock
             /\ \/ fibers' = [fibers EXCEPT ![cur].call = Call("timed", clock + d)]
                \/ fibers' = Noted([fibers EXCEPT ![cur].call = Call("sleep", clock + d)])
    /\ UNCHANGED <<registry, switchVars, ran, usedQ, clock, waited>>

\* FinishGuestThreadFiber: a title thread's function returned or the thread
\* exited, and its registry entry is terminated.
ThreadExits ==
    /\ InGuest /\ cur # 1
    /\ registry' = [registry EXCEPT ![fibers[cur].thread[1]].life = "free"]
    /\ mode' = "exiting"
    /\ UNCHANGED <<fibers, cur, target, hostYield, forceFail, ran, usedQ, clock, waited>>

FaultyFinished(fs) == [fs EXCEPT ![cur].state = "Done"]

Finished(fs) == Noted([fs EXCEPT ![cur].state = "Done"])

\* The rest of r360_fiber_entry: the next fiber, or else the primary thread so
\* that its wait reports the deadlock.
FiberEnds ==
    /\ mode = "exiting"
    /\ \E pick \in PickTarget(Finished(fibers), FALSE) :
          LET primaryWaits == pick.fibers[1].state \in {"Blocked", "Ready"}
          IN  /\ fibers' = pick.fibers
              /\ target' = IF pick.target # 0 THEN pick.target ELSE 1
              /\ forceFail' = (pick.target = 0 /\ primaryWaits)
              /\ mode' = IF pick.target # 0 \/ primaryWaits THEN "driver" ELSE "noTarget"
    /\ UNCHANGED <<registry, cur, hostYield, ran, usedQ, clock, waited>>

\* The primary thread's function returns, or a thread stops on a blocker.
TitleEnds ==
    /\ InGuest
    /\ mode' \in {"stopped"} \cup (IF cur = 1 THEN {"returned"} ELSE {})
    /\ UNCHANGED <<registry, fibers, cur, target, hostYield, forceFail>>
    /\ UNCHANGED <<ran, usedQ, clock, waited>>

-----------------------------------------------------------------------------
(* The driver *)

\* g_quantum_start survives a host yield: the same fiber goes on.
QuantumAfterSwitch == IF target = cur THEN usedQ ELSE 0

FaultyResumed(f) == [f EXCEPT !.state = "Running"]
FaultyResumedReady(f) == [f EXCEPT !.wake = 0]

\* The fiber as it goes on: a sleeper clears its deadline.
Resumed(f) == [f EXCEPT !.state = "Running", !.wake = 0]

\* r360_fiber_prepare, and the start or rewind of the target.
Prepare ==
    /\ mode = "driver"
    /\ fibers' = [fibers EXCEPT ![target] = Resumed(@)]
    /\ cur' = target
    /\ mode' = "guest"
    /\ hostYield' = FALSE
    /\ ran' = 0
    /\ usedQ' = QuantumAfterSwitch
    /\ waited' = IF target = cur THEN waited ELSE [i \in 1 .. MaxFibers |-> 0]
    /\ UNCHANGED <<registry, target, forceFail, clock>>

\* The page stops the run during the host's turn.
Abort ==
    /\ mode = "driver" /\ hostYield
    /\ mode' = "aborted"
    /\ UNCHANGED <<registry, fibers, cur, target, hostYield, forceFail>>
    /\ UNCHANGED <<ran, usedQ, clock, waited>>

Ended == mode \in EndModes /\ UNCHANGED vars

-----------------------------------------------------------------------------
\* What the host does by itself once a fiber is inside a kernel call.
HostStep == CallReturns \/ WaitBlocks \/ SleepContinues \/ Poll \/ Prepare

Next ==
    \/ HostStep
    \/ Run \/ ServiceCall \/ Yield \/ EnterCall
    \/ ThreadExits \/ FiberEnds \/ TitleEnds
    \/ Abort \/ Ended

Spec == Init /\ [][Next]_vars

\* The host thread keeps executing the call of the running fiber.
FairSpec == Spec /\ WF_vars(HostStep)

-----------------------------------------------------------------------------
(* Properties *)

\* The variables keep their types, and no fiber's clock exceeds guest time.
TypeOK ==
    /\ registry \in [Slots -> [gen : 0 .. MaxGen,
                               life : {"free", "runnable", "suspended"}]]
    /\ Len(fibers) \in 1 .. MaxFibers
    /\ \A i \in DOMAIN fibers :
          fibers[i] \in [thread : Threads, state : FiberStates,
                         vruntime : 0 .. MaxClock, noted : BOOLEAN,
                         wake : 0 .. MaxClock, call : Calls]
    /\ cur \in DOMAIN fibers /\ target \in DOMAIN fibers
    /\ mode \in {"guest", "poll", "idlePoll", "exiting", "driver"} \cup EndModes
    /\ hostYield \in BOOLEAN /\ forceFail \in BOOLEAN
    /\ ran \in 0 .. MaxClock /\ usedQ \in 0 .. MaxClock
    /\ clock \in 1 .. MaxClock
    /\ waited \in [1 .. MaxFibers -> 0 .. MaxClock]

\* Exactly one fiber is marked Running, the current one, whenever guest code or
\* its kernel calls execute, and none while a switch is pending: a fiber is
\* never resumed twice and its saved state never overwritten by another run.
OneRunning ==
    mode \notin EndModes =>
        {i \in DOMAIN fibers : fibers[i].state = "Running"}
            = IF mode = "driver" THEN {} ELSE {cur}

\* A fiber carries a wake-up deadline exactly while it is blocked in a sleep or
\* timed wait, and it is that call's deadline: no later wait is cut short, and
\* no idle period shortened, by the deadline of a call that is over.
DeadlineIsOwn ==
    \A i \in DOMAIN fibers :
        LET f == fibers[i]
            asleep == f.state = "Blocked" /\ f.call.kind \in {"timed", "sleep"}
        IN  f.wake = IF asleep THEN f.call.until ELSE 0

\* When a title thread finishes, some fiber can take over: the run never ends
\* for want of a target, and the primary thread is never forced to fail a wait.
FinishFindsTarget == mode # "noTarget" /\ ~forceFail

\* A fiber the scheduler switches to belongs to a thread that may run: threads
\* suspended or ended while their fiber waited are passed over.
TargetMayRun ==
    mode = "driver" /\ target # cur /\ target # 1 =>
        ThreadRunnable(fibers[target].thread)

\* Fair share: a fiber that could run all the while is passed over in one turn of
\* another, from switch to switch, for at most the lag and two quanta, however the
\* page slices that turn, fibers wake and threads are created meanwhile.  A busy
\* fiber is not starved by one that never blocks, as the comment on kMaxLag says.
FairBound == MaxLag + 2 * Quantum
FairShare == \A i \in DOMAIN fibers : waited[i] <= FairBound

\* After every choice of a target, each runnable thread of the title has a
\* fiber, as the comment of SyncFibersWithThreads says.
EveryThreadHasFiber ==
    mode = "driver" /\ target # cur =>
        \A s \in RunnableSlots : \E i \in DOMAIN fibers : fibers[i].thread = HandleOf(s)

\* "A suspended thread keeps its fiber; a terminated one is done": no fiber is
\* done while its thread still lives.
SuspendedKeepsFiber ==
    \A i \in DOMAIN fibers : fibers[i].state = "Done" =>
        \A s \in Slots : fibers[i].thread = HandleOf(s) => registry[s].life = "free"

\* A sleeping thread that found nothing else to run.
IdlesAsleep ==
    /\ mode \notin EndModes
    /\ fibers[cur].call.kind = "sleep"
    /\ Candidates(fibers, cur) = {}

\* A blocked fiber whose thread is suspended and whose deadline has passed.
OverdueSleeper ==
    \E i \in DOMAIN fibers :
        /\ fibers[i].state = "Blocked" /\ fibers[i].wake # 0
        /\ fibers[i].wake <= clock
        /\ ~ThreadRunnable(fibers[i].thread)

\* Idling moves the guest clock on: a sleep that found nothing else to run ends
\* or another fiber becomes runnable.
IdleEnds == IdlesAsleep ~> ~IdlesAsleep

\* The same, as long as no suspended thread is overdue.
IdleEndsUnlessOverdue == IdlesAsleep ~> (~IdlesAsleep \/ OverdueSleeper)

\* One fiber runs, and it is one that may.
OneMayRun == TypeOK /\ OneRunning /\ TargetMayRun

\* No thread is left without a fiber, and none ends the run of the others.
EveryThreadGoesOn == FinishFindsTarget /\ EveryThreadHasFiber
=============================================================================
