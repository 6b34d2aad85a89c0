----------------------------- MODULE KernelWaits -----------------------------
(***************************************************************************)
(* How Render360 implements the calls of KernelCalls.  All guest threads   *)
(* share one host thread and one dispatcher,                               *)
(* DispatchExtendedKernelService, whose state (g_status and the caller's   *)
(* registers) is global.  A call that would block leaves for another fiber *)
(* and is dispatched again when its fiber resumes; a wait with a timeout   *)
(* sleeps inside the call and looks again when it resumes.  If nothing can *)
(* run the CPU idles, and a call that has idled for ten seconds by then    *)
(* reports a deadlock.                                                     *)
(*                                                                         *)
(* Which of the eligible fibers runs next is the subject of                *)
(* FiberScheduler; here any of them may.  The objects exist from the       *)
(* start; a title leaves the sections and releases the locks it holds, and *)
(* no others.                                                              *)
(***************************************************************************)
EXTENDS DispatcherObjects, FiniteSets

CONSTANTS
    TitleCalls,       \* the calls the title makes
    InterruptEvents,  \* events its interrupt handlers set
    MaxDepth          \* bound: how often a thread holds one object

\* A wait names at least one object; every other call is for one object of the
\* kind it works on.
WellFormed(c) ==
    \/ /\ c = CallOn("Wait", c.objects, c.all, c.timed, c.signal)
       /\ c.objects \in Seq(Dispatchers) /\ c.objects # <<>>
       /\ c.all \in BOOLEAN /\ c.timed \in BOOLEAN
       /\ c.signal \in Dispatchers \cup {NoObject}
    \/ \E o \in Sections, op \in {"Enter", "TryEnter", "Leave"} : c = Plain(op, o)
    \/ \E o \in Locks, op \in {"AcquireExclusive", "TryAcquireExclusive",
                             "AcquireShared", "TryAcquireShared", "ReleaseLock"} :
          c = Plain(op, o)
    \/ \E o \in Events, op \in {"SetEvent", "ResetEvent", "PulseEvent"} : c = Plain(op, o)
    \/ \E o \in Semaphores : c = Plain("ReleaseSemaphore", o)
    \/ \E o \in Mutants : c = Plain("ReleaseMutant", o)

ASSUME WaitsAssumption ==
    /\ IsFiniteSet(Threads)
    /\ MaxDepth \in Nat \ {0}
    /\ InterruptEvents \subseteq Events
    /\ \A c \in TitleCalls : WellFormed(c)

VARIABLES
    objects,  \* the kernel objects, in guest memory
    call,     \* the call each thread is in
    at,       \* where in it: guest code, dispatch, re-dispatch, timed
              \* wait, or satisfied without the dispatcher seeing it
    fiber,    \* Fiber::state of each thread's fiber
    noted,    \* progress_mark # g_progress
    passed,   \* the guest clock has reached the timed wait's deadline
    cur,      \* the running thread
    caller,   \* the thread g_caller_r13 belongs to
    status,   \* g_status
    mode,     \* the title runs, or a deadlock was reported
    holds     \* history: how often each thread holds each object

fiberVars == <<fiber, noted, cur>>
vars == <<objects, call, at, fiberVars, passed, caller, status, mode, holds>>

Init ==
    /\ objects = [o \in Objects |-> InitialObject(o)]
    /\ call = [t \in Threads |-> NoCall]
    /\ at = [t \in Threads |-> "guest"]
    /\ cur \in Threads
    /\ fiber = [t \in Threads |-> IF t = cur THEN "Running" ELSE "Ready"]
    /\ noted = [t \in Threads |-> FALSE]
    /\ passed = [t \in Threads |-> FALSE]
    /\ caller = cur
    /\ status = "success"
    /\ mode = "run"
    /\ holds = [t \in Threads |-> [o \in Objects |-> 0]]

-----------------------------------------------------------------------------
(* Fibers *)

Eligible(t) ==
    \/ fiber[t] = "Ready"
    \/ fiber[t] = "Blocked" /\ (noted[t] \/ (at[t] = "timed" /\ passed[t]))

Others == {t \in Threads \ {cur} : Eligible(t)}

\* GuestFiberYield, GuestFiberSleepUntil: leave for another fiber.
SwitchAway(leaving) ==
    \E t \in Others :
        /\ fiber' = [fiber EXCEPT ![cur] = leaving, ![t] = "Running"]
        /\ noted' = [noted EXCEPT ![cur] = FALSE]
        /\ cur' = t

FaultyProgress == noted

\* GuestFiberNoteProgress.
Progress == [t \in Threads |-> TRUE]

-----------------------------------------------------------------------------
(* Guest code and what interrupts it *)

Running == mode = "run" /\ at[cur] = "guest"

\* What the title's own discipline allows the running thread to call.
Allowed(c) ==
    LET o == c.objects[1] IN
    /\ c.op \in {"Leave", "ReleaseLock"} => holds[cur][o] > 0
    /\ \A i \in DOMAIN c.objects :
          c.op \notin {"Leave", "ReleaseLock"} => holds[cur][c.objects[i]] < MaxDepth

\* r360_kernel_service_set_caller and the call.
StartCall(c) ==
    /\ Running
    /\ Allowed(c)
    /\ call' = [call EXCEPT ![cur] = c]
    /\ at' = [at EXCEPT ![cur] = "dispatch"]
    /\ caller' = cur
    /\ UNCHANGED <<objects, fiberVars, passed, status, mode, holds>>

\* An interrupt poll finds the quantum over.
Preempt ==
    /\ Running
    /\ SwitchAway("Ready")
    /\ UNCHANGED <<objects, call, at, passed, caller, status, mode, holds>>

\* An interrupt handler's KeSetEvent; the interrupted thread's registers are
\* put back afterwards.
Handler(e) ==
    /\ objects' = [objects EXCEPT ![e].signal = 1]
    /\ noted' = Progress
    /\ status' = "success"

Interrupt(e) ==
    /\ Running
    /\ Handler(e)
    /\ UNCHANGED <<call, at, fiber, cur, passed, caller, mode, holds>>

\* Guest time passes while the running thread computes.
DeadlinePasses(t) ==
    /\ Running
    /\ at[t] = "timed" /\ ~passed[t]
    /\ passed' = [passed EXCEPT ![t] = TRUE]
    /\ UNCHANGED <<objects, call, at, fiberVars, caller, status, mode, holds>>

-----------------------------------------------------------------------------
(* Leaving a call *)

\* What t's completed call takes and gives back.
Takes(os, c, t) ==
    CASE c.op = "Wait" -> Satisfying(os, c, t) \cap Mutants
      [] c.op \in {"Enter", "AcquireExclusive", "AcquireShared"} -> {c.objects[1]}
      [] c.op = "TryEnter" -> {o \in {c.objects[1]} : CanEnter(os, o, t)}
      [] c.op = "TryAcquireExclusive" -> {o \in {c.objects[1]} : CanAcquireExclusive(os, o)}
      [] c.op = "TryAcquireShared" -> {o \in {c.objects[1]} : CanAcquireShared(os, o)}
      [] OTHER -> {}

Gives(os, c, t) ==
    CASE c.op \in {"Leave", "ReleaseLock"} -> {c.objects[1]}
      [] c.op = "ReleaseMutant" -> {o \in {c.objects[1]} : MutantReleased(os, o, t) # os}
      [] OTHER -> {}

Held(os, c, t) ==
    [o \in Objects |-> holds[cur][o] + (IF o \in Takes(os, c, t) THEN 1 ELSE 0)
                                     - (IF o \in Gives(os, c, t) THEN 1 ELSE 0)]

\* The running thread's call returns to guest code.
Return ==
    /\ at' = [at EXCEPT ![cur] = "guest"]
    /\ call' = [call EXCEPT ![cur] = NoCall]
    /\ noted' = Progress
    /\ UNCHANGED <<fiber, cur>>

\* The call takes effect as thread t.
TakesEffect(os, t) ==
    /\ objects' = After(os, call[cur], t)
    /\ holds' = [holds EXCEPT ![cur] = Held(os, call[cur], t)]

\* The guest clock idles: interrupts fall in between, deadlines pass.
Idle(os) ==
    /\ Others = {}
    /\ \/ \E e \in InterruptEvents :
             /\ objects' = [os EXCEPT ![e].signal = 1]
             /\ noted' = Progress
             /\ status' = "success"
             /\ UNCHANGED passed
       \/ /\ \E t \in Threads :
                /\ at'[t] = "timed" /\ ~passed[t]
                /\ passed' = [passed EXCEPT ![t] = TRUE]
          /\ objects' = os
          /\ UNCHANGED <<noted, status>>
    /\ UNCHANGED <<fiber, cur>>

\* The dispatcher sees kKernelServiceWouldBlock: another fiber runs and the
\* call is dispatched again afterwards; or the CPU idles; or a deadlock is
\* reported and the run stops, when ten seconds have gone by since the call first
\* idled.  Nothing sets idle_started_ns back when other threads run in between,
\* and nothing looks for sleepers, so that may be whenever no other fiber can run.
Block(os) ==
    /\ at' = [at EXCEPT ![cur] = "retry"]
    /\ UNCHANGED call
    /\ \/ /\ SwitchAway("Blocked")
          /\ objects' = os
          /\ status' = "wouldBlock"
          /\ UNCHANGED <<passed, mode>>
       \/ Idle(os) /\ UNCHANGED mode
       \/ /\ Others = {}
          /\ mode' = "deadlock"
          /\ objects' = os
          /\ status' = "wouldBlock"
          /\ UNCHANGED <<fiberVars, passed>>

-----------------------------------------------------------------------------
(* DispatchExtendedKernelService *)

Dispatching == mode = "run" /\ at[cur] \in {"dispatch", "retry"}

FaultyRestoredCaller == caller

\* The dispatcher puts the caller's registers back before it tries again.
RestoredCaller == IF at[cur] = "retry" THEN cur ELSE caller

CanReturn == CanComplete(Presignaled(objects, call[cur]), call[cur], RestoredCaller)

\* Dispatched, the call can complete.
Completes ==
    /\ Dispatching /\ CanReturn
    /\ TakesEffect(Presignaled(objects, call[cur]), RestoredCaller)
    /\ caller' = RestoredCaller
    /\ status' = "success"
    /\ Return
    /\ UNCHANGED <<passed, mode>>

\* Dispatched, the call would block.
Blocks ==
    /\ Dispatching /\ ~CanReturn /\ ~call[cur].timed
    /\ Block(Presignaled(objects, call[cur]))
    /\ caller' = RestoredCaller
    /\ UNCHANGED holds

\* Dispatched, a wait with a timeout starts to sleep.
StartsTimed ==
    /\ Dispatching /\ ~CanReturn /\ call[cur].timed
    /\ at' = [at EXCEPT ![cur] = "timed"]
    /\ passed' = [passed EXCEPT ![cur] = FALSE]
    /\ caller' = RestoredCaller
    /\ status' = "success"
    /\ UNCHANGED <<objects, call, fiberVars, mode, holds>>

-----------------------------------------------------------------------------
(* A timed wait looks again: nothing restores the caller or g_status *)

Rechecking == mode = "run" /\ at[cur] = "timed"
Satisfied == CanComplete(objects, call[cur], caller)

\* The wait is satisfied, and the dispatcher returns.
TimedCompletes ==
    /\ Rechecking /\ Satisfied /\ status = "success"
    /\ TakesEffect(objects, caller)
    /\ Return
    /\ UNCHANGED <<passed, caller, status, mode>>

\* The wait is satisfied, but g_status is what another fiber's call left.
TimedCompletesUnseen ==
    /\ Rechecking /\ Satisfied /\ status = "wouldBlock"
    /\ objects' = After(objects, call[cur], caller)
    /\ at' = [at EXCEPT ![cur] = "unseen"]
    /\ UNCHANGED <<call, fiberVars, passed, caller, status, mode, holds>>

\* ... and the dispatcher blocks the thread as if nothing had happened.
UnseenBlocks ==
    /\ mode = "run" /\ at[cur] = "unseen"
    /\ Block(objects)
    /\ UNCHANGED <<caller, holds>>

\* The deadline has passed.
TimedElapses ==
    /\ Rechecking /\ ~Satisfied /\ passed[cur]
    /\ \/ /\ status = "success"
          /\ Return
          /\ UNCHANGED <<objects, passed, status, mode>>
       \/ /\ status = "wouldBlock"
          /\ Block(objects)
    /\ UNCHANGED <<caller, holds>>

\* Neither: the thread sleeps on, or the CPU idles.
TimedSleeps ==
    /\ Rechecking /\ ~Satisfied /\ ~passed[cur]
    /\ UNCHANGED <<call, at, caller, mode, holds>>
    /\ \/ /\ SwitchAway("Blocked")
          /\ UNCHANGED <<objects, passed, status>>
       \/ Idle(objects)

Ended == mode = "deadlock" /\ UNCHANGED vars

-----------------------------------------------------------------------------
Next ==
    \/ \E c \in TitleCalls : StartCall(c)
    \/ Preempt
    \/ \E e \in InterruptEvents : Interrupt(e)
    \/ \E t \in Threads : DeadlinePasses(t)
    \/ Completes \/ Blocks \/ StartsTimed
    \/ TimedCompletes \/ TimedCompletesUnseen \/ UnseenBlocks
    \/ TimedElapses \/ TimedSleeps
    \/ Ended

Spec == Init /\ [][Next]_vars

-----------------------------------------------------------------------------
(* Properties *)

\* The variables keep their types: no count leaves its range, whatever mix of
\* waits, releases, recursion and refused calls the title makes.
TypeOK ==
    /\ objects \in [Objects -> [signal : -MaxDepth .. Limit + MaxDepth * Cardinality(Threads),
                                owner : Threads \cup {Nobody},
                                depth : Nat]]
    /\ \A o \in Semaphores : objects[o].signal \in 0 .. Limit
    /\ \A o \in Events : objects[o].signal \in {0, 1}
    /\ \A t \in Threads : call[t] \in TitleCalls \cup {NoCall}
    /\ at \in [Threads -> {"guest", "dispatch", "retry", "timed", "unseen"}]
    /\ fiber \in [Threads -> {"Running", "Ready", "Blocked"}]
    /\ noted \in [Threads -> BOOLEAN] /\ passed \in [Threads -> BOOLEAN]
    /\ cur \in Threads /\ caller \in Threads
    /\ status \in {"success", "wouldBlock"}
    /\ mode \in {"run", "deadlock"}
    /\ holds \in [Threads -> [Objects -> 0 .. MaxDepth]]

\* No lost wakeup: a thread that is blocked in a call which could complete now,
\* whether it sleeps until a deadline or not, will be looked at again, because
\* progress was noted after it blocked.
NoLostWakeup ==
    \A t \in Threads : fiber[t] = "Blocked" /\ CanComplete(objects, call[t], t) => noted[t]

\* When a deadlock is reported, nobody can go on: every thread is in a call that
\* cannot complete, and those that wait with a timeout still have time.  Only if
\* there are none of these is it the "real deadlock" the code's comment names:
\* the timer neither looks for sleepers nor starts again when threads have run.
NobodyCanRun ==
    mode = "deadlock" =>
        \A t \in Threads : /\ at[t] = "retry" \/ (at[t] = "timed" /\ ~passed[t])
                          /\ ~CanComplete(objects, call[t], t)

\* Mutants and sections have one holder, whom they name, and count how often he
\* holds them; a lock has one holder or only sharing ones, and counts them.  All
\* of it while calls are blocked, dispatched again, tried and interrupted.
HoldersAgree ==
    /\ \A o \in Mutants \cup Sections, t \in Threads :
          holds[t][o] > 0 => /\ objects[o].owner = t
                             /\ holds[t][o] = IF o \in Mutants THEN 1 - objects[o].signal
                                              ELSE objects[o].depth
    /\ \A o \in Locks :
          LET total == Cardinality({h \in Threads \X (1 .. MaxDepth) : h[2] <= holds[h[1]][o]})
          IN  /\ total = objects[o].signal + 1
              /\ objects[o].depth \in {0, total}
              /\ objects[o].depth = 0 => total <= 1

\* The abstract state: a signal-and-wait that was dispatched has signalled.
Pending ==
    [t \in Threads |-> IF at[t] \in {"retry", "timed", "unseen"}
                       THEN [call[t] EXCEPT !.signal = NoObject]
                       ELSE call[t]]

Strict == INSTANCE KernelCalls WITH pending <- Pending, TimedRepeat <- FALSE
Lenient == INSTANCE KernelCalls WITH pending <- Pending, TimedRepeat <- TRUE

\* Every call takes effect exactly once, as the thread that made it, or, if it
\* timed out, not at all, although it may be dispatched any number of times.
ExactlyOnce == Strict!Spec

\* The same for every call but timed waits.
UntimedExactlyOnce == Lenient!Spec

\* Nobody sleeps through what he waits for, and nobody holds what another does.
WaitsAgree == NoLostWakeup /\ NobodyCanRun /\ HoldersAgree
=============================================================================
