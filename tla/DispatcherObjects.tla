-------------------------- MODULE DispatcherObjects --------------------------
(***************************************************************************)
(* The kernel objects guest threads synchronise on, as the services of     *)
(* kernel_xboxkrnl_services.cpp read and write them in guest memory:       *)
(* events, semaphores and mutants (X_DISPATCH_HEADER), critical sections   *)
(* and reader/writer locks.  This module has no state: it says when a call *)
(* by a thread can complete on given objects, and what it does to them.    *)
(*                                                                         *)
(* One record serves every kind.  signal is the signal state of an event,  *)
(* semaphore or mutant and the lock_count of a section or lock (-1: free); *)
(* depth is the recursion count of a section and readers_entry of a lock.  *)
(***************************************************************************)
EXTENDS Integers, Sequences

CONSTANTS
    Threads, Nobody,
    NotificationEvents, SynchronizationEvents, Semaphores, Mutants,
    Sections, Locks,
    NoObject,
    Limit          \* the limit semaphores are created with

Events == NotificationEvents \cup SynchronizationEvents
Dispatchers == Events \cup Semaphores \cup Mutants
Objects == Dispatchers \cup Sections \cup Locks

ASSUME ObjectsAssumption ==
    /\ Nobody \notin Threads
    /\ NoObject \notin Objects
    /\ Limit \in Nat \ {0}
    /\ NotificationEvents \cap SynchronizationEvents = {}
    /\ Events \cap Semaphores = {}
    /\ (Events \cup Semaphores) \cap Mutants = {}
    /\ Dispatchers \cap Sections = {}
    /\ (Dispatchers \cup Sections) \cap Locks = {}

\* As they are initialised: events reset, semaphores empty, the rest free.
InitialObject(o) ==
    [signal |-> IF o \in Events \cup Semaphores THEN 0
                ELSE IF o \in Mutants THEN 1 ELSE -1,
     owner |-> Nobody,
     depth |-> 0]

\* A kernel call: a wait on objects (all of them, or any), perhaps after
\* signalling another object, perhaps with a timeout; or a call on one object.
CallOn(op, objects, all, timed, signal) ==
    [op |-> op, objects |-> objects, all |-> all, timed |-> timed, signal |-> signal]
Wait(objects, all, timed) == CallOn("Wait", objects, all, timed, NoObject)
SignalAndWait(s, o) == CallOn("Wait", <<o>>, FALSE, FALSE, s)
Plain(op, o) == CallOn(op, <<o>>, FALSE, FALSE, NoObject)
NoCall == CallOn("None", <<>>, FALSE, FALSE, NoObject)

\* The operators named Faulty... are wrong variants of the definition that
\* follows them: replacing it by one must break a property stated in a module
\* that uses this one.

-----------------------------------------------------------------------------
(* Waits on dispatcher objects *)

\* DispatcherSignaled: t's wait on o can be satisfied now.
Signaled(os, o, t) == os[o].signal > 0 \/ (o \in Mutants /\ os[o].owner = t)

\* ConsumeSignal.
Consumed(os, o, t) ==
    CASE o \in SynchronizationEvents -> [os[o] EXCEPT !.signal = 0]
      [] o \in Semaphores -> [os[o] EXCEPT !.signal = @ - 1]
      [] o \in Mutants -> [os[o] EXCEPT !.signal = @ - 1, !.owner = t]
      [] OTHER -> os[o]

\* The objects a satisfied wait consumes: all, or the first signalled one.
Satisfying(os, c, t) ==
    {c.objects[i] : i \in {i \in DOMAIN c.objects :
        \/ c.all
        \/ /\ Signaled(os, c.objects[i], t)
           /\ \A j \in 1 .. i - 1 : ~Signaled(os, c.objects[j], t)}}

\* NtSignalAndWaitForSingleObjectEx signals before it waits.
Presignaled(os, c) ==
    LET s == c.signal IN
    IF s = NoObject THEN os
    ELSE IF s \in Events THEN [os EXCEPT ![s].signal = 1]
    ELSE IF s \in Semaphores THEN [os EXCEPT ![s].signal = @ + 1]
    ELSE [os EXCEPT ![s].signal = @ + 1,
                    ![s].owner = IF os[s].signal + 1 > 0 THEN Nobody ELSE @]

-----------------------------------------------------------------------------
(* Critical sections and reader/writer locks *)

\* RtlEnterCriticalSection and RtlTryEnterCriticalSection.
CanEnter(os, o, t) == os[o].owner = t \/ os[o].signal = -1
Entered(os, o, t) ==
    IF os[o].owner = t
    THEN [os EXCEPT ![o].signal = @ + 1, ![o].depth = @ + 1]
    ELSE [os EXCEPT ![o] = [signal |-> 0, owner |-> t, depth |-> 1]]

\* RtlLeaveCriticalSection, which does not look at the owner.
Left(os, o) ==
    IF os[o].depth = 0 THEN os
    ELSE [os EXCEPT ![o] = [signal |-> @.signal - 1, depth |-> @.depth - 1,
                            owner |-> IF @.depth = 1 THEN Nobody ELSE @.owner]]

\* ExAcquireReadWriteLockExclusive and ...Shared; writers_waiting, which no
\* service ever sets, is 0.
CanAcquireExclusive(os, o) == os[o].signal < 0
AcquiredExclusive(os, o) == [os EXCEPT ![o].signal = 0]
CanAcquireShared(os, o) == os[o].signal < 0 \/ os[o].depth # 0
AcquiredShared(os, o) == [os EXCEPT ![o].signal = @ + 1, ![o].depth = @ + 1]

\* ExReleaseReadWriteLock.
LockReleased(os, o) ==
    LET count == os[o].signal - 1 IN
    [os EXCEPT ![o].signal = count,
               ![o].depth = IF count < 0 \/ @ = 0 THEN 0 ELSE @ - 1]

-----------------------------------------------------------------------------
(* Releases that always return *)

FaultySemaphoreReleased(os, o) == [os EXCEPT ![o].signal = @ + 1]

\* KeReleaseSemaphore and NtReleaseSemaphore by one.
SemaphoreReleased(os, o) ==
    IF os[o].signal + 1 > Limit THEN os ELSE [os EXCEPT ![o].signal = @ + 1]

\* NtReleaseMutant, refused unless t owns it.
MutantReleased(os, o, t) ==
    IF os[o].owner # t \/ os[o].signal > 0 THEN os
    ELSE [os EXCEPT ![o].signal = @ + 1,
                    ![o].owner = IF os[o].signal + 1 > 0 THEN Nobody ELSE @]

-----------------------------------------------------------------------------
(* A whole call *)

\* The call c by t would not block.
CanComplete(os, c, t) ==
    LET o == c.objects[1] IN
    CASE c.op = "Wait" ->
            IF c.all THEN \A i \in DOMAIN c.objects : Signaled(os, c.objects[i], t)
            ELSE \E i \in DOMAIN c.objects : Signaled(os, c.objects[i], t)
      [] c.op = "Enter" -> CanEnter(os, o, t)
      [] c.op = "AcquireExclusive" -> CanAcquireExclusive(os, o)
      [] c.op = "AcquireShared" -> CanAcquireShared(os, o)
      [] OTHER -> TRUE

\* The objects after the call c by t, when it can complete.
After(os, c, t) ==
    LET o == c.objects[1] IN
    CASE c.op = "Wait" ->
            [p \in Objects |-> IF p \in Satisfying(os, c, t) THEN Consumed(os, p, t)
                               ELSE os[p]]
      [] c.op = "Enter" -> Entered(os, o, t)
      [] c.op = "TryEnter" -> IF CanEnter(os, o, t) THEN Entered(os, o, t) ELSE os
      [] c.op = "Leave" -> Left(os, o)
      [] c.op = "AcquireExclusive" -> AcquiredExclusive(os, o)
      [] c.op = "TryAcquireExclusive" ->
            IF CanAcquireExclusive(os, o) THEN AcquiredExclusive(os, o) ELSE os
      [] c.op = "AcquireShared" -> AcquiredShared(os, o)
      [] c.op = "TryAcquireShared" ->
            IF CanAcquireShared(os, o) THEN AcquiredShared(os, o) ELSE os
      [] c.op = "ReleaseLock" -> LockReleased(os, o)
      [] c.op = "SetEvent" -> [os EXCEPT ![o].signal = 1]
      [] c.op \in {"ResetEvent", "PulseEvent"} -> [os EXCEPT ![o].signal = 0]
      [] c.op = "ReleaseSemaphore" -> SemaphoreReleased(os, o)
      [] c.op = "ReleaseMutant" -> MutantReleased(os, o, t)
=============================================================================
