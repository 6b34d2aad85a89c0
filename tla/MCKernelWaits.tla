---------------------------- MODULE MCKernelWaits ----------------------------
(***************************************************************************)
(* Kernel waits on small instances: what the title calls on which objects. *)
(***************************************************************************)
EXTENDS KernelWaits

CONSTANTS event, sem, mutant, section, lock

\* A section, a mutant and a semaphore that are waited for alone or together,
\* and an event that is waited for with a timeout and set by an interrupt.
MixedCalls ==
    {Plain("Enter", section), Plain("TryEnter", section), Plain("Leave", section),
     Plain("SetEvent", event), Wait(<<event>>, FALSE, TRUE),
     Wait(<<mutant, sem>>, TRUE, FALSE), Wait(<<sem, mutant>>, FALSE, FALSE),
     Plain("ReleaseMutant", mutant), Plain("ReleaseSemaphore", sem)}

\* Readers and writers of a lock, and a plain wait for an event.
LockCalls ==
    {Plain("AcquireExclusive", lock), Plain("TryAcquireExclusive", lock),
     Plain("AcquireShared", lock), Plain("TryAcquireShared", lock),
     Plain("ReleaseLock", lock),
     Wait(<<event>>, FALSE, FALSE), Plain("SetEvent", event),
     Plain("ResetEvent", event), Plain("PulseEvent", event)}

\* An event is waited for with a timeout while others wait for another object.
TimedCalls ==
    {Wait(<<event>>, FALSE, TRUE), Plain("SetEvent", event), Wait(<<sem>>, FALSE, FALSE)}

\* A semaphore is released on the way into a wait for an event.
SignalCalls == {SignalAndWait(sem, event), Wait(<<sem>>, FALSE, FALSE), Plain("SetEvent", event)}
=============================================================================
