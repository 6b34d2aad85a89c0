----------------------------- MODULE CallTrace -----------------------------
(***************************************************************************)
(* The rolling trace of kernel calls (kernel_import_probe.cpp): a call     *)
(* takes an entry before its service runs and keeps a pointer to it; a     *)
(* service that blocks lets other fibers call meanwhile, and a service may *)
(* call the guest back.  The page lists the newest calls after a stop      *)
(* (render360-title-controller.mjs) or the first of those held             *)
(* (v74-kernel-trace.mjs).                                                 *)
(***************************************************************************)
EXTENDS Integers, Sequences

CONSTANTS
    TraceCapacity, \* kMaxKernelServiceTrace
    TraceCallers,  \* fibers that call
    MaxTraced,     \* bound on the calls
    RecentLimit,   \* calls the title controller lists
    OldestLimit    \* calls the V74 trace lists

ASSUME TraceAssumption ==
    /\ TraceCapacity \in Nat \ {0} /\ MaxTraced \in Nat
    /\ RecentLimit \in Nat \ {0} /\ OldestLimit \in Nat \ {0}

VARIABLE trace

Smaller(a, b) == IF a < b THEN a ELSE b

(* A result is named by the call that produced it; 0 is none yet.           *)
Unused == [call |-> 0, result |-> 0]

(* pointers[c]: the entries the calls under way on c keep, innermost last.  *)
TraceInit ==
    trace = [ring |-> [i \in 0 .. TraceCapacity - 1 |-> Unused], total |-> 0,
             pointers |-> [c \in TraceCallers |-> <<>>], overtaken |-> FALSE]

(* BeginKernelServiceTrace *)
BeginTrace(c) ==
    /\ trace.total < MaxTraced
    /\ LET position == trace.total % TraceCapacity
           call == trace.total + 1
       IN  trace' = [trace EXCEPT !.ring[position] = [call |-> call, result |-> 0],
                                  !.total = call,
                                  !.pointers[c] = Append(@, [at |-> position, call |-> call])]

(* FinishKernelServiceTrace *)
FaultyFinished(pointer) ==
    [trace.ring EXCEPT ![(trace.total - 1) % TraceCapacity].result = pointer.call]
Finished(pointer) == [trace.ring EXCEPT ![pointer.at].result = pointer.call]

(* The end of TryBuiltInKernelService; overtaken notes that the entry was   *)
(* given to a later call meanwhile.                                         *)
FinishTrace(c) ==
    /\ trace.pointers[c] # <<>>
    /\ LET open == trace.pointers[c]
           pointer == open[Len(open)]
       IN  trace' = [trace EXCEPT !.ring = Finished(pointer),
                                  !.pointers[c] = SubSeq(open, 1, Len(open) - 1),
                                  !.overtaken = @ \/ trace.ring[pointer.at].call # pointer.call]

TraceNext == \E c \in TraceCallers : BeginTrace(c) \/ FinishTrace(c)

TraceSpec == TraceInit /\ [][TraceNext]_trace

-----------------------------------------------------------------------------
(* What is read of it                                                      *)

(* KernelImportServiceTraceCount *)
Retained == Smaller(trace.total, TraceCapacity)

(* KernelServiceTraceAt *)
EntryAt(index) == trace.ring[(trace.total - Retained + index) % TraceCapacity]

(* readKernelServiceTrace *)
RecentCalls ==
    LET skipped == Retained - Smaller(Retained, RecentLimit)
    IN  [i \in 1 .. Retained - skipped |-> EntryAt(skipped + i - 1)]

(* readNativeKernelTrace *)
OldestCalls == [i \in 1 .. Smaller(Retained, OldestLimit) |-> EntryAt(i - 1)]

-----------------------------------------------------------------------------
(* The controller lists the last calls made and the V74 trace the first of  *)
(* those still held, each in the order they were made, none twice, however  *)
(* often the ring has wrapped.                                              *)
RecentAreLast ==
    /\ \A i \in DOMAIN RecentCalls : RecentCalls[i].call = trace.total - Len(RecentCalls) + i
    /\ \A i \in DOMAIN OldestCalls : OldestCalls[i].call = trace.total - Retained + i

(* As long as no call took longer than the ring goes round, every call      *)
(* listed has its own result, and one without a result is one that has not  *)
(* returned: a blocked service writes to the entry it took.                 *)
ResultsAreOwn ==
    ~trace.overtaken =>
        \A index \in 0 .. Retained - 1 :
            LET entry == EntryAt(index)
                underWay == \E c \in TraceCallers : \E k \in DOMAIN trace.pointers[c] :
                                trace.pointers[c][k].call = entry.call
            IN  entry.result = (IF underWay THEN 0 ELSE entry.call)

\* The trace lists the calls that were made, with the results they had.
TraceIsTrue == RecentAreLast /\ ResultsAreOwn
=============================================================================
