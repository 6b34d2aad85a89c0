--------------------------- MODULE ThreadRegistry ---------------------------
(***************************************************************************)
(* The guest-thread registry of kernel_runtime_foundation.cpp: a fixed     *)
(* array of thread slots, the current thread, the round-robin cursor and   *)
(* the thread-local-storage indexes.  The browser thread scheduler, the    *)
(* fiber scheduler and the kernel services all act on threads through      *)
(* handles of this registry, and handles outlive the threads they name.    *)
(*                                                                         *)
(* A slot is an index of g_threads.  Each field of GuestThread that the    *)
(* control flow reads is a function on the slots.  A handle is the pair    *)
(* <<slot, generation>> that MakeHandle packs into a word; the word 0 is   *)
(* NoHandle, whose slot is no index of the array.  Operations that fail    *)
(* leave the registry alone and are stuttering steps.                      *)
(***************************************************************************)
EXTENDS Naturals, FiniteSets

CONSTANTS
    MaxThreads,         \* kMaxThreads: slots in g_threads
    ReservedSlot,       \* kBrowserMainThreadReservedSlot: the primary thread's
    GenerationModulus,  \* 2^16: a generation is a uint16_t
    MaxReuse,           \* bound: how often a slot may change its generation
    MaxSuspendCount,    \* 0xFFFFFFFF: SuspendThread refuses beyond it
    MaxTlsSlots,        \* kMaxTlsSlots: thread-local-storage indexes
    TlsValues           \* values a title stores; 0 is the cleared value

ASSUME RegistryAssumption ==
    /\ MaxThreads \in Nat \ {0}
    /\ ReservedSlot \in 0 .. MaxThreads - 1
    /\ MaxReuse \in Nat
    /\ GenerationModulus \in Nat /\ MaxReuse + 1 < GenerationModulus
    /\ MaxSuspendCount \in Nat \ {0}
    /\ MaxTlsSlots \in Nat
    /\ 0 \in TlsValues

Slots == 0 .. MaxThreads - 1
TlsIndexes == 0 .. MaxTlsSlots - 1
Generations == 0 .. GenerationModulus - 1
ThreadStates == {"Invalid", "Ready", "Running", "Suspended", "Terminated"}

NoHandle == <<MaxThreads, 0>>
Handles == Slots \X Generations

VARIABLES
    used,          \* GuestThread::used
    mapped,        \* GuestThread::stack_mapped
    external,      \* GuestThread::external
    generation,    \* GuestThread::generation
    state,         \* GuestThread::state
    suspendCount,  \* GuestThread::suspend_count
    tls,           \* GuestThread::tls
    tlsAllocated,  \* g_tls_allocated: the indexes in use
    current,       \* g_current_thread
    cursor,        \* g_scheduler_cursor
    retired,       \* history: handles of threads that ended or were replaced
    written        \* history: <<handle, index>> pairs a title has stored to

threadVars == <<used, mapped, external, generation, state, suspendCount>>
tlsVars == <<tls, tlsAllocated, written>>
vars == <<threadVars, tlsVars, current, cursor, retired>>

Init ==
    /\ used = [s \in Slots |-> FALSE]
    /\ mapped = [s \in Slots |-> FALSE]
    /\ external = [s \in Slots |-> FALSE]
    /\ generation = [s \in Slots |-> 0]
    /\ state = [s \in Slots |-> "Invalid"]
    /\ suspendCount = [s \in Slots |-> 0]
    /\ tls = [s \in Slots |-> [i \in TlsIndexes |-> 0]]
    /\ tlsAllocated = {}
    /\ current = NoHandle
    /\ cursor = 0
    /\ retired = {}
    /\ written = {}

-----------------------------------------------------------------------------
(* Handles *)

\* The operators named Faulty... are wrong variants of the definition that
\* follows them: replacing it by one must break a property stated below.
FaultyNextGeneration(g) == IF g = 0 THEN 1 ELSE g

NextGeneration(g) ==
    LET next == (g + 1) % GenerationModulus IN IF next = 0 THEN 1 ELSE next

HandleOf(s) == <<s, generation[s]>>

Decodes(h) ==
    /\ h[1] \in Slots
    /\ used[h[1]]
    /\ generation[h[1]] = h[2]

\* LookupThread without allow_terminated: the handle names a live thread.
Live(h) == Decodes(h) /\ state[h[1]] # "Terminated"

\* SetCurrentThread's conditions on the thread it switches to.
Switchable(s) ==
    /\ state[s] # "Terminated"
    /\ suspendCount[s] = 0
    /\ mapped[s]

\* r360_guest_thread_runnable_list: title threads that may run now.
Runnable(s) == used[s] /\ Switchable(s) /\ ~external[s]

FaultyDemoted == state

\* The state array after the old current thread has stopped running.
Demoted ==
    IF Decodes(current) /\ state[current[1]] = "Running"
    THEN [state EXCEPT ![current[1]] = "Ready"]
    ELSE state

-----------------------------------------------------------------------------
(* Thread lifecycle *)

\* The thread-local storage after slot s was given to a new thread.
FreshTls(s) == [tls EXCEPT ![s] = [i \in TlsIndexes |-> 0]]

\* SuspendThread's conditions: a live thread, its counter below the ceiling.
Suspendable(h) == Live(h) /\ suspendCount[h[1]] # MaxSuspendCount

Reset ==
    /\ \A s \in Slots : generation[s] < MaxReuse
    /\ used' = [s \in Slots |-> FALSE]
    /\ mapped' = [s \in Slots |-> FALSE]
    /\ external' = [s \in Slots |-> FALSE]
    /\ generation' = [s \in Slots |-> NextGeneration(generation[s])]
    /\ state' = [s \in Slots |-> "Invalid"]
    /\ suspendCount' = [s \in Slots |-> 0]
    /\ tls' = [s \in Slots |-> [i \in TlsIndexes |-> 0]]
    /\ tlsAllocated' = {}
    /\ current' = NoHandle
    /\ cursor' = 0
    /\ retired' = retired \cup {HandleOf(s) : s \in {x \in Slots : used[x]}}
    /\ written' = {}

\* A slot CreateThread may take, and the one it takes: the first.
Free(s) == s # ReservedSlot /\ (~used[s] \/ state[s] = "Terminated")
FirstFree(s) == Free(s) /\ \A r \in Slots : Free(r) => s <= r

\* CreateThread, the new stack mapped.
CreateThread(s) ==
    LET handle == <<s, NextGeneration(generation[s])>> IN
    /\ FirstFree(s)
    /\ generation[s] < MaxReuse
    /\ used' = [used EXCEPT ![s] = TRUE]
    /\ mapped' = [mapped EXCEPT ![s] = TRUE]
    /\ external' = [external EXCEPT ![s] = FALSE]
    /\ generation' = [generation EXCEPT ![s] = NextGeneration(@)]
    /\ suspendCount' = [suspendCount EXCEPT ![s] = 0]
    /\ tls' = FreshTls(s)
    /\ IF current = NoHandle
       THEN /\ state' = [state EXCEPT ![s] = "Running"]
            /\ current' = handle
            /\ cursor' = s
       ELSE /\ state' = [state EXCEPT ![s] = "Ready"]
            /\ UNCHANGED <<current, cursor>>
    /\ UNCHANGED <<tlsAllocated, retired, written>>

\* RegisterExternalThread: the loader's primary thread takes the reserved slot.
RegisterExternalThread ==
    LET r == ReservedSlot
        handle == <<r, NextGeneration(generation[r])>>
        stillDecodes == Decodes(current) /\ current[1] # r
    IN
    /\ generation[r] < MaxReuse
    /\ used' = [used EXCEPT ![r] = TRUE]
    /\ mapped' = [mapped EXCEPT ![r] = TRUE]
    /\ external' = [external EXCEPT ![r] = TRUE]
    /\ generation' = [generation EXCEPT ![r] = NextGeneration(@)]
    /\ suspendCount' = [suspendCount EXCEPT ![r] = 0]
    /\ tls' = FreshTls(r)
    /\ state' = [(IF stillDecodes THEN Demoted ELSE state) EXCEPT ![r] = "Running"]
    /\ current' = handle
    /\ cursor' = r
    /\ retired' = retired \cup (IF used[r] THEN {HandleOf(r)} ELSE {})
    /\ UNCHANGED <<tlsAllocated, written>>

SetCurrentThread(h) ==
    /\ Decodes(h)
    /\ Switchable(h[1])
    /\ state' = [Demoted EXCEPT ![h[1]] = "Running"]
    /\ current' = h
    /\ cursor' = h[1]
    /\ UNCHANGED <<used, mapped, external, generation, suspendCount>>
    /\ UNCHANGED <<tlsVars, retired>>

SuspendThread(h) ==
    /\ Suspendable(h)
    /\ suspendCount' = [suspendCount EXCEPT ![h[1]] = @ + 1]
    /\ state' = [state EXCEPT ![h[1]] = "Suspended"]
    /\ current' = IF h = current THEN NoHandle ELSE current
    /\ UNCHANGED <<used, mapped, external, generation>>
    /\ UNCHANGED <<tlsVars, cursor, retired>>

ResumeThread(h) ==
    /\ Live(h)
    /\ suspendCount[h[1]] > 0
    /\ mapped[h[1]]
    /\ suspendCount' = [suspendCount EXCEPT ![h[1]] = @ - 1]
    /\ state' = IF suspendCount[h[1]] = 1
                THEN [state EXCEPT ![h[1]] = "Ready"]
                ELSE state
    /\ UNCHANGED <<used, mapped, external, generation>>
    /\ UNCHANGED <<tlsVars, current, cursor, retired>>

TerminateThread(h) ==
    /\ Live(h)
    /\ state' = [state EXCEPT ![h[1]] = "Terminated"]
    /\ suspendCount' = [suspendCount EXCEPT ![h[1]] = 0]
    /\ mapped' = [mapped EXCEPT ![h[1]] = FALSE]
    /\ current' = IF h = current THEN NoHandle ELSE current
    /\ retired' = retired \cup {h}
    /\ UNCHANGED <<used, external, generation, tlsVars, cursor>>

\* Steps from the cursor to slot s; the cursor's own slot comes last.
Distance(s) ==
    LET d == (s + MaxThreads - cursor) % MaxThreads
    IN  IF d = 0 THEN MaxThreads ELSE d

NextRunnable ==
    \E s \in Slots :
        /\ Runnable(s)
        /\ \A r \in Slots : Runnable(r) => Distance(s) <= Distance(r)
        /\ SetCurrentThread(HandleOf(s))

-----------------------------------------------------------------------------
(* Thread-local storage *)

TlsAlloc(i) ==
    /\ i \notin tlsAllocated
    /\ \A j \in TlsIndexes : j < i => j \in tlsAllocated
    /\ tlsAllocated' = tlsAllocated \cup {i}
    /\ tls' = [s \in Slots |-> [tls[s] EXCEPT ![i] = 0]]
    /\ UNCHANGED <<threadVars, current, cursor, retired, written>>

TlsFree(i) ==
    /\ i \in tlsAllocated
    /\ tlsAllocated' = tlsAllocated \ {i}
    /\ tls' = [s \in Slots |-> [tls[s] EXCEPT ![i] = 0]]
    /\ written' = {w \in written : w[2] # i}
    /\ UNCHANGED <<threadVars, current, cursor, retired>>

TlsSet(h, i, v) ==
    /\ Live(h)
    /\ i \in tlsAllocated
    /\ tls' = [tls EXCEPT ![h[1]][i] = v]
    /\ written' = written \cup {<<h, i>>}
    /\ UNCHANGED <<threadVars, tlsAllocated, current, cursor, retired>>

-----------------------------------------------------------------------------
\* Any handle a caller can hold: one of a generation already given out.
Issued == UNION {{<<s, g>> : g \in 0 .. generation[s]} : s \in Slots}

Next ==
    \/ Reset
    \/ \E s \in Slots : CreateThread(s)
    \/ RegisterExternalThread
    \/ \E h \in Issued :
          \/ SetCurrentThread(h)
          \/ SuspendThread(h)
          \/ ResumeThread(h)
          \/ TerminateThread(h)
          \/ \E i \in TlsIndexes, v \in TlsValues : TlsSet(h, i, v)
    \/ NextRunnable
    \/ \E i \in TlsIndexes : TlsAlloc(i) \/ TlsFree(i)

Spec == Init /\ [][Next]_vars

-----------------------------------------------------------------------------
(* Properties *)

\* The registry's variables keep their types; generations stay within the bound.
TypeOK ==
    /\ used \in [Slots -> BOOLEAN]
    /\ mapped \in [Slots -> BOOLEAN]
    /\ external \in [Slots -> BOOLEAN]
    /\ generation \in [Slots -> 0 .. MaxReuse]
    /\ state \in [Slots -> ThreadStates]
    /\ suspendCount \in [Slots -> 0 .. MaxSuspendCount]
    /\ tls \in [Slots -> [TlsIndexes -> TlsValues]]
    /\ tlsAllocated \in SUBSET TlsIndexes
    /\ current \in Handles \cup {NoHandle}
    /\ cursor \in Slots
    /\ retired \in SUBSET Handles
    /\ written \in SUBSET (Handles \X TlsIndexes)

\* A slot is in state Running exactly when g_current_thread names it, however
\* creations, switches, suspensions and registrations of the external thread
\* interleave: two threads never believe they run, and kernel services that act
\* on the current thread act on the running one.
RunningIsCurrent ==
    \A s \in Slots : state[s] = "Running" <=> current = HandleOf(s)

\* A live thread is Suspended exactly while its suspend count is positive, and
\* it has a mapped stack exactly until it terminates.  Otherwise ResumeThread
\* would refuse it, or SetCurrentThread run a thread without a stack.
LifecycleCoherent ==
    \A s \in Slots :
        /\ suspendCount[s] > 0 <=> state[s] = "Suspended"
        /\ mapped[s] <=> state[s] \in {"Ready", "Running", "Suspended"}
        /\ used[s] <=> state[s] # "Invalid"
        /\ external[s] => s = ReservedSlot

\* Once a thread has terminated, or its slot was reset or registered again, its
\* handle never resolves to a live thread, however often the slot is reused.
RetiredHandlesStayDead == \A h \in retired : ~Live(h)

\* A nonzero thread-local value was stored by this very thread after the index
\* was last allocated: no thread reads what an earlier thread of its slot, or
\* an earlier owner of the index, left behind.
TlsValuesAreOwn ==
    \A s \in Slots, i \in TlsIndexes :
        tls[s][i] # 0 => i \in tlsAllocated /\ <<HandleOf(s), i>> \in written

\* What the registry says of its threads agrees: who is current, who runs, who
\* is suspended, and who has a stack.
StatesAgree == TypeOK /\ RunningIsCurrent /\ LifecycleCoherent

\* Neither a handle nor a thread-local value of a thread that has ended reaches
\* the next thread of its slot.
NothingOutlivesItsThread == RetiredHandlesStayDead /\ TlsValuesAreOwn
=============================================================================
