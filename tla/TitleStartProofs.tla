-------------------------- MODULE TitleStartProofs --------------------------
(***************************************************************************)
(* Proofs about what a title needs to start: the registry of its threads,  *)
(* for any number of slots (Inv is inductive; CurrentValid and RetiredOrder*)
(* are the strengthenings it needs); its image, imports, boot and host     *)
(* reads, for any blocks, chunk lengths and numbers of boots; and its      *)
(* files and saved content, for any paths and packages.                    *)
(***************************************************************************)
EXTENDS ThreadRegistry, TitleImage, ContentFiles, DataLemmas

-----------------------------------------------------------------------------
(* The registry of guest threads (ThreadRegistry)                            *)

\* g_current_thread is 0 or names the thread that now holds its slot: a stale
\* current handle would start to name the next thread of that slot.
CurrentValid ==
    current # NoHandle => current[1] \in Slots /\ current = HandleOf(current[1])

\* A retired handle is of an earlier generation of its slot, or of the present
\* one while the slot is unused or its thread is terminated.
RetiredOrder ==
    \A h \in retired :
        /\ h[2] <= generation[h[1]]
        /\ h[2] = generation[h[1]] => state[h[1]] \in {"Invalid", "Terminated"}

Inv ==
    /\ TypeOK
    /\ RunningIsCurrent
    /\ LifecycleCoherent
    /\ CurrentValid
    /\ RetiredOrder
    /\ TlsValuesAreOwn

-----------------------------------------------------------------------------
\* Below the bound on reuse, the next generation of a slot is its successor:
\* the wrap of the 16-bit counter is not reached (MakeHandle, CreateThread).
LEMMA NextGenerationIsSuccessor ==
    ASSUME NEW g \in 0 .. MaxReuse, g < MaxReuse
    PROVE  NextGeneration(g) = g + 1 /\ NextGeneration(g) \in 1 .. MaxReuse
<1>1. g + 1 \in Nat /\ g + 1 < GenerationModulus /\ g + 1 # 0
  BY RegistryAssumption
<1>2. (g + 1) % GenerationModulus = g + 1
  BY <1>1, RegistryAssumption
<1>. QED
  BY <1>1, <1>2, RegistryAssumption DEF NextGeneration

LEMMA InitInv == Init => Inv
<1>. SUFFICES ASSUME Init PROVE Inv
  OBVIOUS
<1>. USE RegistryAssumption DEF Init, Slots
<1>1. TypeOK
  BY DEF TypeOK, ThreadStates, Handles, Generations, NoHandle, TlsIndexes
<1>2. RunningIsCurrent
  BY DEF RunningIsCurrent, HandleOf, NoHandle
<1>3. LifecycleCoherent
  BY DEF LifecycleCoherent
<1>4. CurrentValid /\ RetiredOrder
  BY DEF CurrentValid, RetiredOrder
<1>5. TlsValuesAreOwn
  BY DEF TlsValuesAreOwn, TlsIndexes
<1>. QED
  BY <1>1, <1>2, <1>3, <1>4, <1>5 DEF Inv

-----------------------------------------------------------------------------
(* One lemma per action: it preserves the invariant.  TypeOK comes first,   *)
(* then the conjuncts the action can disturb.                               *)

LEMMA CreateThreadInv ==
    ASSUME Inv, NEW s \in Slots, CreateThread(s)
    PROVE  Inv'
<1>. DEFINE next == NextGeneration(generation[s])
<1>1. next = generation[s] + 1 /\ next \in 1 .. MaxReuse
  BY NextGenerationIsSuccessor DEF Inv, TypeOK, CreateThread
<1>2. next \in Generations
  BY <1>1, RegistryAssumption DEF Generations
<1>. HIDE DEF next
<1>3. /\ used' = [used EXCEPT ![s] = TRUE]
      /\ mapped' = [mapped EXCEPT ![s] = TRUE]
      /\ external' = [external EXCEPT ![s] = FALSE]
      /\ generation' = [generation EXCEPT ![s] = next]
      /\ suspendCount' = [suspendCount EXCEPT ![s] = 0]
      /\ tls' = [tls EXCEPT ![s] = [i \in TlsIndexes |-> 0]]
      /\ tlsAllocated' = tlsAllocated /\ retired' = retired /\ written' = written
  BY DEF CreateThread, FreshTls, next
<1>4. \/ /\ current = NoHandle
         /\ state' = [state EXCEPT ![s] = "Running"]
         /\ current' = <<s, next>> /\ cursor' = s
      \/ /\ current # NoHandle
         /\ state' = [state EXCEPT ![s] = "Ready"]
         /\ current' = current /\ cursor' = cursor
  BY DEF CreateThread, next
<1>5. s # ReservedSlot /\ (~used[s] \/ state[s] = "Terminated")
  BY DEF CreateThread, FirstFree, Free
<1>6. TypeOK'
  <2>1. current' \in Handles \cup {NoHandle} /\ cursor' \in Slots
    BY <1>2, <1>4 DEF Inv, TypeOK, Handles
  <2>2. generation' \in [Slots -> 0 .. MaxReuse]
    BY <1>1, <1>3 DEF Inv, TypeOK
  <2>3. tls' \in [Slots -> [TlsIndexes -> TlsValues]]
    BY <1>3, RegistryAssumption DEF Inv, TypeOK
  <2>4. state' \in [Slots -> ThreadStates]
    BY <1>4 DEF Inv, TypeOK, ThreadStates
  <2>5. suspendCount' \in [Slots -> 0 .. MaxSuspendCount]
    BY <1>3, RegistryAssumption DEF Inv, TypeOK
  <2>. QED
    BY <1>3, <2>1, <2>2, <2>3, <2>4, <2>5 DEF Inv, TypeOK
<1>7. state[s] \in {"Invalid", "Terminated"}
  BY <1>5 DEF Inv, LifecycleCoherent
<1>8. current # HandleOf(s)
  BY <1>7 DEF Inv, RunningIsCurrent
<1>9. RunningIsCurrent' /\ CurrentValid'
  <2>1. \A t \in Slots : NoHandle # <<t, generation[t]>>
    BY RegistryAssumption DEF NoHandle, Slots
  <2>2. CASE current = NoHandle
    BY <1>3, <1>4, <2>1, <2>2
    DEF Inv, TypeOK, RunningIsCurrent, CurrentValid, HandleOf
  <2>3. CASE current # NoHandle
    BY <1>1, <1>3, <1>4, <1>8, <2>3
    DEF Inv, TypeOK, RunningIsCurrent, CurrentValid, HandleOf, ThreadStates
  <2>. QED
    BY <2>2, <2>3
<1>10. LifecycleCoherent'
  BY <1>3, <1>4, <1>5 DEF Inv, TypeOK, LifecycleCoherent
<1>11. RetiredOrder'
  <2>1. \A h \in retired : h[1] \in Slots /\ h[2] \in Nat
    BY RegistryAssumption DEF Inv, TypeOK, Handles, Generations
  <2>. QED
    BY <1>1, <1>3, <1>4, <2>1 DEF Inv, TypeOK, RetiredOrder
<1>12. TlsValuesAreOwn'
  BY <1>3 DEF Inv, TypeOK, TlsValuesAreOwn, HandleOf
<1>. QED
  BY <1>6, <1>9, <1>10, <1>11, <1>12 DEF Inv

LEMMA SetCurrentThreadInv ==
    ASSUME Inv, NEW h \in Slots \X (0 .. MaxReuse), SetCurrentThread(h)
    PROVE  Inv'
<1>1. /\ h[1] \in Slots /\ used[h[1]] /\ h = HandleOf(h[1])
      /\ state[h[1]] # "Terminated" /\ suspendCount[h[1]] = 0 /\ mapped[h[1]]
  BY DEF SetCurrentThread, Decodes, Switchable, HandleOf
<1>2. /\ state' = [Demoted EXCEPT ![h[1]] = "Running"]
      /\ current' = h /\ cursor' = h[1]
      /\ UNCHANGED <<used, mapped, external, generation, suspendCount>>
      /\ UNCHANGED <<tls, tlsAllocated, written, retired>>
  BY DEF SetCurrentThread, tlsVars
<1>3. h \in Handles
  BY <1>1, RegistryAssumption DEF Inv, TypeOK, Handles, Generations, HandleOf
<1>4. /\ Demoted \in [Slots -> ThreadStates]
      /\ \A s \in Slots : Demoted[s] # "Running"
      /\ \A s \in Slots : \/ Demoted[s] = state[s]
                          \/ state[s] = "Running" /\ Demoted[s] = "Ready"
  <2>1. CASE current = NoHandle
    BY <2>1 DEF Inv, TypeOK, Demoted, Decodes, NoHandle, Slots, ThreadStates,
                RunningIsCurrent, HandleOf
  <2>2. CASE current # NoHandle
    BY <2>2 DEF Inv, TypeOK, Demoted, Decodes, Slots, ThreadStates,
                RunningIsCurrent, CurrentValid, LifecycleCoherent, HandleOf
  <2>. QED
    BY <2>1, <2>2
<1>. HIDE DEF Demoted
<1>5. TypeOK'
  BY <1>1, <1>2, <1>3, <1>4 DEF Inv, TypeOK, ThreadStates
<1>6. RunningIsCurrent' /\ CurrentValid'
  BY <1>1, <1>2, <1>4 DEF Inv, TypeOK, RunningIsCurrent, CurrentValid, HandleOf
<1>7. LifecycleCoherent'
  BY <1>1, <1>2, <1>4 DEF Inv, TypeOK, LifecycleCoherent, ThreadStates
<1>8. RetiredOrder'
  <2>1. \A r \in retired : r[1] \in Slots
    BY DEF Inv, TypeOK, Handles
  <2>2. state[h[1]] # "Invalid"
    BY <1>1 DEF Inv, LifecycleCoherent
  <2>. QED
    BY <1>1, <1>2, <1>4, <2>1, <2>2 DEF Inv, RetiredOrder, HandleOf
<1>9. TlsValuesAreOwn'
  BY <1>2 DEF Inv, TlsValuesAreOwn, HandleOf
<1>. QED
  BY <1>5, <1>6, <1>7, <1>8, <1>9 DEF Inv

LEMMA SuspendThreadInv ==
    ASSUME Inv, NEW h \in Slots \X (0 .. MaxReuse), SuspendThread(h)
    PROVE  Inv'
<1>1. /\ h[1] \in Slots /\ h = HandleOf(h[1]) /\ used[h[1]]
      /\ state[h[1]] # "Terminated"
      /\ suspendCount[h[1]] \in 0 .. MaxSuspendCount - 1
  BY RegistryAssumption
  DEF Inv, TypeOK, SuspendThread, Suspendable, Live, Decodes, HandleOf
<1>2. /\ suspendCount' = [suspendCount EXCEPT ![h[1]] = suspendCount[h[1]] + 1]
      /\ state' = [state EXCEPT ![h[1]] = "Suspended"]
      /\ current' = IF h = current THEN NoHandle ELSE current
      /\ UNCHANGED <<used, mapped, external, generation, cursor>>
      /\ UNCHANGED <<tls, tlsAllocated, written, retired>>
  BY DEF SuspendThread, tlsVars
<1>3. TypeOK'
  <2>1. suspendCount' \in [Slots -> 0 .. MaxSuspendCount]
    BY <1>1, <1>2, RegistryAssumption DEF Inv, TypeOK
  <2>. QED
    BY <1>1, <1>2, <2>1 DEF Inv, TypeOK, ThreadStates
<1>4. \A t \in Slots : NoHandle # HandleOf(t)
  BY RegistryAssumption DEF NoHandle, Slots, HandleOf
<1>5. RunningIsCurrent'
  <2>1. SUFFICES ASSUME NEW t \in Slots
                 PROVE  state'[t] = "Running" <=> current' = HandleOf(t)
    BY <1>2 DEF RunningIsCurrent, HandleOf
  <2>2. CASE h = current
    BY <1>1, <1>2, <1>4, <2>2 DEF Inv, TypeOK, RunningIsCurrent, HandleOf
  <2>3. CASE h # current
    BY <1>1, <1>2, <2>3 DEF Inv, TypeOK, RunningIsCurrent, HandleOf
  <2>. QED
    BY <2>2, <2>3
<1>6. CurrentValid'
  BY <1>2 DEF Inv, CurrentValid, HandleOf
<1>7. LifecycleCoherent'
  BY <1>1, <1>2, RegistryAssumption DEF Inv, TypeOK, LifecycleCoherent, ThreadStates
<1>8. RetiredOrder'
  <2>1. \A r \in retired : r[1] \in Slots
    BY DEF Inv, TypeOK, Handles
  <2>2. state[h[1]] \notin {"Invalid", "Terminated"}
    BY <1>1 DEF Inv, LifecycleCoherent
  <2>. QED
    BY <1>1, <1>2, <2>1, <2>2 DEF Inv, TypeOK, RetiredOrder, HandleOf
<1>9. TlsValuesAreOwn'
  BY <1>2 DEF Inv, TlsValuesAreOwn, HandleOf
<1>. QED
  BY <1>3, <1>5, <1>6, <1>7, <1>8, <1>9 DEF Inv

LEMMA ResumeThreadInv ==
    ASSUME Inv, NEW h \in Slots \X (0 .. MaxReuse), ResumeThread(h)
    PROVE  Inv'
<1>1. /\ h[1] \in Slots /\ h = HandleOf(h[1]) /\ used[h[1]]
      /\ suspendCount[h[1]] \in 1 .. MaxSuspendCount
      /\ state[h[1]] = "Suspended"
  <2>1. h[1] \in Slots /\ h = HandleOf(h[1]) /\ used[h[1]] /\ suspendCount[h[1]] > 0
    BY DEF ResumeThread, Live, Decodes, HandleOf
  <2>2. suspendCount[h[1]] \in 0 .. MaxSuspendCount
    BY <2>1 DEF Inv, TypeOK
  <2>3. state[h[1]] = "Suspended"
    BY <2>1 DEF Inv, LifecycleCoherent
  <2>. QED
    BY <2>1, <2>2, <2>3, RegistryAssumption
<1>2. /\ suspendCount' = [suspendCount EXCEPT ![h[1]] = suspendCount[h[1]] - 1]
      /\ state' = IF suspendCount[h[1]] = 1
                  THEN [state EXCEPT ![h[1]] = "Ready"] ELSE state
      /\ UNCHANGED <<used, mapped, external, generation, cursor, current>>
      /\ UNCHANGED <<tls, tlsAllocated, written, retired>>
  BY DEF ResumeThread, tlsVars
<1>3. TypeOK'
  <2>1. suspendCount' \in [Slots -> 0 .. MaxSuspendCount]
    BY <1>1, <1>2, RegistryAssumption DEF Inv, TypeOK
  <2>. QED
    BY <1>1, <1>2, <2>1 DEF Inv, TypeOK, ThreadStates
<1>4. RunningIsCurrent' /\ CurrentValid'
  BY <1>1, <1>2 DEF Inv, TypeOK, RunningIsCurrent, CurrentValid, HandleOf
<1>5. LifecycleCoherent'
  BY <1>1, <1>2, RegistryAssumption DEF Inv, TypeOK, LifecycleCoherent, ThreadStates
<1>6. RetiredOrder'
  <2>1. \A r \in retired : r[1] \in Slots
    BY DEF Inv, TypeOK, Handles
  <2>. QED
    BY <1>1, <1>2, <2>1 DEF Inv, TypeOK, RetiredOrder, HandleOf
<1>7. TlsValuesAreOwn'
  BY <1>2 DEF Inv, TlsValuesAreOwn, HandleOf
<1>. QED
  BY <1>3, <1>4, <1>5, <1>6, <1>7 DEF Inv

LEMMA TerminateThreadInv ==
    ASSUME Inv, NEW h \in Slots \X (0 .. MaxReuse), TerminateThread(h)
    PROVE  Inv'
<1>1. /\ h[1] \in Slots /\ h = HandleOf(h[1]) /\ used[h[1]]
      /\ state[h[1]] # "Terminated"
  BY DEF TerminateThread, Live, Decodes, HandleOf
<1>2. /\ state' = [state EXCEPT ![h[1]] = "Terminated"]
      /\ suspendCount' = [suspendCount EXCEPT ![h[1]] = 0]
      /\ mapped' = [mapped EXCEPT ![h[1]] = FALSE]
      /\ current' = IF h = current THEN NoHandle ELSE current
      /\ retired' = retired \cup {h}
      /\ UNCHANGED <<used, external, generation, cursor>>
      /\ UNCHANGED <<tls, tlsAllocated, written>>
  BY DEF TerminateThread, tlsVars
<1>3. h \in Handles
  BY <1>1, RegistryAssumption DEF Inv, TypeOK, Handles, Generations, HandleOf
<1>4. TypeOK'
  BY <1>1, <1>2, <1>3, RegistryAssumption DEF Inv, TypeOK, ThreadStates
<1>5. \A t \in Slots : NoHandle # HandleOf(t)
  BY RegistryAssumption DEF NoHandle, Slots, HandleOf
<1>6. RunningIsCurrent'
  <2>1. SUFFICES ASSUME NEW t \in Slots
                 PROVE  state'[t] = "Running" <=> current' = HandleOf(t)
    BY <1>2 DEF RunningIsCurrent, HandleOf
  <2>2. CASE h = current
    BY <1>1, <1>2, <1>5, <2>2 DEF Inv, TypeOK, RunningIsCurrent, HandleOf
  <2>3. CASE h # current
    BY <1>1, <1>2, <2>3 DEF Inv, TypeOK, RunningIsCurrent, HandleOf
  <2>. QED
    BY <2>2, <2>3
<1>7. CurrentValid'
  BY <1>2 DEF Inv, CurrentValid, HandleOf
<1>8. LifecycleCoherent'
  BY <1>1, <1>2 DEF Inv, TypeOK, LifecycleCoherent
<1>9. RetiredOrder'
  <2>1. \A r \in retired : r[1] \in Slots
    BY DEF Inv, TypeOK, Handles
  <2>2. generation[h[1]] \in Nat /\ h[2] = generation[h[1]]
    BY <1>1 DEF Inv, TypeOK, HandleOf
  <2>. QED
    BY <1>1, <1>2, <2>1, <2>2 DEF Inv, TypeOK, RetiredOrder
<1>10. TlsValuesAreOwn'
  BY <1>2 DEF Inv, TlsValuesAreOwn, HandleOf
<1>. QED
  BY <1>4, <1>6, <1>7, <1>8, <1>9, <1>10 DEF Inv

LEMMA RegisterExternalThreadInv ==
    ASSUME Inv, RegisterExternalThread
    PROVE  Inv'
<1>. DEFINE r == ReservedSlot
            next == NextGeneration(generation[r])
            still == Decodes(current) /\ current[1] # r
            base == IF still THEN Demoted ELSE state
<1>1. r \in Slots /\ next = generation[r] + 1 /\ next \in 1 .. MaxReuse
  BY NextGenerationIsSuccessor, RegistryAssumption
  DEF Inv, TypeOK, RegisterExternalThread, Slots
<1>2. <<r, next>> \in Handles /\ HandleOf(r) \in Handles
  BY <1>1, RegistryAssumption DEF Inv, TypeOK, Handles, Generations, HandleOf
<1>3. /\ used' = [used EXCEPT ![r] = TRUE]
      /\ mapped' = [mapped EXCEPT ![r] = TRUE]
      /\ external' = [external EXCEPT ![r] = TRUE]
      /\ generation' = [generation EXCEPT ![r] = next]
      /\ suspendCount' = [suspendCount EXCEPT ![r] = 0]
      /\ tls' = [tls EXCEPT ![r] = [i \in TlsIndexes |-> 0]]
      /\ state' = [base EXCEPT ![r] = "Running"]
      /\ current' = <<r, next>> /\ cursor' = r
      /\ retired' = retired \cup (IF used[r] THEN {HandleOf(r)} ELSE {})
      /\ tlsAllocated' = tlsAllocated /\ written' = written
  BY DEF RegisterExternalThread, FreshTls
<1>4. /\ base \in [Slots -> ThreadStates]
      /\ \A t \in Slots \ {r} : base[t] # "Running"
      /\ \A t \in Slots : \/ base[t] = state[t]
                          \/ state[t] = "Running" /\ base[t] = "Ready"
  <2>1. CASE still
    BY <2>1 DEF Inv, TypeOK, Demoted, Decodes, Slots, ThreadStates,
                RunningIsCurrent, CurrentValid, LifecycleCoherent, HandleOf
  <2>2. CASE ~still
    <3>1. \A t \in Slots \ {r} : state[t] # "Running"
      <4>1. SUFFICES ASSUME NEW t \in Slots \ {r}, state[t] = "Running"
                     PROVE  FALSE
        OBVIOUS
      <4>2. current = HandleOf(t) /\ used[t]
        BY <4>1 DEF Inv, RunningIsCurrent, LifecycleCoherent
      <4>. QED
        BY <2>2, <4>1, <4>2 DEF Decodes, HandleOf
    <3>. QED
      BY <2>2, <3>1 DEF Inv, TypeOK
  <2>. QED
    BY <2>1, <2>2
<1>. HIDE DEF r, next, base
<1>5. TypeOK'
  <2>1. generation' \in [Slots -> 0 .. MaxReuse]
    BY <1>1, <1>3 DEF Inv, TypeOK
  <2>2. tls' \in [Slots -> [TlsIndexes -> TlsValues]]
    BY <1>3, RegistryAssumption DEF Inv, TypeOK
  <2>3. state' \in [Slots -> ThreadStates]
    BY <1>3, <1>4 DEF ThreadStates
  <2>4. suspendCount' \in [Slots -> 0 .. MaxSuspendCount]
    <3>1. 0 \in 0 .. MaxSuspendCount
      BY RegistryAssumption
    <3>2. suspendCount \in [Slots -> 0 .. MaxSuspendCount]
      BY DEF Inv, TypeOK
    <3>. QED
      BY <1>3, <3>1, <3>2
  <2>5. retired' \in SUBSET Handles
    BY <1>2, <1>3 DEF Inv, TypeOK
  <2>. QED
    BY <1>1, <1>2, <1>3, <2>1, <2>2, <2>3, <2>4, <2>5 DEF Inv, TypeOK
<1>6. RunningIsCurrent' /\ CurrentValid'
  BY <1>1, <1>3, <1>4 DEF Inv, TypeOK, RunningIsCurrent, CurrentValid, HandleOf
<1>7. LifecycleCoherent'
  BY <1>1, <1>3, <1>4 DEF Inv, TypeOK, LifecycleCoherent, ThreadStates, r
<1>8. RetiredOrder'
  <2>1. \A h \in retired : h[1] \in Slots /\ h[2] \in Nat
    BY RegistryAssumption DEF Inv, TypeOK, Handles, Generations
  <2>. QED
    BY <1>1, <1>3, <1>4, <2>1, SMTT(60) DEF Inv, TypeOK, RetiredOrder, HandleOf
<1>9. TlsValuesAreOwn'
  BY <1>3 DEF Inv, TypeOK, TlsValuesAreOwn, HandleOf
<1>. QED
  BY <1>5, <1>6, <1>7, <1>8, <1>9 DEF Inv

LEMMA ResetInv ==
    ASSUME Inv, Reset
    PROVE  Inv'
<1>1. \A s \in Slots : /\ NextGeneration(generation[s]) = generation[s] + 1
                       /\ NextGeneration(generation[s]) \in 1 .. MaxReuse
  BY NextGenerationIsSuccessor DEF Inv, TypeOK, Reset
<1>2. generation' = [s \in Slots |-> generation[s] + 1]
  BY <1>1 DEF Reset
<1>3. /\ used' = [s \in Slots |-> FALSE] /\ mapped' = [s \in Slots |-> FALSE]
      /\ external' = [s \in Slots |-> FALSE]
      /\ state' = [s \in Slots |-> "Invalid"]
      /\ suspendCount' = [s \in Slots |-> 0]
      /\ tls' = [s \in Slots |-> [i \in TlsIndexes |-> 0]]
      /\ tlsAllocated' = {} /\ current' = NoHandle /\ cursor' = 0
      /\ retired' = retired \cup {HandleOf(s) : s \in {x \in Slots : used[x]}}
      /\ written' = {}
  BY DEF Reset
<1>4. \A s \in Slots : HandleOf(s) \in Handles
  BY RegistryAssumption DEF Inv, TypeOK, Handles, Generations, HandleOf
<1>5. TypeOK'
  <2>1. generation' \in [Slots -> 0 .. MaxReuse]
    BY <1>1, <1>2
  <2>2. retired' \in SUBSET Handles
    BY <1>3, <1>4 DEF Inv, TypeOK
  <2>. QED
    BY <1>3, <2>1, <2>2, RegistryAssumption DEF TypeOK, ThreadStates, Slots
<1>6. RunningIsCurrent' /\ CurrentValid'
  BY <1>3, RegistryAssumption DEF RunningIsCurrent, CurrentValid, HandleOf, NoHandle, Slots
<1>7. LifecycleCoherent'
  BY <1>3 DEF LifecycleCoherent
<1>8. RetiredOrder'
  <2>1. \A h \in retired' : h[1] \in Slots /\ h[2] \in Nat /\ h[2] <= generation[h[1]]
    BY <1>3, RegistryAssumption
    DEF Inv, TypeOK, RetiredOrder, Handles, Generations, HandleOf
  <2>. QED
    BY <1>2, <1>3, <2>1 DEF Inv, TypeOK, RetiredOrder
<1>9. TlsValuesAreOwn'
  BY <1>3 DEF TlsValuesAreOwn
<1>. QED
  BY <1>5, <1>6, <1>7, <1>8, <1>9 DEF Inv

\* The thread-local-storage operations and stuttering steps leave the threads,
\* the current handle and the retired handles alone.
LEMMA ThreadsUnchangedInv ==
    ASSUME Inv, UNCHANGED <<threadVars, current, cursor, retired>>,
           tls' \in [Slots -> [TlsIndexes -> TlsValues]],
           tlsAllocated' \in SUBSET TlsIndexes,
           written' \in SUBSET (Handles \X TlsIndexes),
           TlsValuesAreOwn'
    PROVE  Inv'
<1>1. TypeOK'
  BY DEF Inv, TypeOK, threadVars
<1>2. RunningIsCurrent' /\ CurrentValid'
  BY DEF Inv, RunningIsCurrent, CurrentValid, threadVars, HandleOf
<1>3. LifecycleCoherent' /\ RetiredOrder'
  BY DEF Inv, LifecycleCoherent, RetiredOrder, threadVars
<1>. QED
  BY <1>1, <1>2, <1>3 DEF Inv

LEMMA TlsAllocInv ==
    ASSUME Inv, NEW i \in TlsIndexes, TlsAlloc(i)
    PROVE  Inv'
<1>1. /\ tls' = [s \in Slots |-> [tls[s] EXCEPT ![i] = 0]]
      /\ tlsAllocated' = tlsAllocated \cup {i} /\ written' = written
      /\ UNCHANGED <<threadVars, current, cursor, retired>>
  BY DEF TlsAlloc
<1>2. tls' \in [Slots -> [TlsIndexes -> TlsValues]]
  BY <1>1, RegistryAssumption DEF Inv, TypeOK
<1>3. TlsValuesAreOwn'
  BY <1>1 DEF Inv, TypeOK, TlsValuesAreOwn, HandleOf, threadVars
<1>. QED
  BY <1>1, <1>2, <1>3, ThreadsUnchangedInv DEF Inv, TypeOK

LEMMA TlsFreeInv ==
    ASSUME Inv, NEW i \in TlsIndexes, TlsFree(i)
    PROVE  Inv'
<1>1. /\ tls' = [s \in Slots |-> [tls[s] EXCEPT ![i] = 0]]
      /\ tlsAllocated' = tlsAllocated \ {i}
      /\ written' = {w \in written : w[2] # i}
      /\ UNCHANGED <<threadVars, current, cursor, retired>>
  BY DEF TlsFree
<1>2. tls' \in [Slots -> [TlsIndexes -> TlsValues]]
  BY <1>1, RegistryAssumption DEF Inv, TypeOK
<1>3. TlsValuesAreOwn'
  BY <1>1 DEF Inv, TypeOK, TlsValuesAreOwn, HandleOf, threadVars
<1>. QED
  BY <1>1, <1>2, <1>3, ThreadsUnchangedInv DEF Inv, TypeOK

LEMMA TlsSetInv ==
    ASSUME Inv, NEW h \in Slots \X (0 .. MaxReuse), NEW i \in TlsIndexes,
           NEW v \in TlsValues, TlsSet(h, i, v)
    PROVE  Inv'
<1>1. h[1] \in Slots /\ h = HandleOf(h[1]) /\ i \in tlsAllocated
  BY DEF TlsSet, Live, Decodes, HandleOf
<1>2. h \in Handles
  BY <1>1, RegistryAssumption DEF Inv, TypeOK, Handles, Generations, HandleOf
<1>3. /\ tls' = [tls EXCEPT ![h[1]][i] = v]
      /\ tlsAllocated' = tlsAllocated /\ written' = written \cup {<<h, i>>}
      /\ UNCHANGED <<threadVars, current, cursor, retired>>
  BY DEF TlsSet
<1>4. tls' \in [Slots -> [TlsIndexes -> TlsValues]]
  BY <1>1, <1>3 DEF Inv, TypeOK
<1>5. TlsValuesAreOwn'
  BY <1>1, <1>3 DEF Inv, TypeOK, TlsValuesAreOwn, HandleOf, threadVars
<1>. QED
  BY <1>2, <1>3, <1>4, <1>5, ThreadsUnchangedInv DEF Inv, TypeOK

-----------------------------------------------------------------------------
LEMMA NextInv == Inv /\ [Next]_vars => Inv'
<1>. SUFFICES ASSUME Inv, [Next]_vars PROVE Inv'
  OBVIOUS
<1>1. ASSUME NEW h \in Issued PROVE h \in Slots \X (0 .. MaxReuse)
  <2>1. PICK s \in Slots : h \in {<<s, g>> : g \in 0 .. generation[s]}
    BY DEF Issued
  <2>2. PICK g \in 0 .. generation[s] : h = <<s, g>>
    BY <2>1
  <2>3. generation[s] \in 0 .. MaxReuse
    BY DEF Inv, TypeOK
  <2>4. g \in 0 .. MaxReuse
    BY <2>2, <2>3, RegistryAssumption
  <2>. QED
    BY <2>2, <2>4
<1>2. CASE Reset
  BY <1>2, ResetInv
<1>3. CASE \E s \in Slots : CreateThread(s)
  BY <1>3, CreateThreadInv
<1>4. CASE RegisterExternalThread
  BY <1>4, RegisterExternalThreadInv
<1>5. CASE \E h \in Issued : SetCurrentThread(h)
  BY <1>1, <1>5, SetCurrentThreadInv
<1>6. CASE \E h \in Issued : SuspendThread(h)
  BY <1>1, <1>6, SuspendThreadInv
<1>7. CASE \E h \in Issued : ResumeThread(h)
  BY <1>1, <1>7, ResumeThreadInv
<1>8. CASE \E h \in Issued : TerminateThread(h)
  BY <1>1, <1>8, TerminateThreadInv
<1>9. CASE \E h \in Issued, i \in TlsIndexes, v \in TlsValues : TlsSet(h, i, v)
  BY <1>1, <1>9, TlsSetInv
<1>10. CASE NextRunnable
  <2>1. PICK s \in Slots : SetCurrentThread(HandleOf(s))
    BY <1>10 DEF NextRunnable
  <2>2. HandleOf(s) \in Slots \X (0 .. MaxReuse)
    BY DEF HandleOf, Inv, TypeOK
  <2>. QED
    BY <2>1, <2>2, SetCurrentThreadInv
<1>11. CASE \E i \in TlsIndexes : TlsAlloc(i) \/ TlsFree(i)
  BY <1>11, TlsAllocInv, TlsFreeInv
<1>12. CASE UNCHANGED vars
  <2>1. TlsValuesAreOwn'
    BY <1>12 DEF Inv, TlsValuesAreOwn, vars, threadVars, tlsVars, HandleOf
  <2>. QED
    BY <1>12, <2>1, ThreadsUnchangedInv DEF Inv, TypeOK, vars, tlsVars
<1>. QED
  BY <1>2, <1>3, <1>4, <1>5, <1>6, <1>7, <1>8, <1>9, <1>10, <1>11, <1>12 DEF Next

LEMMA InvHolds == Spec => []Inv
  BY InitInv, NextInv, PTL DEF Spec

\* The registry is type-correct: CreateThread, SetCurrentThread and the others
\* never leave a field outside its range.
THEOREM TypeCorrect == Spec => []TypeOK
<1>1. Inv => TypeOK
  BY DEF Inv
<1>. QED
  BY <1>1, InvHolds, PTL

\* At every moment at most one thread is Running, and g_current_thread names it.
THEOREM CurrentThreadIsTheRunningOne == Spec => []RunningIsCurrent
<1>1. Inv => RunningIsCurrent
  BY DEF Inv
<1>. QED
  BY <1>1, InvHolds, PTL

\* Suspend counts, stacks and states of all slots agree.
THEOREM LifecycleIsCoherent == Spec => []LifecycleCoherent
<1>1. Inv => LifecycleCoherent
  BY DEF Inv
<1>. QED
  BY <1>1, InvHolds, PTL

\* A handle of a thread that ended never resolves to a live thread again, as
\* long as no slot's 16-bit generation wraps.
THEOREM StaleHandlesNeverResolve == Spec => []RetiredHandlesStayDead
<1>1. Inv => RetiredHandlesStayDead
  BY DEF Inv, RetiredOrder, RetiredHandlesStayDead, Live, Decodes, LifecycleCoherent
<1>. QED
  BY <1>1, InvHolds, PTL

\* No thread ever reads a thread-local value stored by another.
THEOREM TlsIsPrivate == Spec => []TlsValuesAreOwn
<1>1. Inv => TlsValuesAreOwn
  BY DEF Inv
<1>. QED
  BY <1>1, InvHolds, PTL

(* What the registry says of its threads agrees: current, running,         *)
(* suspended, and with a stack (CreateThread to TerminateThread).          *)
THEOREM StatesHold == Spec => []StatesAgree
<1>1. TypeOK /\ RunningIsCurrent /\ LifecycleCoherent => StatesAgree
  BY DEF StatesAgree
<1>. QED
  BY <1>1, TypeCorrect, CurrentThreadIsTheRunningOne, LifecycleIsCoherent, PTL

(* Nothing of a thread that has ended reaches the next one of its slot:    *)
(* DecodeHandle and the clearing of thread-local storage.                  *)
THEOREM NothingIsInherited == Spec => []NothingOutlivesItsThread
<1>1. RetiredHandlesStayDead /\ TlsValuesAreOwn => NothingOutlivesItsThread
  BY DEF NothingOutlivesItsThread
<1>. QED
  BY <1>1, StaleHandlesNeverResolve, TlsIsPrivate, PTL

-----------------------------------------------------------------------------
(* Boots of one core (TitleImage)                                            *)

(* The stages are passed in order; what the boot has set by now is its own. *)
Stages == {"idle", "reserve", "pages", "load", "imports", "warm", "context", "run"}

(* The boots whose page words a boot may be loaded with.                    *)
WordsOf(s) == CASE s.words = "usable"  -> {s.boot}
                [] s.words = "refused" -> {0}
                [] s.words = "absent"  -> {0} \cup s.failed

StartInv ==
    /\ start.at \in Stages
    /\ start = [at |-> start.at, boot |-> start.boot, size |-> start.size,
                pointer |-> start.pointer, capacity |-> start.capacity, held |-> start.held,
                pages |-> start.pages, words |-> start.words, staged |-> start.staged,
                loaded |-> start.loaded, loadedPages |-> start.loadedPages,
                failed |-> start.failed, kernel |-> start.kernel, imports |-> start.imports,
                registers |-> start.registers, thread |-> start.thread, ran |-> start.ran]
    /\ start.boot \in Nat /\ start.pointer \in Nat
    /\ start.at # "idle" => start.kernel = start.boot
    /\ start.at \in {"reserve", "pages", "load"} => start.held = start.pointer
    /\ start.words \in PageWords
    /\ start.at # "load" => start.pages \in {0} \cup start.failed
    /\ start.at = "load" => start.pages \in WordsOf(start)
    /\ start.at \in {"imports", "warm", "context", "run"} =>
          /\ start.loaded = start.boot
          /\ start.loadedPages \in WordsOf(start)
    /\ start.at \in {"warm", "context", "run"} => start.imports = start.boot
    /\ start.at = "run" => start.thread = start.boot /\ start.registers = start.boot

LEMMA StartInitially == StartInit => StartInv
  BY DEF StartInit, StartInv, Stages, PageWords

LEMMA StartStep == StartInv /\ (StartSteps \/ UNCHANGED start) => StartInv'
<1> SUFFICES ASSUME StartInv, StartSteps \/ UNCHANGED start PROVE StartInv'
  OBVIOUS
<1>1. CASE UNCHANGED start
  BY <1>1 DEF StartInv, WordsOf
<1>2. ASSUME NEW size \in ImageSizes, NEW words \in PageWords, ResetKernel(size, words)
      PROVE  StartInv'
  <2>1. start.at = "idle"
    BY <1>2 DEF ResetKernel
  <2>2. start' = [start EXCEPT !.at = "reserve", !.boot = @ + 1, !.size = size,
                               !.words = words, !.kernel = start.boot + 1, !.thread = 0,
                               !.held = start.pointer]
    BY <1>2 DEF ResetKernel
  <2>3. start' = [at |-> start'.at, boot |-> start'.boot, size |-> start'.size,
                pointer |-> start'.pointer, capacity |-> start'.capacity, held |-> start'.held,
                pages |-> start'.pages, words |-> start'.words, staged |-> start'.staged,
                loaded |-> start'.loaded, loadedPages |-> start'.loadedPages,
                failed |-> start'.failed, kernel |-> start'.kernel, imports |-> start'.imports,
                registers |-> start'.registers, thread |-> start'.thread, ran |-> start'.ran]
    BY <2>2 DEF StartInv
  <2>4. /\ start'.at = "reserve" /\ start'.boot = start.boot + 1
        /\ start'.kernel = start.boot + 1 /\ start'.held = start.pointer
        /\ start'.pointer = start.pointer /\ start'.pages = start.pages
        /\ start'.words = words /\ start'.failed = start.failed
    BY <2>2 DEF StartInv
  <2>5. start'.pages \in {0} \cup start'.failed
    BY <2>1, <2>4 DEF StartInv
  <2> QED BY <2>1, <2>3, <2>4, <2>5 DEF StartInv, Stages
<1>3. CASE ReserveStaging
  <2>1. start.at = "reserve"
    BY <1>3 DEF ReserveStaging
  <2>2. CASE start' = [start EXCEPT !.at = "pages"]
    BY <2>1, <2>2 DEF StartInv, Stages
  <2>3. CASE start' = [start EXCEPT !.at = "pages", !.capacity = start.size, !.pointer = @ + 1,
                                    !.held = start.pointer + 1]
    <3>1. start' = [at |-> start'.at, boot |-> start'.boot, size |-> start'.size,
                pointer |-> start'.pointer, capacity |-> start'.capacity, held |-> start'.held,
                pages |-> start'.pages, words |-> start'.words, staged |-> start'.staged,
                loaded |-> start'.loaded, loadedPages |-> start'.loadedPages,
                failed |-> start'.failed, kernel |-> start'.kernel, imports |-> start'.imports,
                registers |-> start'.registers, thread |-> start'.thread, ran |-> start'.ran]
      BY <2>3 DEF StartInv
    <3>2. /\ start'.at = "pages" /\ start'.boot = start.boot /\ start'.kernel = start.kernel
          /\ start'.held = start.pointer + 1 /\ start'.pointer = start.pointer + 1
          /\ start'.pages = start.pages /\ start'.words = start.words
          /\ start'.failed = start.failed
      BY <2>3 DEF StartInv
    <3>3. start'.pages \in {0} \cup start'.failed
      BY <2>1, <3>2 DEF StartInv
    <3> QED BY <2>1, <3>1, <3>2, <3>3 DEF StartInv, Stages
  <2> QED BY <1>3, <2>2, <2>3 DEF ReserveStaging, HeldAfter
<1>4. CASE HandPages
  BY <1>4 DEF StartInv, HandPages, Stages, PageWords, WordsOf
<1>5. CASE LoadImage
  BY <1>5 DEF StartInv, LoadImage, Stages, WordsOf
<1>6. CASE RegisterImports
  BY <1>6 DEF StartInv, RegisterImports, Stages, WordsOf
<1>7. CASE WarmDecoder
  BY <1>7 DEF StartInv, WarmDecoder, Stages, WordsOf
<1>8. CASE PrepareContext
  BY <1>8 DEF StartInv, PrepareContext, Stages, WordsOf
<1>9. CASE RunEntry
  BY <1>9 DEF StartInv, RunEntry, Stages
<1>10. ASSUME NEW taken \in BOOLEAN, RefuseImage(taken) PROVE StartInv'
  <2>1. start.at = "load" /\ start.pages \in {0, start.boot} \cup start.failed
    BY <1>10 DEF RefuseImage, StartInv, WordsOf, PageWords
  <2>2. CASE taken
    BY <1>10, <2>1, <2>2 DEF StartInv, RefuseImage, Stages
  <2>3. CASE ~taken
    BY <1>10, <2>1, <2>3 DEF StartInv, RefuseImage, Stages
  <2> QED BY <2>2, <2>3
<1>11. CASE AbandonBoot
  BY <1>11 DEF StartInv, AbandonBoot, Stages
<1> QED
  BY <1>1, <1>2, <1>3, <1>4, <1>5, <1>6, <1>7, <1>8, <1>9, <1>10, <1>11 DEF StartSteps

-----------------------------------------------------------------------------
(* Host reads                                                                *)

(* What is filled so far lies within the file.                              *)
PreadInv ==
    /\ pread = [at |-> pread.at, cached |-> pread.cached, want |-> pread.want,
                position |-> pread.position, total |-> pread.total, bytes |-> pread.bytes,
                next |-> pread.next, answer |-> pread.answer]
    /\ pread.want \in Seq(1 .. 2) /\ pread.next \in Nat \ {0}
    /\ pread.position \in Nat /\ pread.total \in Nat
    /\ pread.position + pread.total <= FileEnd
    /\ ReadsAreRuns

LEMMA FileEndIsNat == FileEnd \in Nat
  BY ImageAssumption, FS_CardinalityType DEF FileEnd

(* Two pieces of the file that meet are one.                                *)
LEMMA PiecesMeet ==
    ASSUME NEW p \in Nat, NEW t \in Nat, NEW n \in Nat
    PROVE  [i \in 1 .. t |-> p + i] \o [i \in 1 .. n |-> p + t + i] = [i \in 1 .. t + n |-> p + i]
<1> DEFINE a == [i \in 1 .. t |-> p + i]
           b == [i \in 1 .. n |-> p + t + i]
           c == [i \in 1 .. t + n |-> p + i]
<1>1. a \in Seq(Nat) /\ Len(a) = t
  <2>1. a \in [1 .. t -> Nat]
    OBVIOUS
  <2> QED BY <2>1, FunctionIsSeq
<1>2. b \in Seq(Nat) /\ Len(b) = n
  <2>1. b \in [1 .. n -> Nat]
    OBVIOUS
  <2> QED BY <2>1, FunctionIsSeq
<1>3. c \in Seq(Nat) /\ Len(c) = t + n
  <2>1. c \in [1 .. t + n -> Nat]
    OBVIOUS
  <2> QED BY <2>1, FunctionIsSeq
<1>4. \A i \in 1 .. t : a[i] = c[i]
  OBVIOUS
<1>5. \A i \in 1 .. n : b[i] = c[t + i]
  OBVIOUS
<1>6. a \o b \in Seq(Nat) /\ Len(a \o b) = t + n
  BY <1>1, <1>2, ConcatProperties
<1>7. \A i \in 1 .. t + n : (a \o b)[i] = c[i]
  <2> TAKE i \in 1 .. t + n
  <2>1. (a \o b)[i] = IF i <= t THEN a[i] ELSE b[i - t]
    BY <1>1, <1>2, ConcatProperties
  <2>2. CASE i <= t
    BY <2>1, <2>2, <1>4
  <2>3. CASE ~(i <= t)
    BY <2>1, <2>3, <1>5
  <2> QED BY <2>2, <2>3
<1> HIDE DEF a, b, c
<1>8. a \o b = c
  BY <1>3, <1>6, <1>7, SeqEqual
<1> QED BY <1>8 DEF a, b, c

LEMMA PreadInitially == PreadInit => PreadInv
<1> SUFFICES ASSUME PreadInit PROVE PreadInv
  OBVIOUS
<1>1. FileEnd \in Nat
  BY FileEndIsNat
<1>2. pread.bytes = [i \in 1 .. 0 |-> 0 + i]
  BY DEF PreadInit
<1> QED BY <1>1, <1>2 DEF PreadInit, PreadInv, ReadsAreRuns

LEMMA PreadStep == PreadInv /\ (PreadSteps \/ UNCHANGED pread) => PreadInv'
<1> SUFFICES ASSUME PreadInv, PreadSteps \/ UNCHANGED pread PROVE PreadInv'
  OBVIOUS
<1>0. FileEnd \in Nat
  BY FileEndIsNat
<1>1. CASE UNCHANGED pread
  BY <1>1 DEF PreadInv, ReadsAreRuns
<1>2. ASSUME NEW a \in 1 .. 2, NEW b \in 1 .. 2, NEW position \in 0 .. (FileEnd - 1),
             Pread(<<a, b>>, position)
      PROVE  PreadInv'
  <2>1. pread' = [pread EXCEPT !.at = "copy", !.want = <<a, b>>, !.position = position,
                               !.total = 0, !.bytes = <<>>, !.next = 1]
    BY <1>2 DEF Pread
  <2>2. <<>> = [i \in 1 .. 0 |-> position + i]
    OBVIOUS
  <2>3. <<a, b>> \in Seq(1 .. 2)
    OBVIOUS
  <2>4. /\ pread' = [at |-> pread'.at, cached |-> pread'.cached, want |-> pread'.want,
                     position |-> pread'.position, total |-> pread'.total,
                     bytes |-> pread'.bytes, next |-> pread'.next, answer |-> pread'.answer]
        /\ pread'.want = <<a, b>> /\ pread'.position = position /\ pread'.total = 0
        /\ pread'.bytes = <<>> /\ pread'.next = 1
    BY <2>1 DEF PreadInv
  <2>5. pread'.bytes = [i \in 1 .. pread'.total |-> pread'.position + i]
    BY <2>4, <2>2
  <2>6. position \in Nat /\ position + 0 <= FileEnd
    BY <1>0
  <2> QED BY <2>3, <2>4, <2>5, <2>6 DEF PreadInv, ReadsAreRuns
<1>3. CASE FillBuffer
  <2> DEFINE from == pread.position + pread.total
             n == Least(pread.want[pread.next], FileEnd - from)
  <2>1. pread.want[pread.next] \in 1 .. 2
    BY <1>3, ElementOfSeq DEF FillBuffer, PreadInv
  <2>2. n \in Nat /\ from + n <= FileEnd
    BY <2>1, <1>0 DEF PreadInv, Least
  <2>3. pread.bytes \o [i \in 1 .. n |-> from + i]
           = [i \in 1 .. pread.total + n |-> pread.position + i]
    <3>1. PICK p \in Nat, t \in Nat, m \in Nat : p = pread.position /\ t = pread.total /\ m = n
      BY <2>2 DEF PreadInv
    <3>2. pread.bytes = [i \in 1 .. t |-> p + i] /\ from = p + t
      BY <3>1 DEF PreadInv, ReadsAreRuns
    <3> HIDE DEF n, from
    <3>3. [i \in 1 .. t |-> p + i] \o [i \in 1 .. m |-> p + t + i] = [i \in 1 .. t + m |-> p + i]
      BY PiecesMeet
    <3> QED BY <3>1, <3>2, <3>3
  <2>4. \/ \E at \in {"idle", "again"}, answer \in {"ok", "eagain"} :
              pread' = [pread EXCEPT !.at = at, !.answer = answer]
        \/ \E at \in {"idle", "copy"} :
              pread' = [pread EXCEPT !.total = @ + n, !.bytes = @ \o [i \in 1 .. n |-> from + i],
                                     !.next = @ + 1, !.at = at, !.answer = "ok"]
    <3>1. pread' \in {[pread EXCEPT !.at = IF pread.total > 0 THEN "idle" ELSE "again",
                                   !.answer = IF pread.total > 0 THEN "ok" ELSE "eagain"],
                      [pread EXCEPT !.total = @ + n, !.bytes = @ \o [i \in 1 .. n |-> from + i],
                                    !.next = @ + 1,
                                    !.at = IF n < pread.want[pread.next] THEN "idle" ELSE "copy",
                                    !.answer = "ok"]}
      BY <1>3, Zenon DEF FillBuffer, ReadAt
    <3> HIDE DEF n
    <3>2. CASE pread' = [pread EXCEPT !.at = IF pread.total > 0 THEN "idle" ELSE "again",
                                      !.answer = IF pread.total > 0 THEN "ok" ELSE "eagain"]
      BY <3>2
    <3>3. CASE pread' = [pread EXCEPT !.total = @ + n, !.bytes = @ \o [i \in 1 .. n |-> from + i],
                                      !.next = @ + 1,
                                      !.at = IF n < pread.want[pread.next] THEN "idle" ELSE "copy",
                                      !.answer = "ok"]
      <4> DEFINE at == IF n < pread.want[pread.next] THEN "idle" ELSE "copy"
      <4>1. at \in {"idle", "copy"}
        OBVIOUS
      <4>2. pread' = [pread EXCEPT !.total = @ + n, !.bytes = @ \o [i \in 1 .. n |-> from + i],
                                   !.next = @ + 1, !.at = at, !.answer = "ok"]
        BY <3>3
      <4> HIDE DEF at
      <4> QED BY <4>1, <4>2, Zenon
    <3> QED BY <3>1, <3>2, <3>3
  <2> HIDE DEF n
  <2>5. ASSUME NEW at, NEW answer, pread' = [pread EXCEPT !.at = at, !.answer = answer]
        PROVE  PreadInv'
    BY <2>5 DEF PreadInv, ReadsAreRuns
  <2>6. ASSUME NEW at,
               pread' = [pread EXCEPT !.total = @ + n, !.bytes = @ \o [i \in 1 .. n |-> from + i],
                                     !.next = @ + 1, !.at = at, !.answer = "ok"]
        PROVE  PreadInv'
    <3>1. /\ pread'.bytes = [i \in 1 .. pread'.total |-> pread'.position + i]
          /\ pread'.total = pread.total + n /\ pread'.position = pread.position
          /\ pread'.want = pread.want /\ pread'.next = pread.next + 1
      BY <2>6, <2>3, <2>2 DEF PreadInv
    <3>2. pread' = [at |-> pread'.at, cached |-> pread'.cached, want |-> pread'.want,
                position |-> pread'.position, total |-> pread'.total, bytes |-> pread'.bytes,
                next |-> pread'.next, answer |-> pread'.answer]
      BY <2>6 DEF PreadInv
    <3> QED BY <3>1, <3>2, <2>2 DEF PreadInv, ReadsAreRuns
  <2> QED BY <2>4, <2>5, <2>6
<1>4. CASE FinishPread
  BY <1>4 DEF FinishPread, PreadInv, ReadsAreRuns
<1>5. CASE \E b \in HostBlocks : CacheBlock(b)
  BY <1>5 DEF CacheBlock, PreadInv, ReadsAreRuns
<1> QED
  BY <1>1, <1>2, <1>3, <1>4, <1>5 DEF PreadSteps

-----------------------------------------------------------------------------
(* Read requests                                                             *)

(* What is captured is in its place, and what is left is the rest.  Nothing *)
(* is captured before the one extraction.                                   *)
RequestsInv ==
    /\ requests = [at |-> requests.at, op |-> requests.op, pending |-> requests.pending,
                   left |-> requests.left, count |-> requests.count, done |-> requests.done,
                   dest |-> requests.dest, wanted |-> requests.wanted,
                   captured |-> requests.captured, mounted |-> requests.mounted,
                   source |-> requests.source]
    /\ requests.left \in Nat /\ requests.done \in Nat /\ requests.wanted \in Nat
    /\ requests.at = "read" => requests.dest = requests.done /\ requests.left > 0
    /\ requests.at \in {"serve", "read"} => requests.op \in {"mount", "extract"}
    /\ requests.at \in {"idle", "ready"} => requests.captured = {}
    /\ requests.at \in {"serve", "read"} /\ requests.op = "mount" => requests.captured = {}
    /\ requests.at \in {"serve", "read"} /\ requests.op = "extract" =>
          /\ requests.captured = {<<i, i>> : i \in 0 .. requests.done - 1}
          /\ requests.done + requests.left = requests.wanted
    /\ CapturedInPlace

LEMMA RequestsInitially == RequestsInit => RequestsInv
  BY DEF RequestsInit, RequestsInv, CapturedInPlace

LEMMA RequestsStep == RequestsInv /\ (RequestSteps \/ UNCHANGED requests) => RequestsInv'
<1> SUFFICES ASSUME RequestsInv, RequestSteps \/ UNCHANGED requests PROVE RequestsInv'
  OBVIOUS
<1>1. CASE UNCHANGED requests
  BY <1>1 DEF RequestsInv, CapturedInPlace
<1>2. CASE \E network, embedded \in BOOLEAN : InitCore(network, embedded)
  BY <1>2 DEF InitCore, RequestsInv, CapturedInPlace
<1>3. ASSUME NEW n \in 0 .. (MaxRequests + 1), BeginMount(n)
      PROVE  RequestsInv'
  <2>1. requests.at = "ready" /\ n \in Nat
    BY <1>3, ImageAssumption DEF BeginMount
  <2>2. requests' = [requests EXCEPT !.op = "mount", !.at = "serve", !.left = n, !.count = 0,
                                     !.done = 0]
    BY <1>3 DEF BeginMount
  <2> QED BY <2>1, <2>2 DEF RequestsInv, CapturedInPlace
<1>4. ASSUME NEW n \in 0 .. (MaxRequests + 1), BeginExtract(n)
      PROVE  RequestsInv'
  <2>1. {<<i, i>> : i \in 0 .. 0 - 1} = {}
    OBVIOUS
  <2>2. requests.at = "ready" /\ n \in Nat
    BY <1>4, ImageAssumption DEF BeginExtract
  <2>3. requests' = [requests EXCEPT !.op = "extract", !.at = "serve", !.left = n, !.wanted = n,
                                     !.count = 0, !.done = 0]
    BY <1>4 DEF BeginExtract
  <2>4. requests' = [at |-> requests'.at, op |-> requests'.op, pending |-> requests'.pending,
                   left |-> requests'.left, count |-> requests'.count, done |-> requests'.done,
                   dest |-> requests'.dest, wanted |-> requests'.wanted,
                   captured |-> requests'.captured, mounted |-> requests'.mounted,
                   source |-> requests'.source]
    BY <2>3 DEF RequestsInv
  <2>5. /\ requests'.at = "serve" /\ requests'.op = "extract" /\ requests'.left = n
        /\ requests'.wanted = n /\ requests'.done = 0 /\ requests'.captured = {}
    BY <2>2, <2>3 DEF RequestsInv
  <2>6. 0 + n = n /\ 0 \in Nat
    BY <2>2
  <2> QED BY <2>1, <2>2, <2>4, <2>5, <2>6 DEF RequestsInv, CapturedInPlace
<1>5. CASE TakeRequest
  BY <1>5 DEF TakeRequest, Dest, RequestsInv, CapturedInPlace
<1>6. ASSUME NEW short \in BOOLEAN, ServeRequest(short)
      PROVE  RequestsInv'
  <2>1. {<<i, i>> : i \in 0 .. requests.done - 1} \cup {<<requests.done, requests.done>>}
           = {<<i, i>> : i \in 0 .. (requests.done + 1) - 1}
    <3>1. 0 .. (requests.done + 1) - 1 = 0 .. requests.done - 1 \cup {requests.done}
      BY DEF RequestsInv
    <3> QED BY <3>1
  <2>2. CASE short
    BY <1>6, <2>2 DEF ServeRequest, RequestsInv, CapturedInPlace
  <2>3. CASE ~short
    <3>1. requests' = [requests EXCEPT !.at = "serve", !.left = @ - 1, !.done = @ + 1,
                            !.captured = IF requests.op = "extract"
                                            THEN @ \cup {<<requests.dest, requests.done>>} ELSE @]
      BY <1>6, <2>3 DEF ServeRequest
    <3>2. requests.at = "read"
      BY <1>6 DEF ServeRequest
    <3>3. CASE requests.op = "extract"
      <4>1. requests'.captured = {<<i, i>> : i \in 0 .. requests'.done - 1}
        BY <3>1, <3>2, <3>3, <2>1 DEF RequestsInv
      <4>2. /\ requests'.done + requests'.left = requests'.wanted
            /\ requests'.left \in Nat /\ requests'.done \in Nat /\ requests'.wanted \in Nat
            /\ requests'.at = "serve" /\ requests'.op = "extract"
        BY <3>1, <3>2, <3>3 DEF RequestsInv
      <4>3. requests' = [at |-> requests'.at, op |-> requests'.op, pending |-> requests'.pending,
                   left |-> requests'.left, count |-> requests'.count, done |-> requests'.done,
                   dest |-> requests'.dest, wanted |-> requests'.wanted,
                   captured |-> requests'.captured, mounted |-> requests'.mounted,
                   source |-> requests'.source]
        BY <3>1 DEF RequestsInv
      <4> QED BY <4>1, <4>2, <4>3 DEF RequestsInv, CapturedInPlace
    <3>4. CASE requests.op # "extract"
      <4>1. /\ requests'.at = "serve" /\ requests'.op = "mount"
            /\ requests'.left \in Nat /\ requests'.done \in Nat /\ requests'.wanted \in Nat
            /\ requests'.captured = {}
        BY <3>1, <3>2, <3>4 DEF RequestsInv
      <4>2. requests' = [at |-> requests'.at, op |-> requests'.op, pending |-> requests'.pending,
                   left |-> requests'.left, count |-> requests'.count, done |-> requests'.done,
                   dest |-> requests'.dest, wanted |-> requests'.wanted,
                   captured |-> requests'.captured, mounted |-> requests'.mounted,
                   source |-> requests'.source]
        BY <3>1 DEF RequestsInv
      <4> QED BY <4>1, <4>2 DEF RequestsInv, CapturedInPlace
    <3> QED BY <3>3, <3>4
  <2> QED BY <2>2, <2>3
<1>7. CASE EndRequests
  <2>1. requests.at = "serve" /\ requests.left = 0
    BY <1>7 DEF EndRequests
  <2>2. requests' = [requests EXCEPT !.at = IF requests.op = "mount" THEN "ready" ELSE "done",
                                     !.mounted = TRUE, !.op = "none"]
    BY <1>7 DEF EndRequests
  <2>3. CASE requests.op = "mount"
    BY <2>1, <2>2, <2>3 DEF RequestsInv, CapturedInPlace
  <2>4. CASE requests.op = "extract"
    <3>1. requests.captured = {<<i, i>> : i \in 0 .. requests.wanted - 1}
      BY <2>1, <2>4 DEF RequestsInv
    <3> QED BY <2>1, <2>2, <2>4, <3>1 DEF RequestsInv, CapturedInPlace
  <2> QED BY <2>1, <2>3, <2>4 DEF RequestsInv
<1> QED
  BY <1>1, <1>2, <1>3, <1>4, <1>5, <1>6, <1>7 DEF RequestSteps

-----------------------------------------------------------------------------
(* The import plan                                                           *)

FoundRecords == [kind : {"variable", "function"}, ordinal : {1, 2}, value : Nat, thunk : Nat]
ImportRecords == [type : {0, 1, 2}, ordinal : {1, 2}]

(* What the first m records have given: each is the place of one entry or   *)
(* its thunk, in the order of the entries.                                  *)
FoundIn(found, m) ==
    /\ \A i \in 1 .. Len(found) :
         /\ found[i].thunk = IF found[i].kind = "function" THEN found[i].value + 1 ELSE 0
         /\ found[i].value \in 1 .. m /\ found[i].thunk \in 0 .. m
    /\ \A i, j \in 1 .. Len(found) : i < j => found[i].value < found[j].value
    /\ \A a \in 1 .. m : \E i \in 1 .. Len(found) : a = found[i].value \/ a = found[i].thunk
    /\ m = IF found = <<>> THEN 0
           ELSE found[Len(found)].value + IF found[Len(found)].kind = "function" THEN 1 ELSE 0

ImportsInv ==
    /\ imports = [at |-> imports.at, pe |-> imports.pe, rva |-> imports.rva,
                  layout |-> imports.layout, kernel |-> imports.kernel,
                  records |-> imports.records, found |-> imports.found,
                  thunks |-> imports.thunks, slots |-> imports.slots]
    /\ imports.found \in Seq(FoundRecords) /\ imports.records \in Seq(ImportRecords)
    /\ imports.at = "idle" => imports.found = <<>> /\ imports.records = <<>>
    /\ imports.at \in {"idle", "decode"} => FoundIn(imports.found, Len(imports.records))
    /\ RecordsAccounted /\ LoadedImagesReadMapped

(* A descriptor becomes an entry of its own.                                *)
LEMMA DescriptorFound ==
    ASSUME NEW found \in Seq(FoundRecords), NEW m \in Nat, FoundIn(found, m),
           NEW r \in FoundRecords, r.kind = "variable", r.thunk = 0, r.value = m + 1
    PROVE  FoundIn(Append(found, r), m + 1)
<1> DEFINE new == Append(found, r)
           n == Len(found)
<1>1. /\ new \in Seq(FoundRecords) /\ new # <<>> /\ Len(new) = n + 1 /\ new[n + 1] = r
      /\ \A i \in 1 .. n : new[i] = found[i]
  BY AppendProperties
<1>2. n \in Nat
  BY LenProperties
<1> HIDE DEF new
<1>3. \A i \in 1 .. n + 1 :
         /\ new[i].thunk = IF new[i].kind = "function" THEN new[i].value + 1 ELSE 0
         /\ new[i].value \in 1 .. m + 1 /\ new[i].thunk \in 0 .. m + 1
  <2> TAKE i \in 1 .. n + 1
  <2>1. CASE i = n + 1
    BY <2>1, <1>1
  <2>2. CASE i \in 1 .. n
    <3>1. found[i].value \in 1 .. m /\ found[i].thunk \in 0 .. m
      BY <2>2 DEF FoundIn
    <3> QED BY <2>2, <3>1, <1>1 DEF FoundIn
  <2> QED BY <2>1, <2>2, <1>2
<1>4. \A i, j \in 1 .. n + 1 : i < j => new[i].value < new[j].value
  <2> SUFFICES ASSUME NEW i \in 1 .. n + 1, NEW j \in 1 .. n + 1, i < j
               PROVE  new[i].value < new[j].value
    OBVIOUS
  <2>1. i \in 1 .. n /\ found[i].value \in 1 .. m
    BY <1>2 DEF FoundIn
  <2>2. CASE j = n + 1
    BY <2>1, <2>2, <1>1
  <2>3. CASE j \in 1 .. n
    BY <2>1, <2>3, <1>1 DEF FoundIn
  <2> QED BY <2>2, <2>3, <1>2
<1>5. \A a \in 1 .. m + 1 : \E i \in 1 .. n + 1 : a = new[i].value \/ a = new[i].thunk
  <2> TAKE a \in 1 .. m + 1
  <2>1. CASE a = m + 1
    BY <2>1, <1>1, <1>2
  <2>2. CASE a \in 1 .. m
    <3>1. PICK i \in 1 .. n : a = found[i].value \/ a = found[i].thunk
      BY <2>2 DEF FoundIn
    <3>2. i \in 1 .. n + 1 /\ new[i] = found[i]
      BY <1>1, <1>2
    <3> QED BY <3>1, <3>2
  <2> QED BY <2>1, <2>2
<1>6. m + 1 = IF new = <<>> THEN 0
              ELSE new[Len(new)].value + IF new[Len(new)].kind = "function" THEN 1 ELSE 0
  BY <1>1
<1> QED BY <1>1, <1>3, <1>4, <1>5, <1>6 DEF FoundIn, new

(* A thunk completes the last entry.                                        *)
LEMMA ThunkFound ==
    ASSUME NEW found \in Seq(FoundRecords), NEW m \in Nat, FoundIn(found, m), found # <<>>,
           found[Len(found)].thunk = 0
    PROVE  LET new == [found EXCEPT ![Len(found)].kind = "function",
                                    ![Len(found)].thunk = m + 1]
           IN  new \in Seq(FoundRecords) /\ FoundIn(new, m + 1)
<1> DEFINE n == Len(found)
           e == [found[n] EXCEPT !.kind = "function", !.thunk = m + 1]
           new == [found EXCEPT ![n].kind = "function", ![n].thunk = m + 1]
<1>1. n \in Nat \ {0}
  BY EmptySeq
<1>2. found[n] \in FoundRecords /\ e \in FoundRecords
  <2>1. found[n] \in FoundRecords /\ m + 1 \in Nat
    BY <1>1, ElementOfSeq
  <2> QED BY <2>1 DEF FoundRecords
<1>3. new = [found EXCEPT ![n] = e]
  BY <1>1, LenProperties
<1>4. /\ new \in Seq(FoundRecords) /\ Len(new) = n
      /\ \A i \in 1 .. n : new[i] = IF i = n THEN e ELSE found[i]
  BY <1>1, <1>2, <1>3, ExceptSeq
<1>5. /\ e.value = found[n].value /\ e.kind = "function" /\ e.thunk = m + 1
      /\ found[n].value \in 1 .. m
  BY <1>1, <1>2 DEF FoundIn, FoundRecords
<1>6. found[n].value = m
  <2>1. found[n].kind # "function"
    BY <1>1, <1>5 DEF FoundIn
  <2> QED BY <2>1, <1>5 DEF FoundIn
<1> HIDE DEF new, e
<1>7. \A i \in 1 .. n :
         /\ new[i].thunk = IF new[i].kind = "function" THEN new[i].value + 1 ELSE 0
         /\ new[i].value \in 1 .. m + 1 /\ new[i].thunk \in 0 .. m + 1
  <2> TAKE i \in 1 .. n
  <2>1. CASE i = n
    BY <2>1, <1>4, <1>5, <1>6
  <2>2. CASE i # n
    <3>1. found[i].value \in 1 .. m /\ found[i].thunk \in 0 .. m
      BY DEF FoundIn
    <3> QED BY <2>2, <3>1, <1>4 DEF FoundIn
  <2> QED BY <2>1, <2>2
<1>8. \A i \in 1 .. n : new[i].value = found[i].value
  BY <1>4, <1>5
<1>9. \A i, j \in 1 .. n : i < j => new[i].value < new[j].value
  BY <1>8 DEF FoundIn
<1>10. \A a \in 1 .. m + 1 : \E i \in 1 .. n : a = new[i].value \/ a = new[i].thunk
  <2> TAKE a \in 1 .. m + 1
  <2>1. CASE a = m + 1
    BY <2>1, <1>1, <1>4, <1>5
  <2>2. CASE a \in 1 .. m
    <3>1. PICK i \in 1 .. n : a = found[i].value \/ a = found[i].thunk
      BY <2>2 DEF FoundIn
    <3>2. CASE i # n
      BY <3>1, <3>2, <1>4
    <3>3. CASE i = n
      <4>1. a = found[n].value
        BY <3>1, <3>3, <2>2
      <4> QED BY <4>1, <1>1, <1>8
    <3> QED BY <3>2, <3>3
  <2> QED BY <2>1, <2>2
<1>11. new # <<>>
  BY <1>1, <1>4
<1>12. FoundIn(new, m + 1)
  <2>1. new[Len(new)].value = m /\ new[Len(new)].kind = "function"
    BY <1>1, <1>4, <1>5, <1>6
  <2> QED BY <2>1, <1>4, <1>7, <1>9, <1>10, <1>11 DEF FoundIn
<1> QED BY <1>4, <1>12 DEF new

LEMMA ImportsInitially == ImportsInit => ImportsInv
<1> SUFFICES ASSUME ImportsInit PROVE ImportsInv
  OBVIOUS
<1>1. imports.found = <<>> /\ imports.records = <<>> /\ imports.at = "idle"
  BY DEF ImportsInit
<1>2. <<>> \in Seq(FoundRecords) /\ <<>> \in Seq(ImportRecords) /\ Len(<<>>) = 0
  BY EmptySeq
<1>3. FoundIn(<<>>, 0)
  BY <1>2 DEF FoundIn
<1>4. imports = [at |-> imports.at, pe |-> imports.pe, rva |-> imports.rva,
                  layout |-> imports.layout, kernel |-> imports.kernel,
                  records |-> imports.records, found |-> imports.found,
                  thunks |-> imports.thunks, slots |-> imports.slots]
  BY DEF ImportsInit
<1> QED BY <1>1, <1>2, <1>3, <1>4 DEF ImportsInv, RecordsAccounted, LoadedImagesReadMapped

(* What RegisterPlan hands over is all there is.                            *)
LEMMA PlanAccounts ==
    ASSUME NEW found \in Seq(FoundRecords), NEW m \in Nat, FoundIn(found, m)
    PROVE  LET functions == {g \in ToSet(found) : g.kind = "function"}
               variables == {g \in ToSet(found) : g.kind = "variable"}
               thunks == {f.thunk : f \in functions}
           IN  /\ {f.value : f \in variables} \cup thunks \cup {f.value : f \in functions} = 1 .. m
               /\ Cardinality(thunks) = Cardinality(functions)
               /\ \A f \in functions : f.thunk = f.value + 1
<1> DEFINE functions == {g \in ToSet(found) : g.kind = "function"}
           variables == {g \in ToSet(found) : g.kind = "variable"}
           thunks == {f.thunk : f \in functions}
<1>1. ToSet(found) = {found[i] : i \in 1 .. Len(found)} /\ Len(found) \in Nat
  BY LenProperties DEF ToSet
<1>2. \A i \in 1 .. Len(found) : found[i] \in FoundRecords
  BY ElementOfSeq
<1>3. \A f \in functions : f.thunk = f.value + 1 /\ f.value \in Nat
  BY <1>1, <1>2 DEF FoundIn, FoundRecords
<1>4. {f.value : f \in variables} \cup thunks \cup {f.value : f \in functions} \subseteq 1 .. m
  <2>1. \A i \in 1 .. Len(found) :
          found[i].value \in 1 .. m /\ (found[i].kind = "function" => found[i].thunk \in 1 .. m)
    <3> TAKE i \in 1 .. Len(found)
    <3>1. /\ found[i].value \in 1 .. m /\ found[i].thunk \in 0 .. m
          /\ found[i].kind = "function" => found[i].thunk = found[i].value + 1
      BY DEF FoundIn
    <3> QED BY <3>1
  <2> QED BY <1>1, <2>1
<1>5. \A a \in 1 .. m : a \in {f.value : f \in variables} \cup thunks \cup {f.value : f \in functions}
  <2> TAKE a \in 1 .. m
  <2>1. PICK i \in 1 .. Len(found) : a = found[i].value \/ a = found[i].thunk
    BY DEF FoundIn
  <2>2. found[i] \in ToSet(found) /\ found[i].kind \in {"function", "variable"}
    BY <1>1, <1>2 DEF FoundRecords
  <2>3. a = found[i].thunk => found[i].kind = "function"
    BY DEF FoundIn
  <2> QED BY <2>1, <2>2, <2>3
<1>6. Cardinality(thunks) = Cardinality(functions)
  <2> DEFINE h == [f \in functions |-> f.thunk]
  <2>1. IsFiniteSet(functions)
    <3> DEFINE e == [i \in 1 .. Len(found) |-> found[i]]
    <3>1. e \in Surjection(1 .. Len(found), ToSet(found))
      BY <1>1 DEF Surjection
    <3>2. IsFiniteSet(1 .. Len(found))
      BY <1>1, FS_Interval
    <3>3. IsFiniteSet(ToSet(found))
      <4> HIDE DEF e
      <4> QED BY <3>1, <3>2, FS_Surjection
    <3> QED BY <3>3, FS_Subset
  <2>2. h \in Surjection(functions, thunks)
    BY DEF Surjection
  <2>3. \A f, g \in functions : f.thunk = g.thunk => f = g
    <3> SUFFICES ASSUME NEW f \in functions, NEW g \in functions, f.thunk = g.thunk
                 PROVE  f = g
      OBVIOUS
    <3>1. PICK i \in 1 .. Len(found) : f = found[i]
      BY <1>1
    <3>2. PICK j \in 1 .. Len(found) : g = found[j]
      BY <1>1
    <3>3. found[i].value = found[j].value
      BY <1>3, <3>1, <3>2
    <3>4. found[i].value \in Nat /\ found[j].value \in Nat
      BY <1>2 DEF FoundRecords
    <3>5. ~(i < j) /\ ~(j < i)
      BY <3>3, <3>4 DEF FoundIn
    <3>6. i = j
      BY <3>5, <1>1
    <3> QED BY <3>1, <3>2, <3>6
  <2>4. h \in Injection(functions, thunks)
    BY <2>3 DEF Injection, IsInjective
  <2> HIDE DEF h, functions, thunks
  <2> QED BY <2>1, <2>2, <2>4, FS_Surjection
<1> HIDE DEF functions, variables, thunks
<1>7. {f.value : f \in variables} \cup thunks \cup {f.value : f \in functions} = 1 .. m
  BY <1>4, <1>5
<1> QED BY <1>3, <1>6, <1>7 DEF functions, variables, thunks

(* A loaded image is as long as its section is in memory, so the place its  *)
(* address names is there, and is believed.                                 *)
LEMMA LoadedIsMapped ==
    ASSUME NEW pe \in ImageLayouts, RealLayout(pe), pe.loaded, NEW delta \in {0, 1},
           delta < pe.stored
    PROVE  Resolved(pe, pe.va + delta) = "mapped"
<1>1. /\ pe.va \in {1, 2} /\ pe.raw = 1 /\ pe.stored \in 1 .. 2 /\ pe.span \in 2 .. 3
      /\ pe.length \in 1 .. 5
  BY DEF ImageLayouts
<1>2. pe.va + pe.stored <= pe.length /\ pe.stored <= pe.span
  BY <1>1 DEF RealLayout
<1>3. pe.va + delta < pe.length
  BY <1>1, <1>2
<1>4. MappedLayout(pe)
  BY <1>1, <1>2 DEF MappedLayout, Least
<1> QED BY <1>3, <1>4 DEF Resolved

LEMMA ImportsStep == ImportsInv /\ (ImportSteps \/ UNCHANGED imports) => ImportsInv'
<1> SUFFICES ASSUME ImportsInv, ImportSteps \/ UNCHANGED imports PROVE ImportsInv'
  OBVIOUS
<1>1. CASE UNCHANGED imports
  BY <1>1 DEF ImportsInv, RecordsAccounted, LoadedImagesReadMapped
<1>2. ASSUME NEW pe \in ImageLayouts, NEW delta \in {0, 1}, NEW kernel \in BOOLEAN,
             DecodeLibrary(pe, delta, kernel)
      PROVE  ImportsInv'
  <2> DEFINE layout == Resolved(pe, pe.va + delta)
             at == IF layout = "none" THEN "failed" ELSE "decode"
  <2>1. imports.at = "idle" /\ RealLayout(pe) /\ delta < pe.stored
    BY <1>2 DEF DecodeLibrary
  <2>2. imports' = [imports EXCEPT !.at = at, !.pe = pe, !.rva = pe.va + delta,
                                   !.layout = layout, !.kernel = kernel]
    BY <1>2 DEF DecodeLibrary
  <2>3. pe.loaded => layout = "mapped"
    BY <2>1, LoadedIsMapped
  <2>4. at \in {"failed", "decode"}
    OBVIOUS
  <2> HIDE DEF layout, at
  <2>5. /\ imports'.at = at /\ imports'.pe = pe /\ imports'.layout = layout
        /\ imports'.found = imports.found /\ imports'.records = imports.records
        /\ imports' = [at |-> imports'.at, pe |-> imports'.pe, rva |-> imports'.rva,
                  layout |-> imports'.layout, kernel |-> imports'.kernel,
                  records |-> imports'.records, found |-> imports'.found,
                  thunks |-> imports'.thunks, slots |-> imports'.slots]
    BY <2>2 DEF ImportsInv
  <2> QED BY <2>1, <2>3, <2>4, <2>5 DEF ImportsInv, RecordsAccounted, LoadedImagesReadMapped
<1>3. ASSUME NEW type \in {0, 1, 2}, NEW ordinal \in {1, 2},
             DecodeRecord([type |-> type, ordinal |-> ordinal])
      PROVE  ImportsInv'
  <2> DEFINE r == [type |-> type, ordinal |-> ordinal]
             m == Len(imports.records)
             found == imports.found
             last == Len(found)
             e == [kind |-> "variable", ordinal |-> ordinal, value |-> m + 1, thunk |-> 0]
             new == IF type = 0 THEN Append(found, e)
                    ELSE IF type = 1 /\ Pairs(found, r)
                         THEN [found EXCEPT ![last].kind = "function", ![last].thunk = m + 1]
                         ELSE found
             at == IF type = 2 \/ (type = 1 /\ ~Pairs(found, r)) THEN "failed" ELSE "decode"
  <2>1. imports.at = "decode" /\ FoundIn(found, m)
    BY <1>3 DEF DecodeRecord, ImportsInv
  <2>2. imports' = [imports EXCEPT !.records = Append(@, r), !.at = at, !.found = new]
    BY <1>3 DEF DecodeRecord
  <2>3. m \in Nat /\ r \in ImportRecords /\ e \in FoundRecords
    BY LenProperties DEF ImportsInv, ImportRecords, FoundRecords
  <2>4. Append(imports.records, r) \in Seq(ImportRecords) /\ Len(Append(imports.records, r)) = m + 1
    BY <2>3, AppendProperties DEF ImportsInv
  <2>5. new \in Seq(FoundRecords) /\ (at = "decode" => FoundIn(new, m + 1))
    <3>1. CASE type = 0
      <4>1. Append(found, e) \in Seq(FoundRecords)
        BY <2>3, AppendProperties DEF ImportsInv
      <4>2. FoundIn(Append(found, e), m + 1)
        <5>1. e.kind = "variable" /\ e.thunk = 0 /\ e.value = m + 1
          OBVIOUS
        <5>2. found \in Seq(FoundRecords)
          BY DEF ImportsInv
        <5> HIDE DEF e, m, found
        <5> QED BY <5>1, <5>2, <2>1, <2>3, DescriptorFound
      <4> QED BY <3>1, <4>1, <4>2
    <3>2. CASE type = 1 /\ Pairs(found, r)
      <4>1. found # <<>> /\ found[last].thunk = 0 /\ found \in Seq(FoundRecords)
        BY <3>2 DEF Pairs, Last, ImportsInv
      <4>2. LET f == [found EXCEPT ![last].kind = "function", ![last].thunk = m + 1]
            IN  f \in Seq(FoundRecords) /\ FoundIn(f, m + 1)
        <5> HIDE DEF m, found
        <5> QED BY <4>1, <2>1, <2>3, ThunkFound
      <4> QED BY <3>2, <4>2
    <3>3. CASE type # 0 /\ ~(type = 1 /\ Pairs(found, r))
      BY <3>3 DEF ImportsInv
    <3> QED BY <3>1, <3>2, <3>3
  <2>6. at \in {"decode", "failed"}
    OBVIOUS
  <2>7. /\ imports'.at = at /\ imports'.pe = imports.pe /\ imports'.layout = imports.layout
        /\ imports'.found = new /\ imports'.records = Append(imports.records, r)
        /\ imports' = [at |-> imports'.at, pe |-> imports'.pe, rva |-> imports'.rva,
                  layout |-> imports'.layout, kernel |-> imports'.kernel,
                  records |-> imports'.records, found |-> imports'.found,
                  thunks |-> imports'.thunks, slots |-> imports'.slots]
    <3> HIDE DEF new, at, r
    <3> QED BY <2>2 DEF ImportsInv
  <2> HIDE DEF new, at, r, m, found
  <2> QED BY <2>1, <2>4, <2>5, <2>6, <2>7 DEF ImportsInv, RecordsAccounted, LoadedImagesReadMapped
<1>4. CASE RegisterPlan
  <2> DEFINE ours == IF imports.kernel THEN ToSet(imports.found) ELSE {}
             thunks == {f.thunk : f \in {g \in ours : g.kind = "function"}}
             slots == {f.value : f \in {g \in ours : g.kind = "variable"}}
  <2>1. imports.at = "decode"
    BY <1>4 DEF RegisterPlan
  <2>2. imports' = [imports EXCEPT !.at = "done", !.thunks = thunks, !.slots = slots]
    BY <1>4 DEF RegisterPlan
  <2>3. /\ imports.found \in Seq(FoundRecords) /\ Len(imports.records) \in Nat
        /\ DOMAIN imports.records = 1 .. Len(imports.records)
        /\ FoundIn(imports.found, Len(imports.records))
    BY <2>1, LenProperties DEF ImportsInv
  <2>4. imports.kernel =>
          LET functions == {f \in ToSet(imports.found) : f.kind = "function"}
          IN  /\ slots \cup thunks \cup {f.value : f \in functions} = DOMAIN imports.records
              /\ Cardinality(thunks) = Cardinality(functions)
              /\ \A f \in functions : f.thunk = f.value + 1
    BY <2>3, PlanAccounts
  <2> HIDE DEF thunks, slots
  <2>5. /\ imports'.at = "done" /\ imports'.pe = imports.pe /\ imports'.layout = imports.layout
        /\ imports'.found = imports.found /\ imports'.records = imports.records
        /\ imports'.kernel = imports.kernel /\ imports'.thunks = thunks
        /\ imports'.slots = slots
        /\ imports' = [at |-> imports'.at, pe |-> imports'.pe, rva |-> imports'.rva,
                  layout |-> imports'.layout, kernel |-> imports'.kernel,
                  records |-> imports'.records, found |-> imports'.found,
                  thunks |-> imports'.thunks, slots |-> imports'.slots]
    BY <2>2 DEF ImportsInv
  <2>6. RecordsAccounted'
    BY <2>4, <2>5 DEF RecordsAccounted
  <2>7. LoadedImagesReadMapped'
    BY <2>1, <2>5 DEF LoadedImagesReadMapped, ImportsInv
  <2> QED BY <2>5, <2>6, <2>7 DEF ImportsInv
<1> QED
  BY <1>1, <1>2, <1>3, <1>4 DEF ImportSteps

-----------------------------------------------------------------------------
(* The image that is prepared (TitleImage)                                   *)

Blocks == Seq([data : Nat, zero : Nat])

LEMMA BlockFields ==
    ASSUME NEW blocks \in Blocks
    PROVE  /\ Len(blocks) \in Nat
           /\ \A k \in 1 .. Len(blocks) : blocks[k].data \in Nat /\ blocks[k].zero \in Nat
<1>1. \A k \in 1 .. Len(blocks) : blocks[k] \in [data : Nat, zero : Nat]
  BY ElementOfSeq DEF Blocks
<1> QED BY <1>1, LenProperties DEF Blocks

(* The starts of the blocks are numbers, each the end of the one before.    *)
LEMMA StartsExist ==
    ASSUME NEW kind, NEW blocks \in Blocks
    PROVE  \E g : g = [k \in 1 .. Len(blocks) + 1 |->
                         IF k = 1 THEN 0 ELSE g[k - 1] + HeadLength(kind) + blocks[k - 1].data]
<1> DEFINE Good(m, g) == g = [k \in 1 .. m |->
                         IF k = 1 THEN 0 ELSE g[k - 1] + HeadLength(kind) + blocks[k - 1].data]
           S == {m \in 1 .. Len(blocks) + 1 : ~\E g : Good(m, g)}
<1>1. Len(blocks) \in Nat
  BY BlockFields
<1>2. ASSUME S # {} PROVE FALSE
  <2>1. PICK m \in S : \A y \in S : m <= y
    <3>1. S \in SUBSET Nat
      BY <1>1
    <3> HIDE DEF S
    <3> QED BY <1>2, <3>1, LeastExists
  <2>2. m # 1
    <3>1. Good(1, [k \in 1 .. 1 |-> 0])
      OBVIOUS
    <3> QED BY <3>1, <2>1
  <2>3. m - 1 \in 1 .. Len(blocks) + 1 /\ m - 1 \notin S /\ m \in 1 .. Len(blocks) + 1
    <3>1. m \in 1 .. Len(blocks) + 1
      BY <2>1
    <3>2. m - 1 \in 1 .. Len(blocks) + 1 /\ ~(m <= m - 1)
      BY <3>1, <1>1, <2>2
    <3> HIDE DEF S
    <3> QED BY <3>1, <3>2, <2>1
  <2>4. PICK f : Good(m - 1, f)
    BY <2>3
  <2> DEFINE g == [k \in 1 .. m |-> IF k = m THEN f[m - 1] + HeadLength(kind) + blocks[m - 1].data
                                            ELSE f[k]]
  <2>5. \A k \in 1 .. m : g[k] = IF k = 1 THEN 0 ELSE g[k - 1] + HeadLength(kind) + blocks[k - 1].data
    <3> TAKE k \in 1 .. m
    <3>1. CASE k = m
      BY <3>1, <2>2, <2>3
    <3>2. CASE k # m
      BY <3>2, <2>3, <2>4
    <3> QED BY <3>1, <3>2
  <2>6. Good(m, g)
    BY <2>5
  <2> QED BY <2>1, <2>6
<1>3. Len(blocks) + 1 \in 1 .. Len(blocks) + 1
  BY <1>1
<1> QED BY <1>2, <1>3

LEMMA StartsAre ==
    ASSUME NEW kind, NEW blocks \in Blocks
    PROVE  LET s == BlockStarts(kind, blocks)
           IN  /\ s \in [1 .. Len(blocks) + 1 -> Nat] /\ s[1] = 0
               /\ \A k \in 1 .. Len(blocks) :
                     s[k + 1] = s[k] + HeadLength(kind) + blocks[k].data
<1> DEFINE n == Len(blocks)
           D == 1 .. n + 1
           s == BlockStarts(kind, blocks)
<1>1. n \in Nat /\ HeadLength(kind) \in Nat /\ \A k \in 1 .. n : blocks[k].data \in Nat
  BY BlockFields DEF HeadLength
<1>5. s = [k \in D |-> IF k = 1 THEN 0
                       ELSE s[k - 1] + HeadLength(kind) + blocks[k - 1].data]
  BY StartsExist, Zenon DEF BlockStarts
<1> HIDE DEF s
<1>6. s[1] = 0 /\ \A k \in 1 .. n : s[k + 1] = s[k] + HeadLength(kind) + blocks[k].data
  BY <1>1, <1>5
<1>7. s \in [D -> Nat]
  <2> DEFINE S == {k \in D : s[k] \notin Nat}
  <2>3. ASSUME S # {} PROVE FALSE
    <3>1. PICK k \in S : \A j \in S : k <= j
      <4>1. S \in SUBSET Nat
        BY <1>1
      <4> HIDE DEF S
      <4> QED BY <2>3, <4>1, LeastExists
    <3>2. k - 1 \in 1 .. n /\ k - 1 \notin S /\ k - 1 \in D
      BY <3>1, <1>6, <1>1
    <3>3. s[k] = s[k - 1] + HeadLength(kind) + blocks[k - 1].data
      <4>1. (k - 1) + 1 = k
        BY <3>2
      <4> QED BY <3>2, <4>1, <1>6
    <3>4. s[k - 1] \in Nat
      BY <3>2
    <3>5. blocks[k - 1].data \in Nat
      BY <3>2, <1>1
    <3>6. s[k] \in Nat
      BY <3>3, <3>4, <3>5, <1>1
    <3> QED BY <3>1, <3>6
  <2>4. \A k \in D : s[k] \in Nat
    BY <2>3
  <2> HIDE DEF D
  <2>5. s = [k \in D |-> s[k]]
    BY <1>5
  <2> QED BY <2>4, <2>5
<1> QED BY <1>6, <1>7 DEF s

(* Every unit of a block is a unit of the body or a zero.                   *)
LEMMA BlockIsSeq ==
    ASSUME NEW kind, NEW blocks \in Blocks, NEW k \in 1 .. Len(blocks)
    PROVE  DescribedBlock(kind, blocks, k) \in Seq(Int)
<1> DEFINE n == blocks[k].data + (IF kind = "basic" THEN blocks[k].zero ELSE 0)
<1>1. n \in Nat /\ blocks[k].data \in Nat /\ HeadLength(kind) \in Nat
  BY BlockFields DEF HeadLength
<1>2. BlockStarts(kind, blocks)[k] \in Nat
  <2>1. k \in 1 .. Len(blocks) + 1
    BY BlockFields
  <2> QED BY <2>1, StartsAre
<1>3. DescribedBlock(kind, blocks, k) \in [1 .. n -> Int]
  BY <1>1, <1>2 DEF DescribedBlock, Zero
<1> HIDE DEF n
<1> QED BY <1>1, <1>3, FunctionIsSeq

LEMMA ImageExists ==
    ASSUME NEW kind, NEW blocks \in Blocks
    PROVE  \E g : g = [k \in 0 .. Len(blocks) |->
                         IF k = 0 THEN <<>> ELSE g[k - 1] \o DescribedBlock(kind, blocks, k)]
<1> DEFINE Good(m, g) == g = [k \in 0 .. m |->
                         IF k = 0 THEN <<>> ELSE g[k - 1] \o DescribedBlock(kind, blocks, k)]
           S == {m \in 0 .. Len(blocks) : ~\E g : Good(m, g)}
<1>1. Len(blocks) \in Nat
  BY BlockFields
<1>2. ASSUME S # {} PROVE FALSE
  <2>1. PICK m \in S : \A y \in S : m <= y
    <3>1. S \in SUBSET Nat
      BY <1>1
    <3> HIDE DEF S
    <3> QED BY <1>2, <3>1, LeastExists
  <2>2. m # 0
    <3>1. Good(0, [k \in 0 .. 0 |-> <<>>])
      OBVIOUS
    <3> QED BY <3>1, <2>1
  <2>3. m - 1 \in 0 .. Len(blocks) /\ m - 1 \notin S /\ m \in 0 .. Len(blocks)
    <3>1. m \in 0 .. Len(blocks)
      BY <2>1
    <3>2. m - 1 \in 0 .. Len(blocks) /\ ~(m <= m - 1)
      BY <3>1, <1>1, <2>2
    <3> HIDE DEF S
    <3> QED BY <3>1, <3>2, <2>1
  <2>4. PICK f : Good(m - 1, f)
    BY <2>3
  <2> DEFINE g == [k \in 0 .. m |-> IF k = m THEN f[m - 1] \o DescribedBlock(kind, blocks, m)
                                            ELSE f[k]]
  <2>5. \A k \in 0 .. m : g[k] = IF k = 0 THEN <<>> ELSE g[k - 1] \o DescribedBlock(kind, blocks, k)
    <3> TAKE k \in 0 .. m
    <3>0. k # m => k \in 0 .. m - 1 /\ (k # 0 => k - 1 \in 0 .. m - 1)
      BY <2>3
    <3>1. CASE k = m
      <4>1. m - 1 \in 0 .. m /\ m - 1 # m
        BY <2>2, <2>3
      <4>2. g[m - 1] = f[m - 1]
        BY <4>1
      <4>3. g[m] = f[m - 1] \o DescribedBlock(kind, blocks, m)
        BY <3>1
      <4> HIDE DEF g
      <4> QED BY <3>1, <2>2, <4>2, <4>3
    <3>2. CASE k # m
      <4>1. g[k] = f[k]
        BY <3>2
      <4>2. f[k] = IF k = 0 THEN <<>> ELSE f[k - 1] \o DescribedBlock(kind, blocks, k)
        BY <3>0, <3>2, <2>4, Zenon
      <4>3. k # 0 => g[k - 1] = f[k - 1]
        BY <3>0, <3>2, <2>3
      <4> HIDE DEF g
      <4> QED BY <4>1, <4>2, <4>3
    <3> QED BY <3>1, <3>2
  <2>6. Good(m, g)
    BY <2>5
  <2> QED BY <2>1, <2>6
<1>3. Len(blocks) \in 0 .. Len(blocks)
  BY <1>1
<1> QED BY <1>2, <1>3

(* The image up to a block goes on with the next.                           *)
LEMMA ImageGoesOn ==
    ASSUME NEW kind, NEW blocks \in Blocks
    PROVE  LET g == DescribedUpTo(kind, blocks)
           IN  /\ g[0] = <<>>
               /\ \A k \in 0 .. Len(blocks) : g[k] \in Seq(Int)
               /\ \A k \in 1 .. Len(blocks) : g[k] = g[k - 1] \o DescribedBlock(kind, blocks, k)
<1> DEFINE n == Len(blocks)
           g == DescribedUpTo(kind, blocks)
<1>1. n \in Nat
  BY BlockFields
<1>2. g = [k \in 0 .. n |-> IF k = 0 THEN <<>> ELSE g[k - 1] \o DescribedBlock(kind, blocks, k)]
  BY ImageExists, Zenon DEF DescribedUpTo
<1> HIDE DEF g
<1>3. g[0] = <<>> /\ \A k \in 1 .. n : g[k] = g[k - 1] \o DescribedBlock(kind, blocks, k)
  <2>1. \A k \in 0 .. n : g[k] = IF k = 0 THEN <<>> ELSE g[k - 1] \o DescribedBlock(kind, blocks, k)
    BY <1>2, Zenon
  <2>2. 0 \in 0 .. n /\ \A k \in 1 .. n : k \in 0 .. n /\ k # 0
    BY <1>1
  <2> HIDE DEF n
  <2> QED BY <2>1, <2>2
<1>4. \A k \in 0 .. n : g[k] \in Seq(Int)
  <2> DEFINE S == {k \in 0 .. n : g[k] \notin Seq(Int)}
  <2>1. ASSUME S # {} PROVE FALSE
    <3>1. PICK k \in S : \A j \in S : k <= j
      <4>1. S \in SUBSET Nat
        BY <1>1
      <4> HIDE DEF S
      <4> QED BY <2>1, <4>1, LeastExists
    <3>2. k - 1 \in 0 .. n /\ k - 1 \notin S /\ k \in 1 .. n
      <4>1. k # 0
        BY <3>1, <1>3, EmptySeq
      <4> QED BY <3>1, <1>1, <4>1
    <3>3. DescribedBlock(kind, blocks, k) \in Seq(Int)
      BY <3>2, BlockIsSeq
    <3>4. g[k - 1] \in Seq(Int)
      BY <3>2
    <3>5. g[k] \in Seq(Int)
      BY <3>2, <3>3, <3>4, <1>3, ConcatProperties
    <3> QED BY <3>1, <3>5
  <2> QED BY <2>1
<1> QED BY <1>3, <1>4 DEF g

(* The pieces of a sequence that is cut in two make it up again.            *)
LEMMA CutMeets ==
    ASSUME NEW d \in Nat, NEW m \in Nat, NEW f \in [1 .. d + m -> Int], NEW a, NEW b,
           a = [i \in 1 .. d |-> f[i]], b = [i \in 1 .. m |-> f[d + i]]
    PROVE  a \in Seq(Int) /\ b \in Seq(Int) /\ a \o b = f
<1>1. a \in Seq(Int) /\ Len(a) = d
  <2>1. a \in [1 .. d -> Int]
    OBVIOUS
  <2> QED BY <2>1, FunctionIsSeq
<1>2. b \in Seq(Int) /\ Len(b) = m
  <2>1. b \in [1 .. m -> Int]
    OBVIOUS
  <2> QED BY <2>1, FunctionIsSeq
<1>3. f \in Seq(Int) /\ Len(f) = d + m
  <2>1. d + m \in Nat
    OBVIOUS
  <2> QED BY <2>1, FunctionIsSeq
<1>4. \A i \in 1 .. d : a[i] = f[i]
  OBVIOUS
<1>5. \A i \in 1 .. m : b[i] = f[d + i]
  OBVIOUS
<1>6. a \o b \in Seq(Int) /\ Len(a \o b) = d + m
  BY <1>1, <1>2, ConcatProperties
<1>7. \A i \in 1 .. d + m : (a \o b)[i] = f[i]
  <2> TAKE i \in 1 .. d + m
  <2>1. (a \o b)[i] = IF i <= d THEN a[i] ELSE b[i - d]
    BY <1>1, <1>2, ConcatProperties
  <2>2. CASE i <= d
    BY <2>1, <2>2, <1>4
  <2>3. CASE ~(i <= d)
    BY <2>1, <2>3, <1>5
  <2> QED BY <2>2, <2>3
<1>8. a \o b = f
  BY <1>3, <1>6, <1>7, SeqEqual
<1> QED BY <1>1, <1>2, <1>8

(* What has been packed of a block when n of its units have.                *)
Part(kind, blocks, k, n) ==
    [i \in 1 .. n |-> IF i <= blocks[k].data THEN BlockStarts(kind, blocks)[k] + HeadLength(kind) + i
                      ELSE Zero]

LEMMA PartIsSeq ==
    ASSUME NEW kind, NEW blocks \in Blocks, NEW k \in 1 .. Len(blocks), NEW n \in Nat
    PROVE  /\ Part(kind, blocks, k, n) \in [1 .. n -> Int]
           /\ Part(kind, blocks, k, n) \in Seq(Int)
<1>1. blocks[k].data \in Nat /\ HeadLength(kind) \in Nat
  BY BlockFields DEF HeadLength
<1>2. BlockStarts(kind, blocks)[k] \in Nat
  <2>1. k \in 1 .. Len(blocks) + 1
    BY BlockFields
  <2> QED BY <2>1, StartsAre
<1>3. Part(kind, blocks, k, n) \in [1 .. n -> Int]
  BY <1>1, <1>2 DEF Part, Zero
<1> QED BY <1>3, FunctionIsSeq

(* A piece that continues a block is packed after what is there.            *)
LEMMA PartGrows ==
    ASSUME NEW kind, NEW blocks \in Blocks, NEW k \in 1 .. Len(blocks), NEW d \in Nat, NEW m \in Nat,
           NEW piece \in [1 .. m -> Int],
           \A i \in 1 .. m : piece[i] = Part(kind, blocks, k, d + m)[d + i],
           NEW before \in Seq(Int)
    PROVE  (before \o Part(kind, blocks, k, d)) \o piece = before \o Part(kind, blocks, k, d + m)
<1>0. PICK f : f = Part(kind, blocks, k, d + m)
  OBVIOUS
<1>1. d + m \in Nat
  OBVIOUS
<1>2. f \in [1 .. d + m -> Int] /\ Part(kind, blocks, k, d) \in Seq(Int)
  BY <1>0, <1>1, PartIsSeq
<1>3. Part(kind, blocks, k, d) = [i \in 1 .. d |-> f[i]]
  BY <1>0 DEF Part
<1>4. piece = [i \in 1 .. m |-> f[d + i]]
  BY <1>0
<1>5. PICK a : a = Part(kind, blocks, k, d)
  OBVIOUS
<1>6. a \o piece = f /\ piece \in Seq(Int) /\ a \in Seq(Int)
  <2>1. a = [i \in 1 .. d |-> f[i]] /\ f \in [1 .. d + m -> Int]
    BY <1>2, <1>3, <1>5
  <2>2. d \in Nat /\ m \in Nat
    OBVIOUS
  <2>3. a \in Seq(Int) /\ piece \in Seq(Int) /\ a \o piece = f
    BY ONLY <2>1, <2>2, <1>4, CutMeets
  <2> QED BY <2>3
<1>7. (before \o a) \o piece = before \o (a \o piece)
  <2>1. before \in Seq(Int) /\ a \in Seq(Int) /\ piece \in Seq(Int)
    BY <1>6
  <2>2. PICK u, v, w : u = before /\ v = a /\ w = piece
    OBVIOUS
  <2>3. u \in Seq(Int) /\ v \in Seq(Int) /\ w \in Seq(Int)
    BY ONLY <2>1, <2>2
  <2>4. (u \o v) \o w = u \o (v \o w)
    BY ONLY <2>3, ConcatAssociative, SMTT(30)
  <2> QED BY ONLY <2>2, <2>4
<1> QED BY <1>0, <1>5, <1>6, <1>7

LEMMA WholePart ==
    ASSUME NEW kind, NEW blocks, NEW k
    PROVE  DescribedBlock(kind, blocks, k)
             = Part(kind, blocks, k, blocks[k].data + (IF kind = "basic" THEN blocks[k].zero ELSE 0))
  BY DEF DescribedBlock, Part

LEMMA NoPart ==
    ASSUME NEW kind, NEW blocks, NEW k
    PROVE  Part(kind, blocks, k, 0) = <<>>
  BY DEF Part

(* The least element of a set of numbers.                                   *)
LEMMA LeastIsMin ==
    ASSUME NEW S \in SUBSET Nat, S # {}
    PROVE  Min(S) \in S /\ \A x \in S : Min(S) <= x
  BY LeastExists DEF Min

(* An image being packed, and how far it is: pos units of the body are in   *)
(* it.  A block that is through may still be the present one.               *)
PrepStages == {"idle", "decrypt", "begin", "feed", "done", "failed"}
Kinds == {"none", "basic", "normal"}
Preparations ==
    [at : PrepStages, kind : Kinds, encrypted : BOOLEAN, header : {"plain", "encrypted"},
     blocks : Blocks, extra : {0, 1}, chain : Nat, off : Nat, body : Seq(Int), block : Nat, done : Nat, turn : Nat, out : Seq(Int)]

Through(p) == IF p.kind = "basic" THEN p.done ELSE IF p.done = 0 THEN 0 ELSE p.done - 1

Fed(p, pos) ==
    \/ /\ p.block \in 1 .. Len(p.blocks) /\ p.done <= Whole(p, p.block)
       /\ pos = BlockStarts(p.kind, p.blocks)[p.block]
                  + Least(p.done, HeadLength(p.kind) + p.blocks[p.block].data)
       /\ p.out = DescribedUpTo(p.kind, p.blocks)[p.block - 1]
                    \o Part(p.kind, p.blocks, p.block, Through(p))
    \/ /\ p.block = Len(p.blocks) + 1 /\ p.done = 0
       /\ pos = BlockStarts(p.kind, p.blocks)[p.block]
       /\ p.out = DescribedUpTo(p.kind, p.blocks)[p.block - 1]

Unfinished(p) == p.block \in 1 .. Len(p.blocks) => p.done < Whole(p, p.block)

LEMMA WholeIsNat ==
    ASSUME NEW p \in Preparations, p.kind \in {"basic", "normal"}, NEW k \in 1 .. Len(p.blocks)
    PROVE  /\ Whole(p, k) \in Nat
           /\ p.kind = "basic" => Whole(p, k) = p.blocks[k].data + p.blocks[k].zero
           /\ p.kind = "normal" => Whole(p, k) = p.blocks[k].data + 1
<1>1. p.blocks \in Blocks
  BY DEF Preparations
<1>2. p.blocks[k].data \in Nat /\ p.blocks[k].zero \in Nat
  BY <1>1, BlockFields
<1> QED BY <1>2 DEF Whole

(* Empty blocks take nothing of the body and give nothing to the image.     *)
LEMMA EmptyBlocks ==
    ASSUME NEW p \in Preparations, p.kind = "basic", NEW a \in 1 .. Len(p.blocks) + 1,
           NEW b \in 1 .. Len(p.blocks) + 1, a <= b, \A k \in a .. b - 1 : Whole(p, k) = 0
    PROVE  /\ BlockStarts(p.kind, p.blocks)[b] = BlockStarts(p.kind, p.blocks)[a]
           /\ DescribedUpTo(p.kind, p.blocks)[b - 1] = DescribedUpTo(p.kind, p.blocks)[a - 1]
<1> DEFINE s == BlockStarts(p.kind, p.blocks)
           g == DescribedUpTo(p.kind, p.blocks)
           n == Len(p.blocks)
           S == {k \in a .. b : ~(s[k] = s[a] /\ g[k - 1] = g[a - 1])}
<1>1. p.blocks \in Blocks /\ n \in Nat
  BY BlockFields DEF Preparations
<1>2. /\ \A k \in 1 .. n + 1 : s[k] \in Nat
      /\ \A k \in 1 .. n : s[k + 1] = s[k] + HeadLength(p.kind) + p.blocks[k].data
  <2>1. s \in [1 .. n + 1 -> Nat] /\ \A k \in 1 .. n : s[k + 1] = s[k] + HeadLength(p.kind) + p.blocks[k].data
    BY <1>1, StartsAre
  <2> HIDE DEF s, n
  <2> QED BY <2>1
<1>3. /\ \A k \in 0 .. n : g[k] \in Seq(Int)
      /\ \A k \in 1 .. n : g[k] = g[k - 1] \o DescribedBlock(p.kind, p.blocks, k)
  BY <1>1, ImageGoesOn
<1> HIDE DEF s, g
<1>4. ASSUME S # {} PROVE FALSE
  <2>1. PICK k \in S : \A j \in S : k <= j
    <3>1. S \in SUBSET Nat
      OBVIOUS
    <3> HIDE DEF S
    <3> QED BY <1>4, <3>1, LeastExists
  <2>2. k # a /\ k \in a .. b
    BY <2>1
  <2>3. k - 1 \in a .. b - 1 /\ k - 1 \in 1 .. n /\ ~(k <= k - 1)
    BY <2>2, <1>1
  <2>4. k - 1 \in a .. b /\ k - 1 \notin S
    <3> HIDE DEF S
    <3> QED BY <2>1, <2>3
  <2>5. s[k - 1] = s[a] /\ g[k - 2] = g[a - 1]
    <3>1. (k - 1) - 1 = k - 2
      BY <2>3
    <3> QED BY <2>4, <3>1
  <2>6. p.blocks[k - 1].data = 0 /\ p.blocks[k - 1].zero = 0
    <3>1. Whole(p, k - 1) = p.blocks[k - 1].data + p.blocks[k - 1].zero
      BY <2>3, WholeIsNat
    <3>2. p.blocks[k - 1].data \in Nat /\ p.blocks[k - 1].zero \in Nat
      BY <2>3, <1>1, BlockFields
    <3>3. Whole(p, k - 1) = 0
      BY <2>3
    <3> QED BY <3>1, <3>2, <3>3
  <2>7. s[k] = s[k - 1]
    <3>1. (k - 1) + 1 = k /\ HeadLength(p.kind) = 0
      BY <2>3 DEF HeadLength
    <3>2. s[k] = s[k - 1] + 0 + 0 /\ s[k - 1] \in Nat
      BY <2>3, <2>6, <3>1, <1>1, <1>2
    <3> QED BY <3>2
  <2>8. g[k - 1] = g[k - 2]
    <3>1. DescribedBlock(p.kind, p.blocks, k - 1) = <<>>
      BY <2>6 DEF DescribedBlock
    <3>2. k - 2 \in 0 .. n /\ (k - 1) - 1 = k - 2
      BY <2>3, <1>1
    <3>3. g[k - 1] = g[k - 2] \o <<>> /\ g[k - 2] \in Seq(Int)
      BY <2>3, <3>1, <3>2, <1>3
    <3> QED BY <3>3, ConcatEmptySeq
  <2> QED BY <2>1, <2>5, <2>7, <2>8
<1>5. b \in a .. b
  BY <1>1
<1> QED BY <1>4, <1>5 DEF s, g

(* Going past a block that is through changes nothing of what was packed.   *)
LEMMA AdvancedFed ==
    ASSUME NEW p \in Preparations, p.kind \in {"basic", "normal"}, NEW pos, Fed(p, pos)
    PROVE  /\ Fed(Advanced(p), pos) /\ Unfinished(Advanced(p))
           /\ Advanced(p) = [p EXCEPT !.block = Advanced(p).block, !.done = Advanced(p).done]
           /\ Advanced(p) \in Preparations
<1> DEFINE n == Len(p.blocks)
           more == {k \in p.block .. n : (IF k = p.block THEN p.done ELSE 0) < Whole(p, k)}
           next == Min(more \cup {n + 1})
<1>1. p.blocks \in Blocks /\ n \in Nat /\ p.done \in Nat /\ p.block \in Nat /\ p.out \in Seq(Int)
  BY BlockFields DEF Preparations
<1>2. p.block \in 1 .. n + 1
  <2>1. p.block \in 1 .. n \/ p.block = n + 1
    BY Zenon DEF Fed
  <2> HIDE DEF n
  <2> QED BY <1>1, <2>1
<1>3. next \in more \cup {n + 1} /\ \A k \in more \cup {n + 1} : next <= k
  <2>1. more \cup {n + 1} \in SUBSET Nat /\ more \cup {n + 1} # {}
    BY <1>1, <1>2
  <2> HIDE DEF more, n
  <2> QED BY <2>1, LeastIsMin
<1>4. Advanced(p) = IF next = p.block THEN p ELSE [p EXCEPT !.block = next, !.done = 0]
  BY DEF Advanced
<1> HIDE DEF next
<1>5. CASE next = p.block
  <2>1. Advanced(p) = p
    BY <1>4, <1>5
  <2>2. Unfinished(p)
    <3> HIDE DEF n
    <3>1. p.block \in 1 .. n => p.block # n + 1
      BY <1>1
    <3> QED BY <1>3, <1>5, <3>1 DEF Unfinished, n
  <2>3. p = [p EXCEPT !.block = p.block, !.done = p.done]
    BY DEF Preparations
  <2> QED BY <2>1, <2>2, <2>3
<1>6. CASE next # p.block
  <2> DEFINE b == p.block
             q == [p EXCEPT !.block = next, !.done = 0]
  <2>1. Advanced(p) = q
    BY <1>4, <1>6
  <2>2. q.block = next /\ q.done = 0 /\ q.kind = p.kind /\ q.blocks = p.blocks /\ q.out = p.out
    BY DEF Preparations
  <2>3. b \in 1 .. n /\ next \in b + 1 .. n + 1
    BY <1>1, <1>2, <1>3, <1>6
  <2>4. p.done = Whole(p, b)
    <3>1. ~(p.done < Whole(p, b))
      <4>1. ~(next <= b)
        BY <2>3, <1>1
      <4>2. b \notin more
        <5> HIDE DEF more
        <5> QED BY <4>1, <1>3
      <4> QED BY <4>2, <2>3, <1>1
    <3>2. Whole(p, b) \in Nat
      BY <2>3, WholeIsNat
    <3>3. p.done <= Whole(p, b)
      <4>1. p.block # n + 1
        BY <2>3, <1>1
      <4> QED BY <4>1 DEF Fed
    <3> QED BY <3>1, <3>2, <3>3, <1>1
  <2>5. \A k \in b + 1 .. next - 1 : Whole(p, k) = 0
    <3> TAKE k \in b + 1 .. next - 1
    <3>1. k \in 1 .. n /\ k # b /\ k \in b .. n /\ ~(next <= k)
      BY <2>3, <1>1
    <3>2. k \notin more
      <4> HIDE DEF more
      <4> QED BY <3>1, <1>3
    <3>3. ~(0 < Whole(p, k))
      BY <3>1, <3>2
    <3>4. Whole(p, k) \in Nat
      BY <3>1, WholeIsNat
    <3> QED BY <3>3, <3>4
  <2> DEFINE s == BlockStarts(p.kind, p.blocks)
             g == DescribedUpTo(p.kind, p.blocks)
  <2>6. s[next] = s[b + 1] /\ g[next - 1] = g[b]
    <3>1. CASE p.kind = "basic"
      <4>1. b + 1 \in 1 .. n + 1 /\ next \in 1 .. n + 1 /\ b + 1 <= next /\ (b + 1) - 1 = b
        BY <2>3, <1>1
      <4> HIDE DEF b, n
      <4> QED BY <2>5, <3>1, <4>1, EmptyBlocks DEF n
    <3>2. CASE p.kind = "normal"
      <4>1. next = b + 1
        <5> SUFFICES ASSUME next # b + 1 PROVE FALSE
          OBVIOUS
        <5>1. b + 1 \in b + 1 .. next - 1 /\ b + 1 \in 1 .. n
          BY <2>3, <1>1
        <5>2. Whole(p, b + 1) = p.blocks[b + 1].data + 1 /\ p.blocks[b + 1].data \in Nat
          BY <3>2, <5>1, <1>1, WholeIsNat, BlockFields
        <5>3. Whole(p, b + 1) = 0
          BY <2>5, <5>1
        <5> QED BY <5>2, <5>3
      <4>2. next - 1 = b
        BY <4>1, <2>3
      <4> QED BY <4>1, <4>2
    <3> QED BY <3>1, <3>2
  <2>7. p.blocks[b].data \in Nat /\ p.blocks[b].zero \in Nat /\ HeadLength(p.kind) \in Nat
    BY <2>3, <1>1, BlockFields DEF HeadLength
  <2>a. /\ p.kind = "basic" => Whole(p, b) = p.blocks[b].data + p.blocks[b].zero
        /\ p.kind = "normal" => Whole(p, b) = p.blocks[b].data + 1
    BY <2>3, WholeIsNat
  <2>8. pos = s[b + 1]
    <3>1. pos = s[b] + Least(p.done, HeadLength(p.kind) + p.blocks[b].data)
      <4>1. p.block # n + 1
        BY <2>3, <1>1
      <4> QED BY <4>1 DEF Fed
    <3>2. s[b + 1] = s[b] + HeadLength(p.kind) + p.blocks[b].data /\ s[b] \in Nat
      <4>1. s \in [1 .. n + 1 -> Nat] /\ \A k \in 1 .. n : s[k + 1] = s[k] + HeadLength(p.kind) + p.blocks[k].data
        BY <1>1, StartsAre
      <4>2. b \in 1 .. n + 1
        BY <2>3, <1>1
      <4> HIDE DEF s, n, b
      <4> QED BY <2>3, <4>1, <4>2
    <3>3. Least(p.done, HeadLength(p.kind) + p.blocks[b].data) = HeadLength(p.kind) + p.blocks[b].data
      <4>1. Whole(p, b) >= HeadLength(p.kind) + p.blocks[b].data
        <5>1. CASE p.kind = "basic"
          BY <2>a, <2>7, <5>1 DEF HeadLength
        <5>2. CASE p.kind = "normal"
          BY <2>a, <2>7, <5>2 DEF HeadLength
        <5> QED BY <5>1, <5>2
      <4> HIDE DEF b
      <4> QED BY <2>4, <2>7, <4>1, <1>1 DEF Least
    <3> HIDE DEF s, b
    <3> QED BY <3>1, <3>2, <3>3, <2>7
  <2>9. p.out = g[b]
    <3>1. p.out = g[b - 1] \o Part(p.kind, p.blocks, b, Through(p))
      <4>1. p.block # n + 1
        BY <2>3, <1>1
      <4> QED BY <4>1 DEF Fed
    <3>2. g[b] = g[b - 1] \o DescribedBlock(p.kind, p.blocks, b)
      BY <2>3, <1>1, ImageGoesOn
    <3>3. Through(p) = p.blocks[b].data + (IF p.kind = "basic" THEN p.blocks[b].zero ELSE 0)
      <4>1. CASE p.kind = "basic"
        BY <4>1, <2>4, <2>a DEF Through
      <4>2. CASE p.kind = "normal"
        <5>1. p.done = p.blocks[b].data + 1 /\ p.kind # "basic"
          BY <4>2, <2>4, <2>a
        <5>2. Through(p) = p.done - 1
          BY <5>1, <2>7 DEF Through
        <5> HIDE DEF b
        <5> QED BY <5>1, <5>2, <2>7
      <4> QED BY <4>1, <4>2
    <3> HIDE DEF g, b
    <3> QED BY <3>1, <3>2, <3>3, WholePart
  <2>10. Fed(q, pos)
    <3>1. CASE next = n + 1
      BY <2>2, <2>6, <2>8, <2>9, <3>1 DEF Fed
    <3>2. CASE next \in 1 .. n
      <4>1. Through(q) = 0
        BY <2>2 DEF Through
      <4>2. Whole(q, next) = Whole(p, next) /\ Whole(p, next) \in Nat
        BY <2>2, <3>2, WholeIsNat DEF Whole
      <4>3. Least(0, HeadLength(p.kind) + p.blocks[next].data) = 0
        <5>1. p.blocks[next].data \in Nat
          BY <3>2, <1>1, BlockFields
        <5> QED BY <2>7, <5>1 DEF Least
      <4>4. s[next] + 0 = pos
        <5>1. s[b + 1] \in Nat
          <6>1. s \in [1 .. n + 1 -> Nat] /\ b + 1 \in 1 .. n + 1
            BY <2>3, <1>1, StartsAre
          <6> HIDE DEF s, n, b
          <6> QED BY <6>1
        <5> HIDE DEF s, b
        <5> QED BY <2>6, <2>8, <5>1
      <4>5. g[next - 1] \o Part(p.kind, p.blocks, next, 0) = p.out
        <5> HIDE DEF g, b
        <5>1. g[next - 1] = p.out /\ Part(p.kind, p.blocks, next, 0) = <<>>
          BY <2>6, <2>9, NoPart
        <5>2. p.out \o <<>> = p.out
          BY <1>1, ConcatEmptySeq
        <5> QED BY <5>1, <5>2
      <4>6. q.done <= Whole(q, q.block)
        BY <2>2, <4>2
      <4>7. pos = BlockStarts(q.kind, q.blocks)[q.block] + Least(q.done, HeadLength(q.kind) + q.blocks[q.block].data)
        BY <2>2, <4>3, <4>4
      <4>8. q.out = DescribedUpTo(q.kind, q.blocks)[q.block - 1] \o Part(q.kind, q.blocks, q.block, Through(q))
        BY <2>2, <4>1, <4>5
      <4>9. q.block \in 1 .. Len(q.blocks)
        BY <2>2, <3>2
      <4> HIDE DEF q
      <4> QED BY <4>6, <4>7, <4>8, <4>9 DEF Fed
    <3>3. next = n + 1 \/ next \in 1 .. n
      BY <2>3, <1>1
    <3> HIDE DEF q
    <3> QED BY <3>1, <3>2, <3>3
  <2>11. Unfinished(q)
    <3> SUFFICES ASSUME next \in 1 .. n PROVE 0 < Whole(q, next)
      BY <2>2 DEF Unfinished
    <3>1. next \in more
      <4>1. next # n + 1
        BY <1>1
      <4> HIDE DEF more
      <4> QED BY <4>1, <1>3
    <3>2. 0 < Whole(p, next)
      BY <3>1, <2>3, <1>1
    <3> QED BY <3>2, <2>2 DEF Whole
  <2>12. q \in Preparations
    <3>1. next \in Nat
      BY <2>3, <1>1
    <3> QED BY <3>1 DEF Preparations
  <2>13. q = [p EXCEPT !.block = q.block, !.done = q.done]
    BY <2>2
  <2> HIDE DEF q
  <2> QED BY <2>1, <2>10, <2>11, <2>12, <2>13
<1> QED BY <1>5, <1>6

(* q is p with more of its block: j more units of the image, the piece, and *)
(* gain more of the file.                                                   *)
Packs(p, q, j, piece, gain) ==
    /\ p \in Preparations /\ p.kind \in {"basic", "normal"} /\ p.block \in 1 .. Len(p.blocks)
    /\ q \in Preparations /\ q.kind = p.kind /\ q.blocks = p.blocks /\ q.block = p.block
    /\ q.done <= Whole(p, p.block) /\ j \in Nat /\ gain \in Int /\ Through(q) = Through(p) + j
    /\ piece = [i \in 1 .. j |-> Part(p.kind, p.blocks, p.block, Through(p) + j)[Through(p) + i]]
    /\ q.out = p.out \o piece
    /\ Least(q.done, HeadLength(p.kind) + p.blocks[p.block].data)
          = Least(p.done, HeadLength(p.kind) + p.blocks[p.block].data) + gain

(* More of a block is packed: the image goes on where it stood.             *)
LEMMA PackedKeeps ==
    ASSUME NEW p \in Preparations, p.kind \in {"basic", "normal"}, p.block \in 1 .. Len(p.blocks),
           NEW pos, Fed(p, pos), NEW q \in Preparations, q.kind = p.kind, q.blocks = p.blocks,
           q.block = p.block, q.done <= Whole(p, p.block), NEW j \in Nat, Through(q) = Through(p) + j,
           NEW piece, piece = [i \in 1 .. j |-> Part(p.kind, p.blocks, p.block, Through(p) + j)[Through(p) + i]],
           q.out = p.out \o piece, NEW gain \in Int,
           Least(q.done, HeadLength(p.kind) + p.blocks[p.block].data)
             = Least(p.done, HeadLength(p.kind) + p.blocks[p.block].data) + gain
    PROVE  Fed(q, pos + gain)
<1> DEFINE b == p.block
           s == BlockStarts(p.kind, p.blocks)
           before == DescribedUpTo(p.kind, p.blocks)[b - 1]
           h == HeadLength(p.kind) + p.blocks[b].data
<1>1. p.blocks \in Blocks /\ p.done \in Nat /\ q.done \in Nat /\ Len(p.blocks) \in Nat
  BY BlockFields DEF Preparations
<1>2. h \in Nat /\ s[b] \in Nat
  <2>1. p.blocks[b].data \in Nat /\ HeadLength(p.kind) \in Nat
    BY <1>1, BlockFields DEF HeadLength
  <2>2. s \in [1 .. Len(p.blocks) + 1 -> Nat]
    BY <1>1, StartsAre
  <2>3. b \in 1 .. Len(p.blocks) + 1
    BY <1>1
  <2> HIDE DEF s, b
  <2>4. s[b] \in Nat
    BY ONLY <2>2, <2>3
  <2>5. h \in Nat
    BY ONLY <2>1 DEF h, b
  <2> QED BY ONLY <2>4, <2>5
<1>3. before \in Seq(Int)
  <2>1. b - 1 \in 0 .. Len(p.blocks)
    BY <1>1
  <2> QED BY <2>1, <1>1, ImageGoesOn
<1>4. /\ pos = s[b] + Least(p.done, h)
      /\ p.out = before \o Part(p.kind, p.blocks, b, Through(p))
  <2>1. p.block # Len(p.blocks) + 1
    BY <1>1
  <2> QED BY <2>1, Zenon DEF Fed
<1>5. Through(p) \in Nat
  BY <1>1 DEF Through
<1>6. q.out = before \o Part(q.kind, q.blocks, q.block, Through(q))
  <2>1. PICK t : t = Through(p)
    OBVIOUS
  <2>2. piece = [i \in 1 .. j |-> Part(p.kind, p.blocks, b, t + j)[t + i]] /\ t \in Nat
    BY <1>5, <2>1
  <2> HIDE DEF before, b
  <2>3. (before \o Part(p.kind, p.blocks, b, t)) \o piece = before \o Part(p.kind, p.blocks, b, t + j)
    <3>1. b \in 1 .. Len(p.blocks)
      BY DEF b
    <3>2. t \in Nat /\ j \in Nat
      BY <2>2
    <3>3. PICK k, bl, kd : k = b /\ bl = p.blocks /\ kd = p.kind
      OBVIOUS
    <3>4. bl \in Blocks /\ k \in 1 .. Len(bl) /\ piece = [i \in 1 .. j |-> Part(kd, bl, k, t + j)[t + i]]
      BY <1>1, <2>2, <3>1, <3>3
    <3>5. PICK be : be = before
      OBVIOUS
    <3>6. be \in Seq(Int)
      BY <1>3, <3>5
    <3>7. bl \in Blocks /\ k \in 1 .. Len(bl) /\ t + j \in Nat
      BY <3>2, <3>4
    <3>8. \A i \in 1 .. j : piece[i] = Part(kd, bl, k, t + j)[t + i]
      BY <3>4
    <3>9. piece \in [1 .. j -> Int]
      <4>1. Part(kd, bl, k, t + j) \in [1 .. t + j -> Int]
        BY <3>7, PartIsSeq
      <4>2. \A i \in 1 .. j : t + i \in 1 .. t + j
        BY <3>2
      <4> QED BY <3>4, <4>1, <4>2
    <3>10. (be \o Part(kd, bl, k, t)) \o piece = be \o Part(kd, bl, k, t + j)
      BY ONLY <3>2, <3>6, <3>7, <3>8, <3>9, PartGrows, ZenonT(40)
    <3> QED BY <3>3, <3>5, <3>10
  <2>4. p.out = before \o Part(p.kind, p.blocks, b, t)
    BY ONLY <1>4, <2>1
  <2>5. q.out = before \o Part(p.kind, p.blocks, b, t + j)
    BY ONLY <2>3, <2>4, q.out = p.out \o piece
  <2>6. q.kind = p.kind /\ q.blocks = p.blocks /\ q.block = b /\ Through(q) = t + j
    BY <2>1 DEF b
  <2> QED BY ONLY <2>5, <2>6
<1>7. pos + gain = s[b] + Least(q.done, h)
  <2>1. Least(p.done, h) \in Int
    BY <1>1, <1>2 DEF Least
  <2>2. Least(q.done, h) = Least(p.done, h) + gain
    BY DEF h, b
  <2>c. Least(q.done, h) \in Int /\ s[b] \in Nat
    BY ONLY <1>2, <2>1, <2>2, gain \in Int
  <2>3. PICK x \in Int, y \in Int, z \in Nat : x = Least(p.done, h) /\ y = Least(q.done, h) /\ z = s[b]
    BY ONLY <2>1, <2>c
  <2>4. pos = z + x /\ y = x + gain
    BY ONLY <1>4, <2>2, <2>3
  <2>5. pos + gain = z + y
    BY ONLY <2>3, <2>4, gain \in Int
  <2> QED BY ONLY <2>3, <2>5
<1>8. q.done <= Whole(q, q.block)
  BY DEF Whole
<1>9. /\ pos + gain = BlockStarts(q.kind, q.blocks)[q.block]
                        + Least(q.done, HeadLength(q.kind) + q.blocks[q.block].data)
      /\ q.out = DescribedUpTo(q.kind, q.blocks)[q.block - 1]
                    \o Part(q.kind, q.blocks, q.block, Through(q))
  BY <1>6, <1>7
<1>10. q.block \in 1 .. Len(q.blocks)
  OBVIOUS
<1> QED BY <1>8, <1>9, <1>10, Zenon DEF Fed

(* The same, of two preparations of which one packs the other's.            *)
LEMMA PackedFed ==
    ASSUME NEW p, NEW q, NEW j, NEW piece, NEW gain, NEW pos, Packs(p, q, j, piece, gain), Fed(p, pos)
    PROVE  Fed(q, pos + gain)
  BY PackedKeeps DEF Packs

(* What of a preparation says how far it is.                                *)
LEMMA FedSame ==
    ASSUME NEW p, NEW q, q.kind = p.kind, q.blocks = p.blocks, q.block = p.block, q.done = p.done,
           q.out = p.out, NEW pos, Fed(p, pos)
    PROVE  Fed(q, pos) /\ (Unfinished(p) => Unfinished(q))
  BY Zenon DEF Fed, Unfinished, Whole, Through

LEMMA FileLengthIsNat ==
    ASSUME NEW p \in Preparations
    PROVE  FileLength(p) \in Nat
<1>1. p.blocks \in Blocks /\ Len(p.blocks) \in Nat /\ p.extra \in Nat
  BY BlockFields DEF Preparations
<1>2. BlockStarts(p.kind, p.blocks) \in [1 .. Len(p.blocks) + 1 -> Nat]
  BY <1>1, StartsAre
<1>3. BodyLength(p.kind, p.blocks) \in Nat
  <2>1. Len(p.blocks) + 1 \in 1 .. Len(p.blocks) + 1
    BY <1>1
  <2> QED BY <1>2, <2>1 DEF BodyLength
<1> QED BY <1>1, <1>3 DEF FileLength

(* The body as it is decrypted.                                             *)
LEMMA BodyIsSeq ==
    ASSUME NEW n \in Nat
    PROVE  [i \in 1 .. n |-> i] \in Seq(Int) /\ Len([i \in 1 .. n |-> i]) = n
<1>1. [i \in 1 .. n |-> i] \in [1 .. n -> Int]
  OBVIOUS
<1> QED BY <1>1, FunctionIsSeq

(* The chunk that starts at off is the next units of the body.              *)
LEMMA ChunkIs ==
    ASSUME NEW p \in Preparations, NEW N \in Nat, p.body = [i \in 1 .. N |-> i], NEW m \in Nat,
           p.off + m <= N
    PROVE  Chunk(p, m) = [i \in 1 .. m |-> p.off + i]
<1>1. p.off \in Nat
  BY DEF Preparations
<1>2. PICK o : o = p.off
  OBVIOUS
<1>3. PICK body : body = p.body
  OBVIOUS
<1>4. \A i \in 1 .. N : body[i] = i
  BY <1>3
<1>5. /\ SubSeq(body, o + 1, o + m) \in Seq(Int)
      /\ Len(SubSeq(body, o + 1, o + m)) = m
      /\ \A i \in 1 .. m : SubSeq(body, o + 1, o + m)[i] = o + i
  <2>1. \A i \in o + 1 .. o + m : i \in 1 .. N /\ body[i] \in Int
    BY <1>1, <1>2, <1>4
  <2>2. /\ SubSeq(body, o + 1, o + m) \in Seq(Int)
        /\ Len(SubSeq(body, o + 1, o + m)) = IF o + 1 <= o + m THEN (o + m) - (o + 1) + 1 ELSE 0
        /\ \A i \in 1 .. (o + m) - (o + 1) + 1 : SubSeq(body, o + 1, o + m)[i] = body[(o + 1) + i - 1]
    <3>1. o + 1 \in Int /\ o + m \in Int
      BY <1>1, <1>2
    <3> QED BY <2>1, <3>1, SubSeqProperties
  <2>3. (o + m) - (o + 1) + 1 = m /\ (o + 1 <= o + m <=> m > 0)
    BY <1>1, <1>2
  <2>4. \A i \in 1 .. m : (o + 1) + i - 1 = o + i /\ o + i \in 1 .. N
    BY <1>1, <1>2
  <2>5. PICK r : r = SubSeq(body, o + 1, o + m)
    OBVIOUS
  <2>6. /\ r \in Seq(Int) /\ Len(r) = (IF o + 1 <= o + m THEN m ELSE 0)
        /\ \A i \in 1 .. m : r[i] = body[(o + 1) + i - 1]
    BY ONLY <2>2, <2>3, <2>5
  <2>7. Len(r) = m
    BY ONLY <2>3, <2>6, m \in Nat
  <2>8. \A i \in 1 .. m : r[i] = o + i
    BY ONLY <2>4, <2>6, <1>4
  <2> QED BY ONLY <2>5, <2>6, <2>7, <2>8
<1>6. SubSeq(body, o + 1, o + m) = [i \in 1 .. m |-> o + i]
  <2>1. SubSeq(body, o + 1, o + m) = [i \in 1 .. m |-> SubSeq(body, o + 1, o + m)[i]]
    BY <1>5, LenProperties
  <2> QED BY <1>5, <2>1
<1> QED BY <1>2, <1>3, <1>6 DEF Chunk

(* One unit of a framed body is taken: a head goes, payload stays.          *)
LEMMA UnitFed ==
    ASSUME NEW p \in Preparations, p.kind = "normal", p.at = "feed", p.block <= Len(p.blocks),
           NEW pos \in Nat, Fed(p, pos), Unfinished(p)
    PROVE  LET q == AcceptUnit(p, pos + 1)
           IN  /\ q \in Preparations /\ Fed(q, pos + 1) /\ Unfinished(q)
               /\ q = [p EXCEPT !.block = q.block, !.done = q.done, !.out = q.out]
<1> DEFINE b == p.block
           r == [p EXCEPT !.done = @ + 1, !.out = IF p.done = 0 THEN @ ELSE Append(@, pos + 1)]
<1>1. p.blocks \in Blocks /\ Len(p.blocks) \in Nat /\ p.done \in Nat /\ p.out \in Seq(Int) /\ p.block \in Nat
  BY BlockFields DEF Preparations
<1>2. b \in 1 .. Len(p.blocks)
  <2>1. b \in 1 .. Len(p.blocks) \/ b = Len(p.blocks) + 1
    BY Zenon DEF Fed
  <2> HIDE DEF b
  <2> QED BY <2>1, <1>1 DEF b
<1>3. /\ p.blocks[b].data \in Nat /\ HeadLength(p.kind) = 1
      /\ Whole(p, b) = p.blocks[b].data + 1 /\ p.done < p.blocks[b].data + 1
  <2>1. p.blocks[b].data \in Nat /\ HeadLength(p.kind) = 1
    BY <1>1, <1>2, BlockFields DEF HeadLength
  <2>2. Whole(p, b) = p.blocks[b].data + 1
    BY <1>2, WholeIsNat
  <2> QED BY <2>1, <2>2, <1>2 DEF Unfinished
<1>4. AcceptUnit(p, pos + 1) = Advanced(r)
  BY <1>1, <1>2 DEF AcceptUnit
<1>5. Append(p.out, pos + 1) \in Seq(Int) /\ Append(p.out, pos + 1) = p.out \o <<pos + 1>>
  <2>1. PICK e \in Int : e = pos + 1
    OBVIOUS
  <2>2. Append(p.out, e) \in Seq(Int) /\ Append(p.out, e) = p.out \o <<e>>
    BY <1>1, <2>1, AppendProperties, AppendIsConcat
  <2> QED BY <2>1, <2>2
<1>6. r \in Preparations
  <2>1. PICK out \in Seq(Int) : out = IF p.done = 0 THEN p.out ELSE Append(p.out, pos + 1)
    BY <1>1, <1>5
  <2>2. r = [p EXCEPT !.done = @ + 1, !.out = out]
    BY <2>1
  <2>3. [p EXCEPT !.done = @ + 1, !.out = out] \in Preparations
    <3>1. p.done + 1 \in Nat
      BY <1>1
    <3> QED BY <2>1, <3>1 DEF Preparations
  <2> QED BY <2>2, <2>3
<1>7. /\ r.kind = p.kind /\ r.blocks = p.blocks /\ r.block = p.block /\ r.done = p.done + 1
      /\ r.out = IF p.done = 0 THEN p.out ELSE p.out \o <<pos + 1>>
  BY <1>5 DEF Preparations
<1>8. r = [p EXCEPT !.done = r.done, !.out = r.out]
  BY DEF Preparations
<1> HIDE DEF r
<1>9. Fed(r, pos + 1)
  <2>a. PICK d, e, l, w : /\ d = p.done /\ e = r.done /\ w = Whole(p, p.block)
                         /\ l = HeadLength(p.kind) + p.blocks[p.block].data
    OBVIOUS
  <2>c. d \in Nat /\ l \in Nat /\ w \in Nat /\ d < w /\ e = d + 1 /\ d < l
    <3>1. PICK x \in Nat : x = p.blocks[b].data
      BY <1>3
    <3>2. d \in Nat /\ e = d + 1
      BY ONLY <1>1, <1>7, <2>a
    <3>3. l = 1 + x /\ w = x + 1 /\ d < x + 1
      BY ONLY <1>3, <2>a, <3>1 DEF b
    <3> QED BY ONLY <3>1, <3>2, <3>3
  <2>1. r.done <= Whole(p, p.block)
    <3>1. e <= w
      BY ONLY <2>c
    <3> QED BY ONLY <3>1, <2>a
  <2>2. Least(r.done, HeadLength(p.kind) + p.blocks[p.block].data)
          = Least(p.done, HeadLength(p.kind) + p.blocks[p.block].data) + 1
    <3>1. Least(e, l) = Least(d, l) + 1
      BY ONLY <2>c DEF Least
    <3> QED BY ONLY <3>1, <2>a
  <2>0. /\ p.kind \in {"basic", "normal"} /\ p.block \in 1 .. Len(p.blocks)
        /\ r.kind = p.kind /\ r.blocks = p.blocks /\ r.block = p.block /\ r.done = p.done + 1
    BY <1>2, <1>7
  <2>b. p \in Preparations /\ Fed(p, pos) /\ 1 \in Int /\ 0 \in Nat /\ 1 \in Nat
    OBVIOUS
  <2>3. CASE p.done = 0
    <3>1. Through(p) = 0 /\ Through(r) = 0 /\ Through(r) = Through(p) + 0
      BY <1>7, <2>3 DEF Through
    <3>2. r.out = p.out \o <<>>
      BY <1>1, <1>7, <2>3, ConcatEmptySeq
    <3>3. <<>> = [i \in 1 .. 0 |-> Part(p.kind, p.blocks, p.block, Through(p) + 0)[Through(p) + i]]
      OBVIOUS
    <3>4. Packs(p, r, 0, <<>>, 1)
      BY ONLY <3>1, <3>2, <3>3, <2>0, <2>b, <2>1, <2>2, <1>6 DEF Packs
    <3> QED BY ONLY <3>4, <2>b, PackedFed
  <2>4. CASE p.done # 0
    <3>1. Through(p) = p.done - 1 /\ Through(r) = p.done /\ Through(p) \in Nat /\ Through(r) = Through(p) + 1
      <4>1. p.kind # "basic" /\ r.kind # "basic"
        BY <2>0
      <4>2. r.done # 0 /\ r.done - 1 = p.done
        <5>1. p.done \in Nat /\ r.done = p.done + 1
          BY <2>0, <1>1
        <5> QED BY ONLY <5>1
      <4> QED BY <4>1, <4>2, <1>1, <2>4 DEF Through
    <3>2. pos = BlockStarts(p.kind, p.blocks)[b] + p.done
      <4>1. pos = BlockStarts(p.kind, p.blocks)[b] + Least(p.done, HeadLength(p.kind) + p.blocks[b].data)
        <5>1. p.block # Len(p.blocks) + 1
          BY <1>1, <1>2
        <5> QED BY <5>1, Zenon DEF Fed
      <4>2. Least(p.done, HeadLength(p.kind) + p.blocks[b].data) = p.done
        BY <1>1, <1>3 DEF Least
      <4> QED BY <4>1, <4>2
    <3>3. Part(p.kind, p.blocks, b, p.done)[p.done] = pos + 1
      <4>1. p.done \in 1 .. p.done /\ p.done <= p.blocks[b].data
        BY <1>1, <1>3, <2>4
      <4>2. Part(p.kind, p.blocks, b, p.done)[p.done]
              = BlockStarts(p.kind, p.blocks)[b] + HeadLength(p.kind) + p.done
        BY <4>1 DEF Part
      <4>3. BlockStarts(p.kind, p.blocks)[b] \in Nat
        <5>1. b \in 1 .. Len(p.blocks) + 1
          BY <1>1, <1>2
        <5> QED BY <5>1, <1>1, StartsAre
      <4> HIDE DEF b
      <4> QED BY <3>2, <4>2, <4>3, <1>1, <1>3
    <3>4. <<pos + 1>> = [i \in 1 .. 1 |-> Part(p.kind, p.blocks, b, Through(p) + 1)[Through(p) + i]]
      <4>1. Through(p) + 1 = p.done
        BY <1>1, <3>1
      <4>2. \A i \in 1 .. 1 : Part(p.kind, p.blocks, b, Through(p) + 1)[Through(p) + i] = pos + 1
        BY <3>3, <4>1
      <4> QED BY <4>2
    <3>5. r.out = p.out \o <<pos + 1>>
      BY <1>7, <2>4
    <3>6. Packs(p, r, 1, <<pos + 1>>, 1)
      BY ONLY <3>1, <3>4, <3>5, <2>0, <2>b, <2>1, <2>2, <1>6 DEF Packs
    <3> QED BY ONLY <3>6, <2>b, PackedFed
  <2> QED BY <2>3, <2>4
<1>10. /\ Fed(Advanced(r), pos + 1) /\ Unfinished(Advanced(r)) /\ Advanced(r) \in Preparations
       /\ Advanced(r) = [r EXCEPT !.block = Advanced(r).block, !.done = Advanced(r).done]
  BY <1>6, <1>7, <1>9, AdvancedFed
<1>11. PICK q : q = Advanced(r)
  OBVIOUS
<1>12. q = [p EXCEPT !.block = q.block, !.done = q.done, !.out = q.out]
  <2>1. q = [r EXCEPT !.block = q.block, !.done = q.done]
    BY <1>10, <1>11
  <2>2. q.out = r.out
    BY <2>1, <1>6 DEF Preparations
  <2> QED BY <2>1, <2>2, <1>8 DEF Preparations
<1> QED BY <1>4, <1>10, <1>11, <1>12

(* What is accepted is reached from p unit by unit.                         *)
LEMMA AcceptedSteps ==
    ASSUME NEW p, NEW units \in Seq(Int)
    PROVE  \E after : /\ after[0] = p /\ after[Len(units)] = Accepted(p, units)
                      /\ \A k \in 1 .. Len(units) : after[k] = AcceptUnit(after[k - 1], units[k])
<1> DEFINE Good(m, g) == g = [k \in 0 .. m |-> IF k = 0 THEN p ELSE AcceptUnit(g[k - 1], units[k])]
           S == {m \in 0 .. Len(units) : ~\E g : Good(m, g)}
<1>1. Len(units) \in Nat
  BY LenProperties
<1>2. ASSUME S # {} PROVE FALSE
  <2>1. PICK m \in S : \A y \in S : m <= y
    <3>1. S \in SUBSET Nat
      BY <1>1
    <3> HIDE DEF S
    <3> QED BY <1>2, <3>1, LeastExists
  <2>2. m # 0
    <3>1. Good(0, [k \in 0 .. 0 |-> p])
      OBVIOUS
    <3> QED BY <3>1, <2>1
  <2>3. m - 1 \in 0 .. Len(units) /\ m - 1 \notin S /\ m \in 0 .. Len(units)
    <3>1. m \in 0 .. Len(units)
      BY <2>1
    <3>2. m - 1 \in 0 .. Len(units) /\ ~(m <= m - 1)
      BY <3>1, <2>2, <1>1
    <3> HIDE DEF S
    <3> QED BY <3>1, <3>2, <2>1
  <2>4. PICK f : Good(m - 1, f)
    BY <2>3
  <2> DEFINE g == [k \in 0 .. m |-> IF k = m THEN AcceptUnit(f[m - 1], units[m]) ELSE f[k]]
  <2>5. \A n \in 0 .. m : g[n] = IF n = 0 THEN p ELSE AcceptUnit(g[n - 1], units[n])
    <3> TAKE n \in 0 .. m
    <3>0. n # m => n \in 0 .. m - 1 /\ (n # 0 => n - 1 \in 0 .. m - 1)
      BY <2>3
    <3>1. CASE n = m
      <4>1. m - 1 \in 0 .. m /\ m - 1 # m
        BY <2>2, <2>3
      <4>2. g[m - 1] = f[m - 1]
        BY <4>1
      <4>3. g[m] = AcceptUnit(f[m - 1], units[m])
        BY <3>1
      <4> HIDE DEF g
      <4> QED BY <3>1, <2>2, <4>2, <4>3
    <3>2. CASE n # m
      <4>1. g[n] = f[n]
        BY <3>2
      <4>2. f[n] = IF n = 0 THEN p ELSE AcceptUnit(f[n - 1], units[n])
        BY <3>0, <3>2, <2>4, Zenon
      <4>3. n # 0 => g[n - 1] = f[n - 1]
        BY <3>0, <3>2, <2>3
      <4> HIDE DEF g
      <4> QED BY <4>1, <4>2, <4>3
    <3> QED BY <3>1, <3>2
  <2>6. Good(m, g)
    BY <2>5
  <2> QED BY <2>1, <2>6
<1>3. Len(units) \in 0 .. Len(units)
  BY <1>1
<1>4. \E g : Good(Len(units), g)
  <2> HIDE DEF Good
  <2> QED BY <1>2, <1>3
<1> DEFINE N == Len(units)
           after == CHOOSE g : Good(N, g)
<1>5. Accepted(p, units) = after[N]
  BY DEF Accepted
<1>6. Good(N, after)
  <2> HIDE DEF Good
  <2> QED BY <1>4, Zenon
<1> HIDE DEF after
<1>7. \A k \in 0 .. N : after[k] = IF k = 0 THEN p ELSE AcceptUnit(after[k - 1], units[k])
  BY <1>6, Zenon
<1>8. 0 \in 0 .. N /\ \A k \in 1 .. N : k \in 0 .. N /\ k # 0
  BY <1>1
<1>9. after[0] = p /\ \A k \in 1 .. N : after[k] = AcceptUnit(after[k - 1], units[k])
  <2> HIDE DEF N
  <2> QED BY <1>7, <1>8
<1> WITNESS after
<1> QED BY <1>5, <1>9

LEMMA FailedPreparation ==
    ASSUME NEW p \in Preparations
    PROVE  [p EXCEPT !.at = "failed"] \in Preparations /\ [p EXCEPT !.at = "failed"].at = "failed"
  BY DEF Preparations, PrepStages

(* A chunk of a framed body, however long, is packed unit by unit.          *)
LEMMA AcceptedFed ==
    ASSUME NEW p \in Preparations, p.kind = "normal", p.at = "feed",
           NEW n \in Nat, NEW units, units = [i \in 1 .. n |-> p.off + i], Fed(p, p.off), Unfinished(p)
    PROVE  LET q == Accepted(p, units)
           IN  /\ q \in Preparations
               /\ q.at # "failed" =>
                    /\ Fed(q, p.off + n) /\ Unfinished(q)
                    /\ q = [p EXCEPT !.block = q.block, !.done = q.done, !.out = q.out]
<1> DEFINE Good(q, k) == /\ q \in Preparations
                         /\ q.at # "failed" =>
                              /\ Fed(q, p.off + k) /\ Unfinished(q)
                              /\ q = [p EXCEPT !.block = q.block, !.done = q.done, !.out = q.out]
<1>1. p.off \in Nat /\ Len(units) = n /\ units \in Seq(Int) /\ \A k \in 1 .. n : units[k] = p.off + k
  <2>1. p.off \in Nat
    BY DEF Preparations
  <2>2. units \in [1 .. n -> Int]
    BY <2>1
  <2> QED BY <2>1, <2>2, FunctionIsSeq
<1>2. PICK after : /\ after[0] = p /\ after[Len(units)] = Accepted(p, units)
                   /\ \A k \in 1 .. Len(units) : after[k] = AcceptUnit(after[k - 1], units[k])
  <2>1. units \in Seq(Int)
    BY <1>1
  <2> QED BY ONLY <2>1, AcceptedSteps
<1> DEFINE S == {k \in 0 .. n : ~Good(after[k], k)}
<1>4. after[0] = p /\ after[n] = Accepted(p, units) /\ \A k \in 1 .. n : after[k] = AcceptUnit(after[k - 1], units[k])
  BY <1>1, <1>2
<1>5. Good(p, 0)
  <2>1. p = [p EXCEPT !.block = p.block, !.done = p.done, !.out = p.out]
    BY DEF Preparations
  <2>2. p.off + 0 = p.off
    BY <1>1
  <2> QED BY <2>1, <2>2
<1>6. ASSUME NEW k \in 1 .. n, Good(after[k - 1], k - 1) PROVE Good(after[k], k)
  <2>1. PICK r : r = after[k - 1]
    OBVIOUS
  <2>2. Good(r, k - 1)
    BY <1>6, <2>1
  <2> HIDE DEF Good
  <2>3. PICK pos \in Nat : pos = p.off + (k - 1)
    BY <1>1
  <2>4. pos + 1 = p.off + k
    BY <1>1, <2>3
  <2>5. after[k] = AcceptUnit(r, pos + 1)
    BY <1>1, <1>4, <2>1, <2>4
  <2>6. r \in Preparations
    BY <2>2 DEF Good
  <2>7. CASE r.at # "feed" \/ r.block > Len(r.blocks)
    <3>1. after[k] = [r EXCEPT !.at = "failed"]
      BY <2>5, <2>7 DEF AcceptUnit
    <3>2. [r EXCEPT !.at = "failed"] \in Preparations /\ [r EXCEPT !.at = "failed"].at = "failed"
      BY <2>6, FailedPreparation
    <3> QED BY <3>1, <3>2 DEF Good
  <2>8. CASE r.at = "feed" /\ ~(r.block > Len(r.blocks))
    <3>1. r.at # "failed"
      BY <2>8
    <3>2. Fed(r, pos) /\ Unfinished(r) /\ r = [p EXCEPT !.block = r.block, !.done = r.done, !.out = r.out]
      BY <2>2, <2>3, <3>1 DEF Good
    <3>3. r.kind = "normal" /\ r.block <= Len(r.blocks)
      <4>1. r.kind = "normal"
        BY <3>2 DEF Preparations
      <4>2. r.block \in Nat /\ Len(r.blocks) \in Nat
        BY <2>6, BlockFields DEF Preparations
      <4> QED BY <4>1, <4>2, <2>8
    <3>4. PICK q : q = AcceptUnit(r, pos + 1)
      OBVIOUS
    <3>5. /\ q \in Preparations /\ Fed(q, pos + 1) /\ Unfinished(q)
          /\ q = [r EXCEPT !.block = q.block, !.done = q.done, !.out = q.out]
      <4>1. r \in Preparations /\ r.kind = "normal" /\ r.at = "feed" /\ r.block <= Len(r.blocks)
            /\ pos \in Nat /\ Fed(r, pos) /\ Unfinished(r)
        BY <2>6, <2>8, <3>2, <3>3
      <4> QED BY ONLY <4>1, <3>4, UnitFed
    <3>6. q = [p EXCEPT !.block = q.block, !.done = q.done, !.out = q.out]
      BY <3>2, <3>5 DEF Preparations
    <3> QED BY <2>4, <2>5, <3>4, <3>5, <3>6 DEF Good
  <2> QED BY <2>7, <2>8
<1> HIDE DEF Good
<1>7. ASSUME S # {} PROVE FALSE
  <2>1. PICK k \in S : \A j \in S : k <= j
    <3>1. S \in SUBSET Nat
      OBVIOUS
    <3> HIDE DEF S
    <3> QED BY <1>7, <3>1, LeastExists
  <2>2. k # 0 /\ k \in 0 .. n
    BY <2>1, <1>4, <1>5
  <2>3. k \in 1 .. n /\ k - 1 \in 0 .. n /\ ~(k <= k - 1)
    BY <2>2
  <2>4. k - 1 \notin S
    <3> HIDE DEF S
    <3> QED BY <2>1, <2>3
  <2> QED BY <2>1, <2>3, <2>4, <1>6
<1>8. Good(after[n], n)
  <2>1. n \in 0 .. n
    OBVIOUS
  <2> QED BY <2>1, <1>7
<1>9. PICK q : q = after[n]
  OBVIOUS
<1>10. Good(q, n)
  BY <1>8, <1>9
<1>11. /\ q \in Preparations
       /\ q.at # "failed" =>
            /\ Fed(q, p.off + n) /\ Unfinished(q)
            /\ q = [p EXCEPT !.block = q.block, !.done = q.done, !.out = q.out]
  BY <1>10 DEF Good
<1> QED BY <1>4, <1>9, <1>11

(* a is p with n more units packed, or a failure.                            *)
PackedOn(p, n, a) ==
    /\ a \in Preparations
    /\ a.at # "failed" =>
         /\ Fed(a, p.off + n) /\ Unfinished(a)
         /\ a = [p EXCEPT !.block = a.block, !.done = a.done, !.out = a.out]

(* The same, of the chunk that follows what is packed.                      *)
LEMMA ChunkAccepted ==
    ASSUME NEW p, NEW n, NEW units, p \in Preparations, p.kind = "normal", p.at = "feed", n \in Nat,
           units = [i \in 1 .. n |-> p.off + i], Fed(p, p.off), Unfinished(p)
    PROVE  PackedOn(p, n, Accepted(p, units))
  BY AcceptedFed DEF PackedOn

(* Where a preparation is: how much is decrypted, and from then on what has *)
(* been packed of how much of the body.                                     *)
Untouched(p) == p.block = 1 /\ p.done = 0 /\ p.out = <<>>

Deciphering(p) ==
    /\ FileLength(p) % 2 = 0 /\ p.chain = p.off /\ p.off <= FileLength(p)
    /\ p.body = [i \in 1 .. p.off |-> i]

Feeding(p) ==
    /\ p.body = [i \in 1 .. FileLength(p) |-> i] /\ p.off <= FileLength(p)
    /\ p.kind = "none" => p.out = [i \in 1 .. p.off |-> i] /\ (p.at = "done" => p.off = FileLength(p))
    /\ p.kind # "none" => Fed(p, p.off) /\ Unfinished(p) /\ (p.at = "done" => p.block > Len(p.blocks))
    /\ p.kind = "basic" /\ p.at = "feed" => p.block <= Len(p.blocks)

PrepIn(p) ==
    p.at # "failed" =>
      /\ p \in Preparations
      /\ p.at = "idle" => Untouched(p) /\ p.off = 0 /\ p.chain = 0
      /\ p.at = "decrypt" => Untouched(p) /\ Deciphering(p)
      /\ p.at = "begin" => Untouched(p) /\ p.off = 0 /\ p.body = [i \in 1 .. FileLength(p) |-> i]
      /\ p.at \in {"feed", "done"} => Feeding(p)

PrepInv == PrepIn(prep)

LEMMA PrepInitially == PrepInit => PrepInv
<1> SUFFICES ASSUME PrepInit PROVE PrepInv
  OBVIOUS
<1>1. <<>> \in Blocks /\ <<>> \in Seq(Int)
  BY EmptySeq DEF Blocks
<1>2. prep \in Preparations
  BY <1>1 DEF PrepInit, Preparations, PrepStages, Kinds
<1> QED BY <1>2 DEF PrepInit, PrepInv, PrepIn, Untouched

(* FileLength does not depend on how far the preparation is.                *)
LEMMA SameFile ==
    ASSUME NEW p, NEW q, q.kind = p.kind, q.blocks = p.blocks, q.extra = p.extra
    PROVE  FileLength(q) = FileLength(p)
  BY Zenon DEF FileLength

LEMMA DecodeHeaderKeeps ==
    ASSUME PrepInv, NEW kind \in Kinds, NEW encrypted \in BOOLEAN, NEW blocks \in ImageBlocks,
           NEW extra \in {0, 1}, DecodeHeader(kind, encrypted, blocks, extra)
    PROVE  PrepInv'
<1> DEFINE p == [prep EXCEPT !.kind = kind, !.encrypted = encrypted, !.blocks = blocks, !.extra = extra,
                             !.header = IF encrypted THEN "encrypted" ELSE "plain"]
           n == FileLength(p)
           at == IF ~encrypted THEN "begin" ELSE IF n = 0 \/ n % 2 = 1 THEN "failed" ELSE "decrypt"
           body == IF encrypted THEN <<>> ELSE [i \in 1 .. n |-> i]
<1>1. prep.at = "idle" /\ prep \in Preparations /\ Untouched(prep) /\ prep.off = 0 /\ prep.chain = 0
  BY DEF PrepInv, PrepIn, DecodeHeader
<1>2. blocks \in Blocks
  BY ImageAssumption DEF Blocks
<1>3. p \in Preparations
  BY <1>1, <1>2 DEF Preparations, PrepStages, Kinds
<1>4. /\ p.block = 1 /\ p.done = 0 /\ p.out = <<>> /\ p.off = 0 /\ p.chain = 0
      /\ p.kind = kind /\ p.blocks = blocks /\ p.extra = extra
  BY <1>1 DEF Preparations, Untouched
<1>5. prep' = [p EXCEPT !.at = at, !.body = body]
  BY DEF DecodeHeader
<1>6. n \in Nat
  BY <1>3, FileLengthIsNat
<1>7. body \in Seq(Int) /\ at \in PrepStages
  <2>1. <<>> \in Seq(Int) /\ [i \in 1 .. n |-> i] \in Seq(Int)
    BY <1>6, BodyIsSeq, EmptySeq
  <2> HIDE DEF n
  <2> QED BY <2>1 DEF PrepStages
<1> HIDE DEF p
<1> DEFINE q == [p EXCEPT !.at = at, !.body = body]
<1>8. q \in Preparations
  <2> HIDE DEF at, body
  <2> QED BY <1>3, <1>7 DEF Preparations
<1>9. /\ q.at = at /\ q.body = body /\ q.block = 1 /\ q.done = 0 /\ q.out = <<>> /\ q.off = 0 /\ q.chain = 0
      /\ q.kind = p.kind /\ q.blocks = p.blocks /\ q.extra = p.extra
  <2> HIDE DEF at, body
  <2> QED BY <1>3, <1>4 DEF Preparations
<1> HIDE DEF q
<1>10. FileLength(q) = n
  BY <1>9, SameFile
<1> HIDE DEF n
<1>11. CASE ~encrypted
  <2>1. at = "begin" /\ body = [i \in 1 .. n |-> i]
    BY <1>11
  <2> QED BY <2>1, <1>5, <1>8, <1>9, <1>10 DEF PrepInv, PrepIn, Untouched, q
<1>12. CASE encrypted
  <2>1. body = <<>> /\ (at = "failed" \/ (at = "decrypt" /\ n % 2 = 0))
    BY <1>6, <1>12
  <2>2. <<>> = [i \in 1 .. 0 |-> i]
    OBVIOUS
  <2>3. at = "decrypt" => Deciphering(q)
    BY <2>1, <2>2, <1>6, <1>9, <1>10 DEF Deciphering
  <2> HIDE DEF at, body
  <2>4. q.at = "failed" \/ q.at = "decrypt"
    BY <2>1, <1>9
  <2> QED BY <2>3, <2>4, <1>5, <1>8, <1>9 DEF PrepInv, PrepIn, Untouched, q
<1> QED BY <1>11, <1>12

(* A chunk of the cipher text goes on where the chain stands.               *)
LEMMA DecryptedIs ==
    ASSUME NEW p \in Preparations, NEW n \in Nat, p.chain = p.off, n % 2 = 0
    PROVE  Decrypted(p, n) = [i \in 1 .. n |-> p.off + i]
  BY DEF Decrypted

LEMMA DecryptChunkKeeps ==
    ASSUME PrepInv, DecryptChunk
    PROVE  PrepInv'
<1> DEFINE n == CipherChunk(prep)
           p == [prep EXCEPT !.off = @ + n, !.chain = prep.off + n, !.body = @ \o Decrypted(prep, n)]
           N == FileLength(prep)
           q == [p EXCEPT !.at = "begin", !.off = 0, !.header = "plain"]
<1>1. prep.at = "decrypt" /\ prep \in Preparations /\ Untouched(prep) /\ Deciphering(prep)
  BY DEF PrepInv, PrepIn, DecryptChunk
<1>2. prep' = IF n = 0 THEN [prep EXCEPT !.at = "failed"] ELSE IF p.off < FileLength(p) THEN p ELSE q
  BY DEF DecryptChunk
<1>3. N \in Nat /\ prep.off \in Nat /\ prep.off <= N /\ N % 2 = 0 /\ prep.chain = prep.off
      /\ prep.body = [i \in 1 .. prep.off |-> i]
  BY <1>1, FileLengthIsNat DEF Deciphering, Preparations
<1>4. n \in Nat /\ n % 2 = 0 /\ prep.off + n <= N
  <2>1. PICK left \in Nat : left = N - prep.off
    BY <1>3
  <2>2. PICK l \in Nat : l = Least(CryptoUnits, left) /\ l <= left
    BY ImageAssumption DEF Least
  <2>3. n = l - (l % 2)
    BY <2>1, <2>2 DEF CipherChunk
  <2>4. l % 2 \in 0 .. 1 /\ l % 2 <= l /\ (l - (l % 2)) % 2 = 0
    OBVIOUS
  <2>5. l - (l % 2) \in Nat /\ l - (l % 2) <= left
    BY <2>2, <2>4
  <2> HIDE DEF n, N
  <2>6. n \in Nat /\ n % 2 = 0 /\ n <= left
    BY <2>3, <2>4, <2>5
  <2> QED BY <2>1, <2>6, <1>3
<1>5. prep.body \o Decrypted(prep, n) = [i \in 1 .. prep.off + n |-> i]
  <2>1. PICK o \in Nat, m \in Nat : o = prep.off /\ m = n
    BY <1>3, <1>4
  <2>2. Decrypted(prep, n) = [i \in 1 .. m |-> o + i]
    BY <1>1, <1>3, <1>4, <2>1, DecryptedIs
  <2>3. PICK f : f = [i \in 1 .. o + m |-> i]
    OBVIOUS
  <2>a. f \in [1 .. o + m -> Int] /\ o \in Nat /\ m \in Nat
    BY <2>3
  <2>4. PICK a, b : a = [i \in 1 .. o |-> f[i]] /\ b = [i \in 1 .. m |-> f[o + i]]
    OBVIOUS
  <2>5. a = [i \in 1 .. o |-> i] /\ b = [i \in 1 .. m |-> o + i]
    BY <2>3, <2>4
  <2>6. a \o b = f
    BY ONLY <2>a, <2>4, CutMeets
  <2> QED BY <2>1, <2>2, <2>3, <2>5, <2>6, <1>3
<1> HIDE DEF n
<1>6. p \in Preparations
  <2>1. prep.off + n \in Nat /\ [i \in 1 .. prep.off + n |-> i] \in Seq(Int)
    BY <1>3, <1>4, BodyIsSeq
  <2>2. PICK body \in Seq(Int) : body = prep.body \o Decrypted(prep, n)
    BY <2>1, <1>5
  <2>3. p = [prep EXCEPT !.off = @ + n, !.chain = prep.off + n, !.body = body]
    BY <2>2
  <2>4. [prep EXCEPT !.off = @ + n, !.chain = prep.off + n, !.body = body] \in Preparations
    BY <2>1, <1>1 DEF Preparations
  <2> QED BY <2>3, <2>4
<1>7. /\ p.at = "decrypt" /\ p.block = 1 /\ p.done = 0 /\ p.out = <<>> /\ p.off = prep.off + n
      /\ p.chain = prep.off + n /\ p.kind = prep.kind /\ p.blocks = prep.blocks /\ p.extra = prep.extra
      /\ p.body = [i \in 1 .. prep.off + n |-> i]
  BY <1>1, <1>5 DEF Preparations, Untouched
<1> HIDE DEF p
<1>8. FileLength(p) = N
  BY <1>7, SameFile
<1>9. CASE n = 0
  <2>1. prep'.at = "failed"
    BY <1>1, <1>2, <1>9, FailedPreparation
  <2> QED BY <2>1 DEF PrepInv, PrepIn
<1>10. CASE n # 0 /\ p.off < FileLength(p)
  <2>1. prep' = p
    BY <1>2, <1>10
  <2>2. Untouched(p) /\ Deciphering(p)
    BY <1>3, <1>4, <1>7, <1>8 DEF Untouched, Deciphering
  <2>3. PrepIn(p)
    BY <2>2, <1>6, <1>7 DEF PrepIn
  <2> QED BY <2>1, <2>3 DEF PrepInv
<1>11. CASE n # 0 /\ ~(p.off < FileLength(p))
  <2>1. prep' = q
    BY <1>2, <1>11
  <2>2. q \in Preparations
    BY <1>6 DEF Preparations, PrepStages
  <2>3. /\ q.at = "begin" /\ q.block = p.block /\ q.done = p.done /\ q.out = p.out /\ q.off = 0
        /\ q.kind = p.kind /\ q.blocks = p.blocks /\ q.extra = p.extra /\ q.body = p.body
    BY <1>6 DEF Preparations
  <2> HIDE DEF q
  <2>4. FileLength(q) = N
    BY <2>3, <1>8, SameFile
  <2>5. prep.off + n = N
    BY <1>3, <1>4, <1>7, <1>8, <1>11
  <2>6. PrepIn(q)
    BY <2>2, <2>3, <2>4, <2>5, <1>7 DEF PrepIn, Untouched
  <2> QED BY <2>1, <2>6 DEF PrepInv
<1> QED BY <1>9, <1>10, <1>11

LEMMA DecryptWholeKeeps ==
    ASSUME PrepInv, DecryptWhole
    PROVE  PrepInv'
<1> DEFINE n == FileLength(prep)
           q == [prep EXCEPT !.at = "begin", !.header = "plain", !.chain = n, !.body = Decrypted(prep, n)]
<1>1. /\ prep.at = "decrypt" /\ prep \in Preparations /\ Untouched(prep) /\ Deciphering(prep)
      /\ prep.off = 0
  BY DEF PrepInv, PrepIn, DecryptWhole
<1>2. prep' = IF n > CryptoUnits THEN [prep EXCEPT !.at = "failed"] ELSE q
  BY DEF DecryptWhole
<1>3. n \in Nat /\ n % 2 = 0 /\ prep.chain = prep.off
  BY <1>1, FileLengthIsNat DEF Deciphering
<1>4. Decrypted(prep, n) = [i \in 1 .. n |-> i] /\ Decrypted(prep, n) \in Seq(Int)
  <2>1. Decrypted(prep, n) = [i \in 1 .. n |-> prep.off + i]
    BY <1>1, <1>3, DecryptedIs
  <2> HIDE DEF n
  <2>2. Decrypted(prep, n) = [i \in 1 .. n |-> i]
    BY <2>1, <1>1, <1>3
  <2> QED BY <2>2, <1>3, BodyIsSeq
<1>5. CASE n > CryptoUnits
  <2>1. prep'.at = "failed"
    BY <1>1, <1>2, <1>5, FailedPreparation
  <2> QED BY <2>1 DEF PrepInv, PrepIn
<1>6. CASE ~(n > CryptoUnits)
  <2>1. prep' = q
    BY <1>2, <1>6
  <2>2. q \in Preparations
    <3>1. PICK body \in Seq(Int) : body = Decrypted(prep, n)
      BY <1>4
    <3>2. [prep EXCEPT !.at = "begin", !.header = "plain", !.chain = n, !.body = body] \in Preparations
      <4> HIDE DEF n
      <4> QED BY <1>1, <1>3 DEF Preparations, PrepStages
    <3> QED BY <3>1, <3>2
  <2>3. /\ q.at = "begin" /\ q.block = 1 /\ q.done = 0 /\ q.out = <<>> /\ q.off = 0
        /\ q.kind = prep.kind /\ q.blocks = prep.blocks /\ q.extra = prep.extra
        /\ q.body = [i \in 1 .. n |-> i]
    <3> HIDE DEF n
    <3> QED BY <1>1, <1>4 DEF Preparations, Untouched
  <2> HIDE DEF q
  <2>4. FileLength(q) = n
    BY <2>3, SameFile
  <2> HIDE DEF n
  <2>5. PrepIn(q)
    BY <2>2, <2>3, <2>4 DEF PrepIn, Untouched
  <2> QED BY <2>1, <2>5 DEF PrepInv
<1> QED BY <1>5, <1>6

(* What a step of the feeding leaves alone.                                 *)
LEMMA SameFeeding ==
    ASSUME NEW p, NEW q, q.kind = p.kind, q.blocks = p.blocks, q.extra = p.extra, q.off = p.off,
           q.body = p.body, q.block = p.block, q.done = p.done, q.out = p.out,
           p.kind # "none", q.at = "done" => p.block > Len(p.blocks),
           p.kind = "basic" /\ q.at = "feed" => p.block <= Len(p.blocks),
           p.body = [i \in 1 .. FileLength(p) |-> i], p.off <= FileLength(p),
           Fed(p, p.off), Unfinished(p)
    PROVE  Feeding(q)
<1>1. FileLength(q) = FileLength(p)
  BY SameFile
<1>2. Fed(q, q.off) /\ Unfinished(q)
  <2>1. Fed(q, p.off) /\ Unfinished(q)
    BY FedSame, Zenon
  <2> QED BY <2>1
<1> QED BY <1>1, <1>2 DEF Feeding

(* The first block stands ready.                                            *)
LEMMA FirstIsFed ==
    ASSUME NEW p \in Preparations, p.kind \in {"basic", "normal"}, Untouched(p)
    PROVE  Fed(p, 0)
<1>1. p.blocks \in Blocks /\ Len(p.blocks) \in Nat
  BY BlockFields DEF Preparations
<1>2. p.block = 1 /\ p.done = 0 /\ p.out = <<>>
  BY DEF Untouched
<1>3. BlockStarts(p.kind, p.blocks)[1] = 0 /\ DescribedUpTo(p.kind, p.blocks)[0] = <<>>
  BY <1>1, StartsAre, ImageGoesOn
<1>4. CASE Len(p.blocks) = 0
  <2>1. p.block = Len(p.blocks) + 1 /\ p.block - 1 = 0
    BY <1>2, <1>4
  <2> QED BY <2>1, <1>2, <1>3 DEF Fed
<1>5. CASE Len(p.blocks) # 0
  <2>1. p.block \in 1 .. Len(p.blocks) /\ p.block - 1 = 0
    BY <1>1, <1>2, <1>5
  <2>2. p.blocks[1].data \in Nat /\ HeadLength(p.kind) \in Nat
    BY <1>1, <1>2, <2>1, BlockFields DEF HeadLength
  <2>3. Least(p.done, HeadLength(p.kind) + p.blocks[p.block].data) = 0
    BY <1>2, <2>2 DEF Least
  <2>4. p.done <= Whole(p, p.block)
    BY <1>2, <2>1, WholeIsNat
  <2>5. Through(p) = 0
    BY <1>2 DEF Through
  <2>6. <<>> \o Part(p.kind, p.blocks, p.block, 0) = <<>>
    <3>1. <<>> \o <<>> = <<>>
      OBVIOUS
    <3> QED BY <3>1, NoPart
  <2>7. /\ 0 = BlockStarts(p.kind, p.blocks)[p.block] + Least(p.done, HeadLength(p.kind) + p.blocks[p.block].data)
        /\ p.out = DescribedUpTo(p.kind, p.blocks)[p.block - 1] \o Part(p.kind, p.blocks, p.block, Through(p))
    <3>1. BlockStarts(p.kind, p.blocks)[p.block] = 0 /\ DescribedUpTo(p.kind, p.blocks)[p.block - 1] = <<>>
      BY <1>2, <1>3, <2>1
    <3>2. 0 = BlockStarts(p.kind, p.blocks)[p.block] + Least(p.done, HeadLength(p.kind) + p.blocks[p.block].data)
      BY <2>3, <3>1
    <3> QED BY <1>2, <2>5, <2>6, <3>1, <3>2
  <2> QED BY <2>1, <2>4, <2>7, Zenon DEF Fed
<1> QED BY <1>4, <1>5

LEMMA BeginPreparationKeeps ==
    ASSUME PrepInv, BeginPreparation
    PROVE  PrepInv'
<1> DEFINE p == IF prep.kind = "none" THEN prep ELSE Advanced(prep)
           refused == \/ p.header = "encrypted" \/ p.body = <<>>
                      \/ p.kind = "basic" /\ (p.extra > 0 \/ p.block > Len(p.blocks))
           at == IF refused THEN "failed" ELSE "feed"
           q == [p EXCEPT !.at = at]
           N == FileLength(prep)
<1>1. /\ prep.at = "begin" /\ prep \in Preparations /\ Untouched(prep) /\ prep.off = 0
      /\ prep.body = [i \in 1 .. N |-> i] /\ N \in Nat
  BY FileLengthIsNat DEF PrepInv, PrepIn, BeginPreparation
<1>2. prep' = q
  BY DEF BeginPreparation
<1>3. CASE refused
  <2>1. at = "failed"
    BY <1>3
  <2>2. p \in Preparations
    <3>1. CASE prep.kind = "none"
      BY <1>1, <3>1
    <3>2. CASE prep.kind # "none"
      <4>1. prep.kind \in {"basic", "normal"}
        BY <1>1, <3>2 DEF Preparations, Kinds
      <4>2. Fed(prep, 0)
        BY <1>1, <4>1, FirstIsFed
      <4>3. Advanced(prep) \in Preparations
        BY <1>1, <4>1, <4>2, AdvancedFed
      <4> QED BY <3>2, <4>3
    <3> QED BY <3>1, <3>2
  <2> HIDE DEF p
  <2>3. q.at = "failed"
    BY <2>1, <2>2, FailedPreparation
  <2> QED BY <2>3, <1>2 DEF PrepInv, PrepIn
<1>4. CASE ~refused /\ prep.kind = "none"
  <2>1. q = [prep EXCEPT !.at = "feed"]
    BY <1>4
  <2>2. /\ q \in Preparations /\ q.at = "feed" /\ q.kind = "none" /\ q.off = 0 /\ q.out = <<>>
        /\ q.body = prep.body /\ q.blocks = prep.blocks /\ q.extra = prep.extra
    <3> HIDE DEF q
    <3>1. q \in Preparations
      BY <1>1, <2>1 DEF Preparations, PrepStages
    <3> QED BY <3>1, <1>1, <1>4, <2>1 DEF Preparations, Untouched
  <2> HIDE DEF q
  <2>3. FileLength(q) = N
    BY <2>2, <1>4, SameFile
  <2>4. <<>> = [i \in 1 .. 0 |-> i]
    OBVIOUS
  <2>5. Feeding(q)
    BY <2>2, <2>3, <2>4, <1>1 DEF Feeding
  <2> QED BY <2>2, <2>5, <1>2 DEF PrepInv, PrepIn
<1>5. CASE ~refused /\ prep.kind # "none"
  <2>1. prep.kind \in {"basic", "normal"}
    BY <1>1, <1>5 DEF Preparations, Kinds
  <2>2. Fed(prep, 0)
    BY <1>1, <2>1, FirstIsFed
  <2>3. PICK r : r = Advanced(prep)
    OBVIOUS
  <2>4. /\ Fed(r, 0) /\ Unfinished(r) /\ r \in Preparations
        /\ r = [prep EXCEPT !.block = r.block, !.done = r.done]
    BY <1>1, <2>1, <2>2, <2>3, AdvancedFed
  <2>5. q = [r EXCEPT !.at = "feed"]
    BY <1>5, <2>3
  <2>6. /\ r.kind = prep.kind /\ r.blocks = prep.blocks /\ r.extra = prep.extra /\ r.off = 0
        /\ r.body = prep.body
    BY <1>1, <2>4 DEF Preparations
  <2> HIDE DEF q
  <2>7. q \in Preparations
    BY <2>4, <2>5 DEF Preparations, PrepStages
  <2>8. /\ q.at = "feed" /\ q.kind = r.kind /\ q.blocks = r.blocks /\ q.extra = r.extra /\ q.off = r.off
        /\ q.body = r.body /\ q.block = r.block /\ q.done = r.done /\ q.out = r.out
    BY <2>4, <2>5 DEF Preparations
  <2>9. FileLength(r) = N
    BY <2>6, SameFile
  <2>10. Feeding(q)
    <3>0. r.kind = "basic" => r.block <= Len(r.blocks)
      <4>1. r.block \in Nat /\ Len(r.blocks) \in Nat
        BY <2>4, BlockFields DEF Preparations
      <4>2. r.kind = "basic" => ~(r.block > Len(r.blocks))
        BY <1>5, <2>3
      <4> QED BY <4>1, <4>2
    <3>1. r.kind # "none" /\ q.at # "done" /\ r.body = [i \in 1 .. FileLength(r) |-> i] /\ r.off <= FileLength(r)
          /\ Fed(r, r.off)
      BY <2>4, <2>6, <2>8, <2>9, <1>1, <1>5
    <3>2. (q.at = "done" => r.block > Len(r.blocks)) /\ (r.kind = "basic" /\ q.at = "feed" => r.block <= Len(r.blocks))
      BY <3>0, <3>1
    <3> QED BY ONLY <2>4, <2>8, <3>1, <3>2, SameFeeding
  <2> QED BY <2>7, <2>8, <2>10, <1>2 DEF PrepInv, PrepIn
<1> QED BY <1>3, <1>4, <1>5

LEMMA FeedNoneKeeps ==
    ASSUME PrepInv, FeedNone
    PROVE  PrepInv'
<1> DEFINE n == Least(Len(prep.body) - prep.off, ChunkUnits)
           N == FileLength(prep)
           p == [prep EXCEPT !.off = @ + n, !.out = @ \o Chunk(prep, n)]
           at == IF p.off = Len(p.body) THEN "done" ELSE "feed"
           q == [p EXCEPT !.at = at]
<1>1. prep.at = "feed" /\ prep.kind = "none" /\ prep \in Preparations /\ Feeding(prep)
  BY DEF FeedNone, PrepInv, PrepIn
<1>2. prep' = q
  BY DEF FeedNone
<1>3. /\ N \in Nat /\ prep.off \in Nat /\ prep.off <= N /\ prep.body = [i \in 1 .. N |-> i]
      /\ prep.out = [i \in 1 .. prep.off |-> i] /\ Len(prep.body) = N
  BY <1>1, FileLengthIsNat, BodyIsSeq DEF Feeding, Preparations
<1>4. n \in Nat /\ prep.off + n <= N
  <2> HIDE DEF N
  <2> QED BY <1>3, ImageAssumption DEF Least
<1> HIDE DEF n
<1>5. Chunk(prep, n) = [i \in 1 .. n |-> prep.off + i]
  <2> HIDE DEF N
  <2> QED BY <1>1, <1>3, <1>4, ChunkIs
<1>6. prep.out \o Chunk(prep, n) = [i \in 1 .. prep.off + n |-> i]
  <2>1. PICK o \in Nat, m \in Nat : o = prep.off /\ m = n
    BY <1>3, <1>4
  <2>2. PICK f : f = [i \in 1 .. o + m |-> i]
    OBVIOUS
  <2>3. f \in [1 .. o + m -> Int] /\ o \in Nat /\ m \in Nat
    BY <2>2
  <2>4. PICK a, b : a = [i \in 1 .. o |-> f[i]] /\ b = [i \in 1 .. m |-> f[o + i]]
    OBVIOUS
  <2>5. a = [i \in 1 .. o |-> i] /\ b = [i \in 1 .. m |-> o + i]
    BY <2>2, <2>4
  <2>6. a \o b = f
    BY ONLY <2>3, <2>4, CutMeets
  <2> QED BY <2>1, <2>2, <2>5, <2>6, <1>3, <1>5
<1>7. p \in Preparations
  <2>1. prep.off + n \in Nat /\ [i \in 1 .. prep.off + n |-> i] \in Seq(Int)
    <3>1. PICK m \in Nat : m = prep.off + n
      BY <1>3, <1>4
    <3>2. [i \in 1 .. m |-> i] \in Seq(Int)
      BY ONLY <3>1, BodyIsSeq
    <3> QED BY <3>1, <3>2
  <2>2. PICK out \in Seq(Int) : out = prep.out \o Chunk(prep, n)
    BY ONLY <2>1, <1>6
  <2>3. p = [prep EXCEPT !.off = @ + n, !.out = out]
    BY <2>2
  <2>4. [prep EXCEPT !.off = @ + n, !.out = out] \in Preparations
    BY <2>1, <1>1 DEF Preparations
  <2> QED BY <2>3, <2>4
<1>8. /\ p.kind = "none" /\ p.blocks = prep.blocks /\ p.extra = prep.extra /\ p.off = prep.off + n
      /\ p.body = prep.body /\ p.out = [i \in 1 .. prep.off + n |-> i]
  BY <1>1, <1>6 DEF Preparations
<1> HIDE DEF p
<1>9. at \in {"feed", "done"} /\ (at = "done" => p.off = N)
  BY <1>3, <1>8
<1> HIDE DEF at
<1>10. q \in Preparations
  BY <1>7, <1>9 DEF Preparations, PrepStages
<1>11. /\ q.at = at /\ q.kind = "none" /\ q.blocks = prep.blocks /\ q.extra = prep.extra /\ q.off = p.off
       /\ q.body = prep.body /\ q.out = p.out
  BY <1>7, <1>8 DEF Preparations
<1> HIDE DEF q
<1>12. FileLength(q) = N
  BY <1>1, <1>11, SameFile
<1>13. Feeding(q)
  BY <1>3, <1>4, <1>8, <1>9, <1>11, <1>12 DEF Feeding
<1> QED BY <1>2, <1>9, <1>10, <1>11, <1>13 DEF PrepInv, PrepIn

(* After a turn of the uncompressed kind, past the blocks that are through. *)
LEMMA AfterBasicKeeps ==
    ASSUME NEW p \in Preparations, p.kind = "basic", p.body = [i \in 1 .. FileLength(p) |-> i],
           p.off <= FileLength(p), Fed(p, p.off)
    PROVE  PrepIn(AfterBasic(p))
<1>1. PICK r : r = Advanced(p)
  OBVIOUS
<1>2. /\ Fed(r, p.off) /\ Unfinished(r) /\ r \in Preparations
      /\ r = [p EXCEPT !.block = r.block, !.done = r.done]
  BY <1>1, AdvancedFed
<1>3. r.kind = p.kind /\ r.blocks = p.blocks /\ r.extra = p.extra /\ r.off = p.off /\ r.body = p.body
  BY <1>2 DEF Preparations
<1> DEFINE at == IF r.block <= Len(r.blocks) THEN "feed" ELSE IF r.off = Len(r.body) THEN "done" ELSE "failed"
           q == [r EXCEPT !.at = at]
<1>4. AfterBasic(p) = q
  BY <1>1 DEF AfterBasic
<1>5. at \in PrepStages /\ at \notin {"idle", "decrypt", "begin"} /\ (at = "done" => ~(r.block <= Len(r.blocks)))
      /\ (at = "feed" => r.block <= Len(r.blocks))
  BY DEF PrepStages
<1>6. r.block \in Nat /\ Len(r.blocks) \in Nat
  BY <1>2, BlockFields DEF Preparations
<1> HIDE DEF at
<1>7. q \in Preparations
  BY <1>2, <1>5 DEF Preparations
<1>8. /\ q.at = at /\ q.kind = r.kind /\ q.blocks = r.blocks /\ q.extra = r.extra /\ q.off = r.off
      /\ q.body = r.body /\ q.block = r.block /\ q.done = r.done /\ q.out = r.out
  BY <1>2 DEF Preparations
<1> HIDE DEF q
<1>9. FileLength(r) = FileLength(p)
  BY <1>3, SameFile
<1>10. Feeding(q)
  <2>1. /\ r.kind # "none" /\ (q.at = "done" => r.block > Len(r.blocks))
        /\ (r.kind = "basic" /\ q.at = "feed" => r.block <= Len(r.blocks))
        /\ r.body = [i \in 1 .. FileLength(r) |-> i] /\ r.off <= FileLength(r) /\ Fed(r, r.off)
    BY <1>2, <1>3, <1>5, <1>6, <1>8, <1>9
  <2> QED BY ONLY <1>2, <1>8, <2>1, SameFeeding
<1> QED BY <1>4, <1>5, <1>7, <1>8, <1>10 DEF PrepIn

(* What a turn of prepareBasic finds.                                       *)
LEMMA BasicTurn ==
    ASSUME NEW p \in Preparations, p.kind = "basic", p.at = "feed", Feeding(p)
    PROVE  /\ p.block \in 1 .. Len(p.blocks) /\ p.done \in Nat /\ p.off \in Nat /\ Through(p) = p.done
           /\ p.blocks[p.block].data \in Nat /\ p.blocks[p.block].zero \in Nat /\ HeadLength(p.kind) = 0
           /\ Whole(p, p.block) = p.blocks[p.block].data + p.blocks[p.block].zero
           /\ p.done < p.blocks[p.block].data + p.blocks[p.block].zero
           /\ BlockStarts(p.kind, p.blocks)[p.block] \in Nat
           /\ p.off = BlockStarts(p.kind, p.blocks)[p.block] + Least(p.done, p.blocks[p.block].data)
<1>1. /\ p.blocks \in Blocks /\ Len(p.blocks) \in Nat /\ p.done \in Nat /\ p.off \in Nat
      /\ Fed(p, p.off) /\ Unfinished(p) /\ p.block <= Len(p.blocks)
  BY BlockFields DEF Preparations, Feeding
<1>2. p.block \in 1 .. Len(p.blocks)
  <2>1. p.block \in 1 .. Len(p.blocks) \/ p.block = Len(p.blocks) + 1
    BY <1>1, Zenon DEF Fed
  <2> QED BY <2>1, <1>1
<1>3. p.blocks[p.block].data \in Nat /\ p.blocks[p.block].zero \in Nat /\ HeadLength(p.kind) = 0
  BY <1>1, <1>2, BlockFields DEF HeadLength
<1>4. Whole(p, p.block) = p.blocks[p.block].data + p.blocks[p.block].zero
  BY <1>2, WholeIsNat
<1>5. p.done < p.blocks[p.block].data + p.blocks[p.block].zero
  BY <1>1, <1>2, <1>4 DEF Unfinished
<1>6. BlockStarts(p.kind, p.blocks)[p.block] \in Nat
  <2>1. BlockStarts(p.kind, p.blocks) \in [1 .. Len(p.blocks) + 1 -> Nat]
    BY <1>1, StartsAre
  <2>2. p.block \in 1 .. Len(p.blocks) + 1
    BY <1>1, <1>2
  <2> QED BY <2>1, <2>2
<1>7. p.off = BlockStarts(p.kind, p.blocks)[p.block] + Least(p.done, p.blocks[p.block].data)
  <2>1. p.off = BlockStarts(p.kind, p.blocks)[p.block] + Least(p.done, HeadLength(p.kind) + p.blocks[p.block].data)
    <3>1. p.block # Len(p.blocks) + 1
      BY <1>1, <1>2
    <3> QED BY <1>1, <3>1, Zenon DEF Fed
  <2>2. HeadLength(p.kind) + p.blocks[p.block].data = p.blocks[p.block].data
    BY <1>3
  <2> QED BY <2>1, <2>2
<1>8. Through(p) = p.done
  BY DEF Through
<1> QED BY <1>1, <1>2, <1>3, <1>4, <1>5, <1>6, <1>7, <1>8

(* A turn that consumes m units of a block and takes gain of the body.      *)
LEMMA BasicPacked ==
    ASSUME NEW p \in Preparations, p.kind = "basic", p.at = "feed", Feeding(p), NEW q \in Preparations,
           NEW m \in Nat, NEW piece,
           piece = [i \in 1 .. m |-> Part(p.kind, p.blocks, p.block, p.done + m)[p.done + i]],
           q.kind = p.kind, q.blocks = p.blocks, q.extra = p.extra, q.block = p.block, q.body = p.body,
           q.done = p.done + m, q.done <= p.blocks[p.block].data + p.blocks[p.block].zero,
           q.out = p.out \o piece, NEW gain \in Nat, q.off = p.off + gain, q.off <= FileLength(p),
           Least(q.done, p.blocks[p.block].data) = Least(p.done, p.blocks[p.block].data) + gain
    PROVE  PrepIn(AfterBasic(q))
<1>1. /\ p.block \in 1 .. Len(p.blocks) /\ Through(p) = p.done /\ p.done \in Nat
      /\ Whole(p, p.block) = p.blocks[p.block].data + p.blocks[p.block].zero
      /\ HeadLength(p.kind) + p.blocks[p.block].data = p.blocks[p.block].data
  BY BasicTurn
<1>2. Through(q) = Through(p) + m
  BY <1>1 DEF Through
<1>3. Fed(p, p.off) /\ p.body = [i \in 1 .. FileLength(p) |-> i]
  BY DEF Feeding
<1>4. Fed(q, p.off + gain)
  <2>1. piece = [i \in 1 .. m |-> Part(p.kind, p.blocks, p.block, Through(p) + m)[Through(p) + i]]
    BY <1>1
  <2>2. Least(q.done, HeadLength(p.kind) + p.blocks[p.block].data)
          = Least(p.done, HeadLength(p.kind) + p.blocks[p.block].data) + gain
    BY <1>1
  <2>3. /\ p \in Preparations /\ p.kind \in {"basic", "normal"} /\ q \in Preparations /\ q.kind = p.kind
        /\ q.blocks = p.blocks /\ q.block = p.block /\ q.done <= Whole(p, p.block) /\ m \in Nat
        /\ q.out = p.out \o piece /\ gain \in Int
    BY <1>1
  <2>4. Packs(p, q, m, piece, gain)
    BY ONLY <1>1, <1>2, <2>1, <2>2, <2>3 DEF Packs
  <2> QED BY ONLY <1>3, <2>4, PackedFed
<1>5. FileLength(q) = FileLength(p)
  BY SameFile
<1>6. /\ q \in Preparations /\ q.kind = "basic" /\ q.body = [i \in 1 .. FileLength(q) |-> i]
      /\ q.off <= FileLength(q) /\ Fed(q, q.off)
  BY <1>3, <1>4, <1>5
<1> QED BY ONLY <1>6, AfterBasicKeeps

LEMMA FeedZeroesKeeps ==
    ASSUME PrepInv, FeedZeroes
    PROVE  PrepInv'
<1> DEFINE n == Least(ZeroesLeft(prep), ZeroUnits)
           b == prep.block
           piece == [i \in 1 .. n |-> Zero]
           q == [prep EXCEPT !.done = @ + n, !.out = @ \o piece]
<1>1. prep.at = "feed" /\ prep.kind = "basic" /\ prep \in Preparations /\ Feeding(prep) /\ ZeroesLeft(prep) > 0
  BY DEF FeedZeroes, PrepInv, PrepIn
<1>2. prep' = AfterBasic(q)
  BY DEF FeedZeroes
<1>3. /\ b \in 1 .. Len(prep.blocks) /\ prep.done \in Nat /\ prep.off \in Nat
      /\ prep.blocks[b].data \in Nat /\ prep.blocks[b].zero \in Nat
      /\ prep.done < prep.blocks[b].data + prep.blocks[b].zero
  BY <1>1, BasicTurn
<1>4. ~(prep.done < prep.blocks[b].data) /\ ZeroesLeft(prep) = prep.blocks[b].data + prep.blocks[b].zero - prep.done
  BY <1>1, <1>3 DEF ZeroesLeft
<1>5. n \in Nat /\ prep.done + n <= prep.blocks[b].data + prep.blocks[b].zero
  <2>1. PICK d \in Nat, z \in Nat, t \in Nat : d = prep.blocks[b].data /\ z = prep.blocks[b].zero /\ t = prep.done
    BY <1>3
  <2>2. t < d + z /\ n = Least(d + z - t, ZeroUnits)
    BY <1>3, <1>4, <2>1
  <2> HIDE DEF n, b
  <2>3. n \in Nat /\ t + n <= d + z
    BY <2>2, ImageAssumption DEF Least
  <2> QED BY <2>1, <2>3
<1> HIDE DEF n
<1>6. piece = [i \in 1 .. n |-> Part(prep.kind, prep.blocks, b, prep.done + n)[prep.done + i]]
  <2>1. \A i \in 1 .. n : Part(prep.kind, prep.blocks, b, prep.done + n)[prep.done + i] = Zero
    <3> TAKE i \in 1 .. n
    <3>1. prep.done + i \in 1 .. prep.done + n /\ ~(prep.done + i <= prep.blocks[b].data)
      <4>1. PICK d \in Nat, t \in Nat : d = prep.blocks[b].data /\ t = prep.done /\ ~(t < d)
        BY <1>3, <1>4
      <4>2. i \in Nat /\ 0 < i /\ i <= n /\ n \in Nat
        BY <1>5
      <4>3. t + i \in 1 .. t + n /\ ~(t + i <= d)
        BY ONLY <4>1, <4>2
      <4> QED BY <4>1, <4>3
    <3> HIDE DEF b
    <3> QED BY <3>1 DEF Part
  <2> QED BY <2>1
<1>7. q \in Preparations
  <2>1. piece \in Seq(Int)
    <3>1. piece \in [1 .. n -> Int]
      BY DEF Zero
    <3> HIDE DEF piece
    <3> QED BY <3>1, <1>5, FunctionIsSeq
  <2>2. PICK out \in Seq(Int) : out = prep.out \o piece
    <3>1. prep.out \in Seq(Int)
      BY <1>1 DEF Preparations
    <3> HIDE DEF piece
    <3> QED BY <2>1, <3>1, ConcatProperties
  <2>3. q = [prep EXCEPT !.done = @ + n, !.out = out]
    BY <2>2
  <2>4. prep.done + n \in Nat
    BY <1>3, <1>5
  <2>5. [prep EXCEPT !.done = @ + n, !.out = out] \in Preparations
    BY <2>4, <1>1 DEF Preparations
  <2> QED BY <2>3, <2>5
<1>8. /\ q.kind = prep.kind /\ q.blocks = prep.blocks /\ q.extra = prep.extra /\ q.block = b
      /\ q.body = prep.body /\ q.done = prep.done + n /\ q.out = prep.out \o piece /\ q.off = prep.off
  <2> HIDE DEF piece
  <2> QED BY <1>1 DEF Preparations
<1>9. Least(q.done, prep.blocks[b].data) = Least(prep.done, prep.blocks[b].data) + 0
  <2> HIDE DEF q
  <2>1. PICK d \in Nat, t \in Nat, e \in Nat : d = prep.blocks[b].data /\ t = prep.done /\ e = q.done
    BY <1>3, <1>5, <1>8
  <2>2. e = t + n /\ ~(t < d) /\ n \in Nat
    BY <1>4, <1>5, <1>8, <2>1
  <2>3. Least(e, d) = Least(t, d) + 0
    BY ONLY <2>1, <2>2 DEF Least
  <2> QED BY ONLY <2>1, <2>3
<1>10. q.off = prep.off + 0 /\ q.off <= FileLength(prep)
  <2> HIDE DEF q
  <2> QED BY <1>1, <1>3, <1>8 DEF Feeding
<1>11. PICK t : t = piece
  OBVIOUS
<1>12. PICK p : p = q
  OBVIOUS
<1>13. /\ p \in Preparations /\ n \in Nat /\ 0 \in Nat
       /\ t = [i \in 1 .. n |-> Part(prep.kind, prep.blocks, prep.block, prep.done + n)[prep.done + i]]
       /\ p.kind = prep.kind /\ p.blocks = prep.blocks /\ p.extra = prep.extra /\ p.block = prep.block
       /\ p.body = prep.body /\ p.done = prep.done + n
       /\ p.done <= prep.blocks[prep.block].data + prep.blocks[prep.block].zero
       /\ p.out = prep.out \o t /\ p.off = prep.off + 0 /\ p.off <= FileLength(prep)
       /\ Least(p.done, prep.blocks[prep.block].data) = Least(prep.done, prep.blocks[prep.block].data) + 0
  <2> HIDE DEF q, piece
  <2> QED BY <1>5, <1>6, <1>7, <1>8, <1>9, <1>10, <1>11, <1>12
<1>14. PrepIn(AfterBasic(p))
  BY ONLY <1>1, <1>13, BasicPacked
<1> QED BY <1>2, <1>12, <1>14 DEF PrepInv

LEMMA FeedDataKeeps ==
    ASSUME PrepInv, FeedData
    PROVE  PrepInv'
<1> DEFINE left == prep.blocks[prep.block].data - prep.done
           n == Least(Least(left, Len(prep.body) - prep.off), ChunkUnits)
           N == FileLength(prep)
           b == prep.block
           piece == Chunk(prep, n)
           q == [prep EXCEPT !.done = @ + n, !.off = @ + n, !.out = @ \o Chunk(prep, n)]
<1>1. prep.at = "feed" /\ prep.kind = "basic" /\ prep \in Preparations /\ Feeding(prep) /\ ZeroesLeft(prep) = 0
  BY DEF FeedData, PrepInv, PrepIn
<1>2. prep' = IF n = 0 THEN [prep EXCEPT !.at = "failed"] ELSE AfterBasic(q)
  BY DEF FeedData
<1>3. /\ b \in 1 .. Len(prep.blocks) /\ prep.done \in Nat /\ prep.off \in Nat
      /\ prep.blocks[b].data \in Nat /\ prep.blocks[b].zero \in Nat /\ HeadLength(prep.kind) = 0
      /\ prep.done < prep.blocks[b].data + prep.blocks[b].zero
      /\ BlockStarts(prep.kind, prep.blocks)[b] \in Nat
      /\ prep.off = BlockStarts(prep.kind, prep.blocks)[b] + Least(prep.done, prep.blocks[b].data)
  BY <1>1, BasicTurn
<1>4. prep.done < prep.blocks[b].data
  <2>1. PICK d \in Nat, z \in Nat, t \in Nat : d = prep.blocks[b].data /\ z = prep.blocks[b].zero /\ t = prep.done
    BY <1>3
  <2>2. (IF t < d THEN 0 ELSE d + z - t) = 0 /\ t < d + z
    BY <1>1, <1>3, <2>1 DEF ZeroesLeft
  <2>3. t < d
    BY ONLY <2>1, <2>2
  <2> QED BY ONLY <2>1, <2>3
<1>5. /\ N \in Nat /\ prep.off <= N /\ prep.body = [i \in 1 .. N |-> i] /\ Len(prep.body) = N
  BY <1>1, FileLengthIsNat, BodyIsSeq DEF Feeding
<1>6. n \in Nat /\ prep.done + n <= prep.blocks[b].data /\ prep.off + n <= N
  <2>1. PICK d \in Nat, t \in Nat, o \in Nat, l \in Nat :
           d = prep.blocks[b].data /\ t = prep.done /\ o = prep.off /\ l = Len(prep.body)
    BY <1>3, <1>5
  <2>2. t < d /\ o <= l /\ n = Least(Least(d - t, l - o), ChunkUnits)
    BY <1>4, <1>5, <2>1
  <2> HIDE DEF n, b, N
  <2>3. n \in Nat /\ t + n <= d /\ o + n <= l
    BY <2>2, ImageAssumption DEF Least
  <2> QED BY <2>1, <2>3, <1>5
<1>7. CASE n = 0
  <2>1. prep'.at = "failed"
    BY <1>1, <1>2, <1>7, FailedPreparation
  <2> QED BY <2>1 DEF PrepInv, PrepIn
<1>8. CASE n # 0
  <2> HIDE DEF n, N
  <2>1. piece = [i \in 1 .. n |-> prep.off + i]
    BY <1>1, <1>5, <1>6, ChunkIs
  <2>2. piece = [i \in 1 .. n |-> Part(prep.kind, prep.blocks, b, prep.done + n)[prep.done + i]]
    <3>1. \A i \in 1 .. n : Part(prep.kind, prep.blocks, b, prep.done + n)[prep.done + i] = prep.off + i
      <4> TAKE i \in 1 .. n
      <4>1. prep.done + i \in 1 .. prep.done + n /\ prep.done + i <= prep.blocks[b].data
        <5>1. PICK d \in Nat, t \in Nat : d = prep.blocks[b].data /\ t = prep.done
          BY <1>3
        <5>2. t + n <= d
          BY <1>6, <5>1
        <5> HIDE DEF b
        <5>3. t + i \in 1 .. t + n /\ t + i <= d
          BY <5>2, <1>6
        <5> QED BY <5>1, <5>3
      <4>2. prep.off = BlockStarts(prep.kind, prep.blocks)[b] + prep.done
        BY <1>3, <1>4 DEF Least
      <4>3. Part(prep.kind, prep.blocks, b, prep.done + n)[prep.done + i]
              = BlockStarts(prep.kind, prep.blocks)[b] + HeadLength(prep.kind) + (prep.done + i)
        <5> HIDE DEF b
        <5> QED BY <4>1 DEF Part
      <4> HIDE DEF b
      <4> QED BY <4>2, <4>3, <1>3
    <3> HIDE DEF piece, b
    <3> QED BY <2>1, <3>1
  <2>3. piece \in Seq(Int)
    <3>1. [i \in 1 .. n |-> prep.off + i] \in [1 .. n -> Int]
      BY <1>3
    <3> HIDE DEF piece
    <3> QED BY <2>1, <3>1, <1>6, FunctionIsSeq
  <2>4. PICK out \in Seq(Int) : out = prep.out \o piece
    <3>1. prep.out \in Seq(Int)
      BY <1>1 DEF Preparations
    <3> HIDE DEF piece
    <3> QED BY <2>3, <3>1, ConcatProperties
  <2>5. q = [prep EXCEPT !.done = @ + n, !.off = @ + n, !.out = out]
    BY <2>4
  <2> HIDE DEF q, piece
  <2>6. q \in Preparations
    <3>1. prep.done + n \in Nat /\ prep.off + n \in Nat
      <4>1. prep.done \in Nat /\ prep.off \in Nat /\ n \in Nat
        BY <1>3, <1>6
      <4> QED BY ONLY <4>1
    <3>2. [prep EXCEPT !.done = @ + n, !.off = @ + n, !.out = out] \in Preparations
      BY <3>1, <1>1 DEF Preparations
    <3> QED BY <2>5, <3>2
  <2>7. /\ q.kind = prep.kind /\ q.blocks = prep.blocks /\ q.extra = prep.extra /\ q.block = b
        /\ q.body = prep.body /\ q.done = prep.done + n /\ q.out = out /\ q.off = prep.off + n
    BY <2>5, <1>1 DEF Preparations
  <2>8. Least(q.done, prep.blocks[b].data) = Least(prep.done, prep.blocks[b].data) + n
    <3>1. PICK d \in Nat, t \in Nat : d = prep.blocks[b].data /\ t = prep.done
      BY <1>3
    <3>2. t < d /\ t + n <= d /\ q.done = t + n
      BY <1>4, <1>6, <2>7, <3>1
    <3> HIDE DEF b
    <3>3. Least(t + n, d) = Least(t, d) + n
      BY <3>2, <1>6 DEF Least
    <3> QED BY <3>1, <3>2, <3>3
  <2>9. PICK t, p : t = piece /\ p = q
    OBVIOUS
  <2>10. /\ p \in Preparations /\ n \in Nat
         /\ t = [i \in 1 .. n |-> Part(prep.kind, prep.blocks, prep.block, prep.done + n)[prep.done + i]]
         /\ p.kind = prep.kind /\ p.blocks = prep.blocks /\ p.extra = prep.extra /\ p.block = prep.block
         /\ p.body = prep.body /\ p.done = prep.done + n
         /\ p.done <= prep.blocks[prep.block].data + prep.blocks[prep.block].zero
         /\ p.out = prep.out \o t /\ p.off = prep.off + n /\ p.off <= FileLength(prep)
         /\ Least(p.done, prep.blocks[prep.block].data) = Least(prep.done, prep.blocks[prep.block].data) + n
    <3>1. prep.done + n <= prep.blocks[b].data + prep.blocks[b].zero
      <4>1. PICK d \in Nat, z \in Nat, c \in Nat : d = prep.blocks[b].data /\ z = prep.blocks[b].zero /\ c = prep.done
        BY <1>3
      <4>2. c + n <= d
        BY <1>6, <4>1
      <4> HIDE DEF b
      <4>3. c + n <= d + z
        BY <4>2, <1>6
      <4> QED BY <4>1, <4>3
    <3> QED BY <3>1, <2>2, <2>4, <2>6, <2>7, <2>8, <2>9, <1>6 DEF N
  <2>11. PrepIn(AfterBasic(p))
    BY ONLY <1>1, <2>10, BasicPacked
  <2> QED BY <1>2, <1>8, <2>9, <2>11 DEF PrepInv
<1> QED BY <1>7, <1>8

LEMMA FeedFramesKeeps ==
    ASSUME PrepInv, FeedFrames
    PROVE  PrepInv'
<1> DEFINE n == Least(Len(prep.body) - prep.off, FrameChunks[(prep.turn % Len(FrameChunks)) + 1])
           N == FileLength(prep)
           p == Accepted(prep, Chunk(prep, n))
           q == [p EXCEPT !.off = @ + n, !.turn = @ + 1]
           at == IF q.block > Len(q.blocks)
                 THEN IF q.off = Len(q.body) /\ q.out # <<>> THEN "done" ELSE "failed"
                 ELSE IF q.off = Len(q.body) THEN "failed" ELSE q.at
           r == [q EXCEPT !.at = at]
<1>1. prep.at = "feed" /\ prep.kind = "normal" /\ prep \in Preparations /\ Feeding(prep)
  BY DEF FeedFrames, PrepInv, PrepIn
<1>2. prep' = IF q.at = "failed" THEN q
              ELSE IF q.block > Len(q.blocks)
                   THEN [q EXCEPT !.at = IF q.off = Len(q.body) /\ q.out # <<>> THEN "done" ELSE "failed"]
              ELSE IF q.off = Len(q.body) THEN [q EXCEPT !.at = "failed"] ELSE q
  BY DEF FeedFrames
<1>3. /\ N \in Nat /\ prep.off \in Nat /\ prep.off <= N /\ prep.body = [i \in 1 .. N |-> i]
      /\ Len(prep.body) = N /\ Fed(prep, prep.off) /\ Unfinished(prep) /\ prep.turn \in Nat
  BY <1>1, FileLengthIsNat, BodyIsSeq DEF Feeding, Preparations
<1>4. n \in Nat /\ prep.off + n <= N
  <2>1. PICK l \in Nat : l = Len(FrameChunks) /\ l > 0
    BY ImageAssumption, LenProperties
  <2>2. (prep.turn % l) + 1 \in 1 .. l
    BY <2>1, <1>3
  <2>3. PICK c \in Nat : c = FrameChunks[(prep.turn % Len(FrameChunks)) + 1]
    BY <2>1, <2>2, ImageAssumption, ElementOfSeq
  <2>4. n = Least(N - prep.off, c)
    BY <2>3, <1>3
  <2> HIDE DEF n, N
  <2> QED BY <2>4, <1>3 DEF Least
<1>5. PICK units : units = Chunk(prep, n) /\ units = [i \in 1 .. n |-> prep.off + i]
  <2> HIDE DEF n, N
  <2> QED BY <1>1, <1>3, <1>4, ChunkIs
<1> HIDE DEF n
<1>6. /\ p \in Preparations
      /\ p.at # "failed" =>
           /\ Fed(p, prep.off + n) /\ Unfinished(p)
           /\ p = [prep EXCEPT !.block = p.block, !.done = p.done, !.out = p.out]
  <2>1. PackedOn(prep, n, Accepted(prep, units))
    BY ONLY <1>1, <1>3, <1>4, <1>5, ChunkAccepted
  <2>2. p = Accepted(prep, units)
    BY <1>5
  <2> HIDE DEF p
  <2> QED BY <2>1, <2>2 DEF PackedOn
<1> HIDE DEF p
<1>7. q.at = p.at /\ q.kind = p.kind /\ q.blocks = p.blocks /\ q.extra = p.extra /\ q.body = p.body
      /\ q.block = p.block /\ q.done = p.done /\ q.out = p.out /\ q.off = p.off + n
  BY <1>6 DEF Preparations
<1>8. CASE p.at = "failed"
  <2>1. prep'.at = "failed"
    BY <1>2, <1>7, <1>8
  <2> QED BY <2>1 DEF PrepInv, PrepIn
<1>9. CASE p.at # "failed"
  <2>1. /\ p.at = "feed" /\ p.kind = "normal" /\ p.blocks = prep.blocks /\ p.extra = prep.extra
        /\ p.body = prep.body /\ p.off = prep.off /\ p.turn = prep.turn
    BY <1>1, <1>6, <1>9 DEF Preparations
  <2>2. q \in Preparations
    <3>1. p.off + n \in Nat /\ p.turn + 1 \in Nat
      BY <2>1, <1>3, <1>4
    <3> QED BY <3>1, <1>6 DEF Preparations
  <2>3. prep' = r
    <3>1. q = [q EXCEPT !.at = q.at]
      BY <2>2 DEF Preparations
    <3>2. q.at # "failed"
      BY <1>7, <1>9
    <3> HIDE DEF q
    <3> QED BY <3>1, <3>2, <1>2
  <2>4. at \in PrepStages /\ at \in {"feed", "done", "failed"} /\ (at = "done" => q.block > Len(q.blocks))
    <3>1. q.at = "feed"
      BY <2>1, <1>7
    <3> HIDE DEF q
    <3> QED BY <3>1 DEF PrepStages
  <2> HIDE DEF q, at
  <2>5. r \in Preparations
    BY <2>2, <2>4 DEF Preparations
  <2>6. /\ r.at = at /\ r.kind = q.kind /\ r.blocks = q.blocks /\ r.extra = q.extra /\ r.off = q.off
        /\ r.body = q.body /\ r.block = q.block /\ r.done = q.done /\ r.out = q.out
    BY <2>2 DEF Preparations
  <2> HIDE DEF r
  <2>7. FileLength(q) = N
    <3>1. q.kind = prep.kind /\ q.blocks = prep.blocks /\ q.extra = prep.extra
      BY <1>1, <2>1, <1>7
    <3> QED BY <3>1, SameFile
  <2>8. Fed(q, q.off) /\ Unfinished(q)
    <3>1. Fed(p, prep.off + n) /\ Unfinished(p) /\ q.off = prep.off + n
      BY <2>1, <1>6, <1>7, <1>9
    <3>2. Fed(q, prep.off + n) /\ Unfinished(q)
      BY <3>1, <1>7, FedSame, Zenon
    <3> QED BY <3>1, <3>2
  <2>9. Feeding(r)
    <3>1. q.kind = "normal" /\ q.off <= FileLength(q) /\ q.body = [i \in 1 .. FileLength(q) |-> i]
      <4> HIDE DEF N
      <4> QED BY <2>1, <2>7, <1>3, <1>4, <1>7
    <3>2. /\ q.kind # "none" /\ (r.at = "done" => q.block > Len(q.blocks))
          /\ (q.kind = "basic" /\ r.at = "feed" => q.block <= Len(q.blocks))
      BY <3>1, <2>4, <2>6
    <3> QED BY ONLY <2>6, <2>8, <3>1, <3>2, SameFeeding
  <2> QED BY <2>3, <2>4, <2>5, <2>6, <2>9 DEF PrepInv, PrepIn
<1> QED BY <1>8, <1>9

LEMMA PrepStep == PrepInv /\ [PrepSteps]_prep => PrepInv'
<1> SUFFICES ASSUME PrepInv, [PrepSteps]_prep PROVE PrepInv'
  OBVIOUS
<1>1. CASE PrepSteps
  <2>1. ASSUME NEW kind \in {"none", "basic", "normal"}, NEW encrypted \in BOOLEAN,
               NEW blocks \in ImageBlocks, NEW extra \in {0, 1}, DecodeHeader(kind, encrypted, blocks, extra)
        PROVE  PrepInv'
    BY <2>1, DecodeHeaderKeeps DEF Kinds
  <2> QED BY <1>1, <2>1, DecryptChunkKeeps, DecryptWholeKeeps, BeginPreparationKeeps, FeedNoneKeeps,
             FeedZeroesKeeps, FeedDataKeeps, FeedFramesKeeps DEF PrepSteps
<1>2. CASE UNCHANGED prep
  BY <1>2 DEF PrepInv
<1> QED BY <1>1, <1>2

LEMMA PrepMeans == PrepInv => PreparedIsTheImage
<1> SUFFICES ASSUME PrepInv, prep.at = "done" PROVE prep.out = DescribedImage(prep)
  BY DEF PreparedIsTheImage
<1>1. prep \in Preparations /\ Feeding(prep)
  BY DEF PrepInv, PrepIn
<1>2. CASE prep.kind = "none"
  BY <1>1, <1>2 DEF Feeding, DescribedImage
<1>3. CASE prep.kind # "none"
  <2>1. prep.block > Len(prep.blocks) /\ Fed(prep, prep.off) /\ Len(prep.blocks) \in Nat
    BY <1>1, <1>3, BlockFields DEF Feeding, Preparations
  <2>2. prep.block \notin 1 .. Len(prep.blocks)
    BY <2>1
  <2>3. prep.block = Len(prep.blocks) + 1 /\ prep.out = DescribedUpTo(prep.kind, prep.blocks)[prep.block - 1]
    BY <2>1, <2>2, Zenon DEF Fed
  <2>4. prep.block - 1 = Len(prep.blocks)
    BY <2>1, <2>3
  <2> QED BY <2>3, <2>4, <1>3 DEF DescribedImage
<1> QED BY <1>2, <1>3

-----------------------------------------------------------------------------
(* From the file to the first instruction (TitleImage)                       *)

PrepSpec == PrepInit /\ [][PrepSteps]_prep
ImportsSpec == ImportsInit /\ [][ImportSteps]_imports
StartSpec == StartInit /\ [][StartSteps]_start
PreadSpec == PreadInit /\ [][PreadSteps]_pread
RequestsSpec == RequestsInit /\ [][RequestSteps]_requests

TitleSpec == PrepSpec /\ ImportsSpec /\ StartSpec /\ PreadSpec /\ RequestsSpec

(* However a body is cut into blocks, chunks, decrypted pieces and frames,  *)
(* an image that is finished is the one its file describes, and the plan of *)
(* its imports holds each record once, read where the image lies            *)
(* (retail-xex-image-pipeline.mjs, render360-kernel-imports.mjs).           *)
THEOREM ImageIsWholeHolds == TitleSpec => []ImageIsWhole
<1>1. ImportsInv /\ [ImportSteps]_imports => ImportsInv'
  BY ImportsStep
<1>2. ImportsInv => RecordsAccounted /\ LoadedImagesReadMapped
  BY DEF ImportsInv
<1> QED BY <1>1, <1>2, PrepInitially, PrepStep, PrepMeans, ImportsInitially,
           PTL DEF TitleSpec, PrepSpec, ImportsSpec, ImageIsWhole

(* A title runs with the image, the kernel state, the imports, the decoder  *)
(* and the thread of its own boot, a host read fills its buffer without a   *)
(* gap, and what is extracted lies where it belongs                         *)
(* (render360-title-controller.mjs, render360-browser-wasi.mjs, wasm-core.js).*)
THEOREM BootIsCleanHolds == TitleSpec => []BootIsClean
<1>1. StartInv /\ [StartSteps]_start => StartInv'
  BY StartStep
<1>2. PreadInv /\ [PreadSteps]_pread => PreadInv'
  BY PreadStep
<1>3. RequestsInv /\ [RequestSteps]_requests => RequestsInv'
  BY RequestsStep
<1>4. StartInv => RunsWithItsOwn
  BY DEF StartInv, RunsWithItsOwn, WordsOf, Stages
<1>5. PreadInv => ReadsAreRuns
  BY DEF PreadInv
<1>6. RequestsInv => CapturedInPlace
  BY DEF RequestsInv
<1> QED BY <1>1, <1>2, <1>3, <1>4, <1>5, <1>6, StartInitially, PreadInitially, RequestsInitially,
           PTL DEF TitleSpec, StartSpec, PreadSpec, RequestsSpec, BootIsClean

-----------------------------------------------------------------------------
(* The files of a title (ContentFiles)                                       *)

Keys == Int \X Seq(STRING)
Entries == [key : Keys, directory : BOOLEAN, by : Keys]

\* Each entry is found under its own key, nothing else is, and so is what a
\* path goes through.
TableIs(entries, index) ==
    /\ entries \in Seq(Entries)
    /\ DOMAIN index = {entries[n].key : n \in 1 .. Len(entries)}
    /\ \A n \in 1 .. Len(entries) : index[entries[n].key] = n
    /\ \A key \in DOMAIN index : \A k \in 1 .. Len(key[2]) - 1 :
          <<key[1], SubSeq(key[2], 1, k)>> \in DOMAIN index

(* The first names of a path are a path.                                    *)
LEMMA PathsBegin ==
    ASSUME NEW path \in Seq(STRING), NEW k \in 0 .. Len(path)
    PROVE  /\ SubSeq(path, 1, k) \in Seq(STRING) /\ Len(SubSeq(path, 1, k)) = k
           /\ \A j \in 0 .. k : SubSeq(SubSeq(path, 1, k), 1, j) = SubSeq(path, 1, j)
           /\ k = Len(path) => SubSeq(path, 1, k) = path
<1>1. Len(path) \in Nat /\ \A i \in 1 .. Len(path) : path[i] \in STRING
  BY LenProperties, ElementOfSeq
<1>2. ASSUME NEW j \in 0 .. Len(path)
      PROVE  /\ SubSeq(path, 1, j) \in Seq(STRING) /\ Len(SubSeq(path, 1, j)) = j
             /\ \A i \in 1 .. j : SubSeq(path, 1, j)[i] = path[i]
  <2>1. \A i \in 1 .. j : path[i] \in STRING
    BY <1>1
  <2>2. j \in Int /\ 1 \in Int
    BY <1>1
  <2>3. /\ SubSeq(path, 1, j) \in Seq(STRING)
        /\ Len(SubSeq(path, 1, j)) = IF 1 <= j THEN j - 1 + 1 ELSE 0
        /\ \A i \in 1 .. j - 1 + 1 : SubSeq(path, 1, j)[i] = path[1 + i - 1]
    BY ONLY <2>1, <2>2, SubSeqProperties
  <2>4. j - 1 + 1 = j /\ (1 <= j \/ j = 0) /\ \A i \in 1 .. j : 1 + i - 1 = i
    BY <1>1
  <2> QED BY <2>3, <2>4
<1>3. ASSUME NEW j \in 0 .. k PROVE SubSeq(SubSeq(path, 1, k), 1, j) = SubSeq(path, 1, j)
  <2>1. PICK p : p = SubSeq(path, 1, k)
    OBVIOUS
  <2>2. p \in Seq(STRING) /\ Len(p) = k /\ (\A i \in 1 .. k : p[i] = path[i]) /\ j \in 0 .. Len(path)
    BY <1>1, <1>2, <2>1
  <2>3. /\ SubSeq(path, 1, j) \in Seq(STRING) /\ Len(SubSeq(path, 1, j)) = j
        /\ \A i \in 1 .. j : SubSeq(path, 1, j)[i] = path[i]
    BY <1>2, <2>2
  <2>4. /\ SubSeq(p, 1, j) \in Seq(STRING) /\ Len(SubSeq(p, 1, j)) = j
        /\ \A i \in 1 .. j : SubSeq(p, 1, j)[i] = p[i]
    <3>1. \A i \in 1 .. j : p[i] \in STRING
      BY <1>1, <2>2
    <3>2. j \in Int /\ 1 \in Int
      OBVIOUS
    <3>3. /\ SubSeq(p, 1, j) \in Seq(STRING)
          /\ Len(SubSeq(p, 1, j)) = IF 1 <= j THEN j - 1 + 1 ELSE 0
          /\ \A i \in 1 .. j - 1 + 1 : SubSeq(p, 1, j)[i] = p[1 + i - 1]
      BY ONLY <3>1, <3>2, SubSeqProperties
    <3>4. j - 1 + 1 = j /\ (1 <= j \/ j = 0) /\ \A i \in 1 .. j : 1 + i - 1 = i
      OBVIOUS
    <3> QED BY <3>3, <3>4
  <2>5. PICK a, b : a = SubSeq(p, 1, j) /\ b = SubSeq(path, 1, j)
    OBVIOUS
  <2>6. a \in Seq(STRING) /\ b \in Seq(STRING) /\ Len(a) = Len(b) /\ \A i \in 1 .. Len(a) : a[i] = b[i]
    BY <2>2, <2>3, <2>4, <2>5
  <2>7. a = b
    BY ONLY <2>6, SeqEqual
  <2> QED BY <2>1, <2>5, <2>7
<1>4. ASSUME k = Len(path) PROVE SubSeq(path, 1, k) = path
  <2>1. PICK a : a = SubSeq(path, 1, k)
    OBVIOUS
  <2>2. a \in Seq(STRING) /\ Len(a) = Len(path) /\ \A i \in 1 .. Len(a) : a[i] = path[i]
    BY <1>2, <1>4, <2>1
  <2>3. a = path
    BY ONLY <2>2, path \in Seq(STRING), SeqEqual
  <2> QED BY <2>1, <2>3
<1> QED BY <1>2, <1>3, <1>4

\* The c entries of new are not there yet, and what they go through is there
\* or among them; J finds the old ones and the new ones.
Adds(E, I, c, new, J) ==
    /\ c \in Nat /\ new \in [1 .. c -> Entries]
    /\ \A n \in 1 .. c : new[n].key \notin DOMAIN I
    /\ \A n, m \in 1 .. c : new[n].key = new[m].key => n = m
    /\ \A n \in 1 .. c : \A k \in 1 .. Len(new[n].key[2]) - 1 :
          \/ <<new[n].key[1], SubSeq(new[n].key[2], 1, k)>> \in DOMAIN I
          \/ \E m \in 1 .. c : new[m].key = <<new[n].key[1], SubSeq(new[n].key[2], 1, k)>>
    /\ DOMAIN J = DOMAIN I \cup {new[n].key : n \in 1 .. c}
    /\ \A n \in 1 .. c : J[new[n].key] = Len(E) + n
    /\ \A key \in DOMAIN I : J[key] = I[key]

(* Entries that are new, with what they go through, are added.              *)
LEMMA AddedKeeps ==
    ASSUME NEW E, NEW I, TableIs(E, I), NEW c, NEW new, NEW J, Adds(E, I, c, new, J)
    PROVE  TableIs(E \o new, J)
<1>0. /\ c \in Nat /\ new \in [1 .. c -> Entries]
      /\ \A n \in 1 .. c : new[n].key \notin DOMAIN I
      /\ DOMAIN J = DOMAIN I \cup {new[n].key : n \in 1 .. c}
      /\ \A n \in 1 .. c : J[new[n].key] = Len(E) + n
      /\ \A key \in DOMAIN I : J[key] = I[key]
  BY DEF Adds
<1>1. E \in Seq(Entries) /\ new \in Seq(Entries) /\ Len(new) = c /\ Len(E) \in Nat
  BY <1>0, FunctionIsSeq, LenProperties DEF TableIs
<1>2. PICK l \in Nat : l = Len(E)
  BY <1>1
<1>3. PICK F : F = E \o new
  OBVIOUS
<1>4. /\ F \in Seq(Entries) /\ Len(F) = l + c
      /\ \A n \in 1 .. l + c : F[n] = IF n <= l THEN E[n] ELSE new[n - l]
  <2>1. /\ F \in Seq(Entries) /\ Len(F) = Len(E) + Len(new)
        /\ \A n \in 1 .. Len(E) + Len(new) : F[n] = IF n <= Len(E) THEN E[n] ELSE new[n - Len(E)]
    BY ONLY <1>1, <1>3, ConcatProperties
  <2> QED BY ONLY <2>1, <1>1, <1>2
<1>5. \A n \in 1 .. l : F[n] = E[n] /\ n \in 1 .. l + c
  <2> TAKE n \in 1 .. l
  <2>1. n \in 1 .. l + c /\ n <= l
    BY <1>0, <1>2
  <2> QED BY ONLY <2>1, <1>4
<1>6. \A n \in 1 .. c : F[l + n] = new[n] /\ l + n \in 1 .. l + c
  <2> TAKE n \in 1 .. c
  <2>1. l + n \in 1 .. l + c /\ ~(l + n <= l) /\ l + n - l = n
    BY <1>0, <1>2
  <2>2. F[l + n] = new[l + n - l]
    BY ONLY <2>1, <1>4
  <2> QED BY ONLY <2>1, <2>2
<1>7. \A n \in 1 .. l + c : n \in 1 .. l \/ \E m \in 1 .. c : n = l + m
  <2> TAKE n \in 1 .. l + c
  <2>1. n <= l \/ (n - l \in 1 .. c /\ n = l + (n - l))
    BY <1>0, <1>2
  <2> QED BY <2>1
<1>8. DOMAIN J = {F[n].key : n \in 1 .. l + c}
  <2>1. DOMAIN I = {E[n].key : n \in 1 .. l}
    BY <1>2 DEF TableIs
  <2>2. \A n \in 1 .. l + c : F[n].key \in DOMAIN J
    <3> TAKE n \in 1 .. l + c
    <3>1. CASE n \in 1 .. l
      <4>1. F[n] = E[n] /\ E[n].key \in DOMAIN I
        BY <3>1, <2>1, <1>5
      <4> QED BY ONLY <4>1, <1>0
    <3>2. CASE \E m \in 1 .. c : n = l + m
      <4>1. PICK m \in 1 .. c : n = l + m
        BY <3>2
      <4>2. F[n] = new[m]
        BY <4>1, <1>6
      <4>3. new[m].key \in DOMAIN J
        BY <1>0
      <4> QED BY ONLY <4>2, <4>3
    <3> QED BY <3>1, <3>2, <1>7
  <2>3. \A n \in 1 .. l : E[n].key \in {F[i].key : i \in 1 .. l + c}
    BY <1>5
  <2>4. \A n \in 1 .. c : new[n].key \in {F[i].key : i \in 1 .. l + c}
    <3> TAKE n \in 1 .. c
    <3>1. F[l + n] = new[n] /\ l + n \in 1 .. l + c
      BY <1>6
    <3>2. F[l + n].key \in {F[i].key : i \in 1 .. l + c}
      BY <3>1
    <3> QED BY <3>1, <3>2
  <2>5. ASSUME NEW x \in DOMAIN J PROVE x \in {F[i].key : i \in 1 .. l + c}
    <3>1. x \in {E[n].key : n \in 1 .. l} \/ x \in {new[n].key : n \in 1 .. c}
      BY ONLY <2>1, <2>5, <1>0
    <3> QED BY ONLY <3>1, <2>3, <2>4
  <2>6. \A x \in {F[i].key : i \in 1 .. l + c} : x \in DOMAIN J
    BY ONLY <2>2
  <2> QED BY ONLY <2>5, <2>6
<1>9. ASSUME NEW n \in 1 .. l + c PROVE J[F[n].key] = n
  <2>1. CASE n \in 1 .. l
    <3>1. F[n] = E[n] /\ E[n].key \in DOMAIN I /\ I[E[n].key] = n
      BY <1>2, <1>5, <2>1 DEF TableIs
    <3>2. J[E[n].key] = n
      BY <1>0, <3>1
    <3> QED BY <3>1, <3>2
  <2>2. CASE \E m \in 1 .. c : n = l + m
    <3>1. PICK m \in 1 .. c : n = l + m
      BY <2>2
    <3>2. F[n] = new[m]
      BY <3>1, <1>6
    <3>3. J[new[m].key] = l + m
      BY <1>0, <1>2
    <3> QED BY <3>1, <3>2, <3>3
  <2> QED BY <2>1, <2>2, <1>7
<1>10. ASSUME NEW key \in DOMAIN J, NEW k \in 1 .. Len(key[2]) - 1
       PROVE  <<key[1], SubSeq(key[2], 1, k)>> \in DOMAIN J
  <2>1. CASE key \in DOMAIN I
    <3>1. <<key[1], SubSeq(key[2], 1, k)>> \in DOMAIN I
      BY <2>1 DEF TableIs
    <3> QED BY <3>1, <1>0
  <2>2. CASE \E n \in 1 .. c : key = new[n].key
    <3>1. PICK n \in 1 .. c : key = new[n].key
      BY <2>2
    <3>2. k \in 1 .. Len(new[n].key[2]) - 1
      BY <3>1
    <3>3. PICK x : x = <<new[n].key[1], SubSeq(new[n].key[2], 1, k)>>
      OBVIOUS
    <3>4. x \in DOMAIN I \/ \E m \in 1 .. c : new[m].key = x
      <4> DEFINE Comes(z, i) == \/ <<z[1], SubSeq(z[2], 1, i)>> \in DOMAIN I
                                \/ \E m \in 1 .. c : new[m].key = <<z[1], SubSeq(z[2], 1, i)>>
      <4>1. \A o \in 1 .. c : \A i \in 1 .. Len(new[o].key[2]) - 1 : Comes(new[o].key, i)
        BY DEF Adds
      <4> HIDE DEF Comes
      <4>2. Comes(new[n].key, k)
        BY ONLY <4>1, <3>2
      <4> QED BY ONLY <4>2, <3>3 DEF Comes
    <3>5. x \in DOMAIN J
      BY <3>4, <1>0
    <3> QED BY <3>1, <3>3, <3>5
  <2>3. key \in DOMAIN I \/ \E n \in 1 .. c : key = new[n].key
    BY <1>0
  <2> QED BY <2>1, <2>2, <2>3
<1>11. TableIs(F, J)
  BY ONLY <1>4, <1>8, <1>9, <1>10 DEF TableIs
<1> QED BY <1>3, <1>11

(* A file's bytes and its attributes have no part in that.                  *)
LEMMA MarkedKeeps ==
    ASSUME NEW E, NEW I, TableIs(E, I), NEW F, Len(F) = Len(E), F \in Seq(Entries),
           \A n \in 1 .. Len(E) : F[n].key = E[n].key
    PROVE  TableIs(F, I)
<1>1. DOMAIN I = {F[n].key : n \in 1 .. Len(F)}
  <2>1. DOMAIN I = {E[n].key : n \in 1 .. Len(E)}
    BY DEF TableIs
  <2> QED BY <2>1
<1>2. \A n \in 1 .. Len(F) : I[F[n].key] = n
  BY DEF TableIs
<1>3. \A key \in DOMAIN I : \A k \in 1 .. Len(key[2]) - 1 : <<key[1], SubSeq(key[2], 1, k)>> \in DOMAIN I
  BY DEF TableIs
<1> QED BY ONLY <1>1, <1>2, <1>3, F \in Seq(Entries) DEF TableIs

FilesShape(v) ==
    v = [entries |-> v.entries, index |-> v.index, packages |-> v.packages, roots |-> v.roots,
         nextDevice |-> v.nextDevice, links |-> v.links, first |-> v.first, handles |-> v.handles]

(* Where a path leaves what is there.                                       *)
LEMMA NearestIs ==
    ASSUME NEW last \in Nat, last > 0, NEW T \in SUBSET (1 .. last - 1)
    PROVE  /\ Max({0} \cup T) \in 0 .. last - 1
           /\ Max({0} \cup T) = 0 \/ Max({0} \cup T) \in T
           /\ \A n \in T : n <= Max({0} \cup T)
<1> DEFINE S == {0} \cup T
<1>1. S \in SUBSET Nat /\ S # {} /\ last - 1 \in Nat /\ \A x \in S : x <= last - 1
  OBVIOUS
<1>2. \E x \in S : \A y \in S : y <= x
  <2> HIDE DEF S
  <2> QED BY ONLY <1>1, GreatestExists
<1>3. Max(S) \in S /\ \A y \in S : y <= Max(S)
  <2>1. \E x \in S : \A y \in S : x >= y
    BY <1>1, <1>2
  <2> HIDE DEF S
  <2> QED BY <2>1 DEF Max
<1>4. PICK m : m = Max(S)
  OBVIOUS
<1>5. m \in S /\ \A y \in S : y <= m
  BY <1>3, <1>4
<1>6. m \in 0 .. last - 1 /\ (m = 0 \/ m \in T) /\ \A n \in T : n <= m
  BY ONLY <1>5, last \in Nat, last > 0, T \in SUBSET (1 .. last - 1)
<1> QED BY <1>4, <1>6

(* r is t with more entries of the device, one of them at the path.         *)
Registers(t, device, path, r) ==
    /\ r = [t EXCEPT !.entries = r.entries, !.index = r.index]
    /\ TableIs(r.entries, r.index) /\ <<device, path>> \in DOMAIN r.index
    /\ \A key \in DOMAIN r.index : key \in DOMAIN t.index \/ key[1] = device

(* A registered path is there, with what it goes through, and nothing else  *)
(* has moved (RegisterVfsEntryOn).                                          *)
LEMMA RegisteredKeeps ==
    ASSUME NEW t, FilesShape(t), TableIs(t.entries, t.index), NEW device \in Int,
           NEW path \in Seq(STRING), path # <<>>, NEW directory \in BOOLEAN
    PROVE  Registers(t, device, path, Registered(t, device, path, directory))
<1> DEFINE Key(n) == <<device, SubSeq(path, 1, n)>>
           last == Len(path)
           T == {n \in 1 .. last - 1 : Key(n) \in DOMAIN t.index}
           near == Max({0} \cup T)
           again == Key(last) \in DOMAIN t.index
           count == (IF again THEN last - 1 ELSE last) - near
           new == [n \in 1 .. count |-> [key |-> Key(near + n), by |-> NoFile,
                                        directory |-> near + n < last \/ directory]]
           places == [key \in {new[n].key : n \in 1 .. count} |->
                         Len(t.entries) + Len(key[2]) - near]
           E == t.entries \o new
           J == Over(places, t.index)
           added == [t EXCEPT !.entries = E, !.index = J]
           r == Registered(t, device, path, directory)
<1> SUFFICES /\ r = [t EXCEPT !.entries = r.entries, !.index = r.index]
             /\ TableIs(r.entries, r.index) /\ <<device, path>> \in DOMAIN r.index
             /\ \A key \in DOMAIN r.index : key \in DOMAIN t.index \/ key[1] = device
  BY DEF Registers
<1>1. r = IF again THEN [added EXCEPT !.entries[t.index[Key(last)]].directory = directory] ELSE added
  BY DEF Registered
<1>2. last \in Nat /\ last > 0
  BY LenProperties, EmptySeq
<1>3. near \in 0 .. last - 1 /\ (\A n \in T : n <= near) /\ (near = 0 \/ near \in T)
  <2>1. T \in SUBSET (1 .. last - 1)
    OBVIOUS
  <2> HIDE DEF T, last
  <2> QED BY <2>1, <1>2, NearestIs
<1> HIDE DEF near
<1>4. \A n \in near + 1 .. last - 1 : Key(n) \notin DOMAIN t.index
  <2> TAKE n \in near + 1 .. last - 1
  <2>1. n \in 1 .. last - 1 /\ ~(n <= near)
    BY <1>2, <1>3
  <2> QED BY <2>1, <1>3
<1>5. /\ \A n \in 1 .. last : /\ SubSeq(path, 1, n) \in Seq(STRING) /\ Len(SubSeq(path, 1, n)) = n
                              /\ \A j \in 1 .. n : SubSeq(SubSeq(path, 1, n), 1, j) = SubSeq(path, 1, j)
      /\ SubSeq(path, 1, last) = path
  <2>1. \A n \in 1 .. last : n \in 0 .. last /\ \A j \in 1 .. n : j \in 0 .. n
    BY <1>2
  <2>2. last \in 0 .. last
    BY <1>2
  <2> QED BY <2>1, <2>2, PathsBegin
<1>6. CASE again
  <2>1. \A k \in 1 .. last - 1 : Key(k) \in DOMAIN t.index
    <3> TAKE k \in 1 .. last - 1
    <3>1. PICK key : key = Key(last)
      OBVIOUS
    <3>2. key \in DOMAIN t.index /\ key[1] = device /\ key[2] = path /\ k \in 1 .. Len(key[2]) - 1
      BY <1>5, <1>6, <3>1
    <3>3. <<key[1], SubSeq(key[2], 1, k)>> \in DOMAIN t.index
      BY <3>2 DEF TableIs
    <3> QED BY <3>2, <3>3
  <2>2. near = last - 1
    <3>1. last - 1 = 0 \/ last - 1 \in T
      <4> HIDE DEF last, again
      <4>1. last - 1 = 0 \/ last - 1 \in 1 .. last - 1
        BY ONLY <1>2
      <4> QED BY <4>1, <2>1
    <3> HIDE DEF T
    <3>2. PICK l \in Nat : l = last /\ l > 0
      BY <1>2
    <3>3. near \in 0 .. l - 1 /\ (\A n \in T : n <= near) /\ (l - 1 = 0 \/ l - 1 \in T)
      BY ONLY <3>1, <3>2, <1>3
    <3>4. near = l - 1
      BY ONLY <3>2, <3>3
    <3> QED BY <3>2, <3>4
  <2>3. count = 0
    BY <1>2, <1>6, <2>2
  <2>4. new = <<>> /\ DOMAIN places = {}
    <3>1. 1 .. count = {}
      BY <2>3
    <3> HIDE DEF count
    <3>2. DOMAIN places = {}
      BY <3>1
    <3>3. new \in [1 .. 0 -> Entries]
      BY <2>3
    <3> HIDE DEF new
    <3>4. new \in Seq(Entries) /\ Len(new) = 0
      BY <3>3, FunctionIsSeq
    <3>5. new = <<>>
      BY <3>4, EmptySeq, SeqEqual
    <3> QED BY <3>2, <3>5
  <2>5. E = t.entries
    <3>1. t.entries \in Seq(Entries)
      BY DEF TableIs
    <3> QED BY <3>1, <2>4, ConcatEmptySeq
  <2>6. DOMAIN J = DOMAIN t.index /\ \A key \in DOMAIN t.index : J[key] = t.index[key]
    <3> HIDE DEF places
    <3> QED BY <2>4 DEF Over
  <2> HIDE DEF E, J, new, places, again
  <2>7. PICK i : i = t.index[Key(last)]
    OBVIOUS
  <2>8. i \in 1 .. Len(t.entries) /\ t.entries \in Seq(Entries) /\ Key(last) \in DOMAIN t.index
    <3>1. Key(last) \in DOMAIN t.index /\ t.entries \in Seq(Entries)
      BY <1>6 DEF TableIs, again
    <3>2. PICK n \in 1 .. Len(t.entries) : Key(last) = t.entries[n].key
      BY <3>1 DEF TableIs
    <3>3. i = n
      BY <2>7, <3>2 DEF TableIs
    <3> QED BY <3>1, <3>3
  <2>9. PICK F : F = [t.entries EXCEPT ![i].directory = directory]
    OBVIOUS
  <2>10. /\ F \in Seq(Entries) /\ Len(F) = Len(t.entries)
         /\ \A n \in 1 .. Len(t.entries) : F[n].key = t.entries[n].key
    <3>1. PICK l \in Nat : l = Len(t.entries) /\ t.entries \in [1 .. l -> Entries]
      BY <2>8, LenProperties
    <3>2. F \in [1 .. l -> Entries] /\ \A n \in 1 .. l : F[n].key = t.entries[n].key
      BY <3>1, <2>8, <2>9 DEF Entries
    <3> QED BY <3>1, <3>2, FunctionIsSeq
  <2>11. r = [t EXCEPT !.entries = F, !.index = J]
    BY <1>1, <1>6, <2>5, <2>7, <2>9 DEF FilesShape
  <2>12. TableIs(F, t.index)
    BY <2>10, MarkedKeeps
  <2>13. TableIs(F, J)
    BY <2>6, <2>12 DEF TableIs
  <2>14. r.entries = F /\ r.index = J
    BY <2>11 DEF FilesShape
  <2>15. <<device, path>> \in DOMAIN J
    BY <1>5, <2>6, <2>8
  <2> QED BY <2>6, <2>11, <2>13, <2>14, <2>15
<1>7. CASE ~again
  <2>1. count \in Nat /\ count > 0 /\ near + count = last /\ near \in Nat
    BY <1>2, <1>3, <1>7
  <2>2. \A n \in 1 .. count : near + n \in 1 .. last
    BY <1>2, <1>3, <2>1
  <2> HIDE DEF count
  <2>3. \A n \in 1 .. count : Key(near + n) \notin DOMAIN t.index
    <3> TAKE n \in 1 .. count
    <3>1. CASE near + n = last
      BY <3>1, <1>7
    <3>2. CASE near + n # last
      <4>1. near + n \in near + 1 .. last - 1
        BY <2>1, <3>2
      <4> QED BY <4>1, <1>4
    <3> QED BY <3>1, <3>2
  <2>4. \A n \in 1 .. count : new[n].key = Key(near + n) /\ new[n].key[1] = device
                              /\ new[n].key[2] = SubSeq(path, 1, near + n)
    OBVIOUS
  <2>5. new \in [1 .. count -> Entries]
    <3>1. \A n \in 1 .. count : Key(near + n) \in Keys
      BY <1>5, <2>2 DEF Keys
    <3>2. NoFile \in Keys
      <4>1. PICK e : e = <<>> /\ e \in Seq(STRING)
        BY EmptySeq
      <4>2. PICK m \in Int : m = -1
        OBVIOUS
      <4>3. <<m, e>> \in Keys
        BY ONLY <4>1, m \in Int DEF Keys
      <4> QED BY ONLY <4>1, <4>2, <4>3 DEF NoFile
    <3> QED BY <3>1, <3>2 DEF Entries
  <2>6. DOMAIN J = DOMAIN t.index \cup {new[n].key : n \in 1 .. count}
    BY DEF Over
  <2>7. \A n \in 1 .. count : J[new[n].key] = Len(t.entries) + n
    <3> TAKE n \in 1 .. count
    <3>1. J[new[n].key] = places[new[n].key]
      BY DEF Over
    <3>2. places[new[n].key] = Len(t.entries) + Len(new[n].key[2]) - near
      OBVIOUS
    <3>3. Len(new[n].key[2]) = near + n
      BY <1>5, <2>2, <2>4
    <3>4. Len(t.entries) \in Nat
      BY LenProperties DEF TableIs
    <3> HIDE DEF J, places, new
    <3> QED BY <3>1, <3>2, <3>3, <3>4, <2>1
  <2>8. \A key \in DOMAIN t.index : J[key] = t.index[key]
    <3> TAKE key \in DOMAIN t.index
    <3>1. key \notin DOMAIN places
      BY <2>3, <2>4
    <3> HIDE DEF places
    <3> QED BY <3>1 DEF Over
  <2>9. \A n, m \in 1 .. count : new[n].key = new[m].key => n = m
    <3> TAKE n \in 1 .. count, m \in 1 .. count
    <3>1. Len(new[n].key[2]) = near + n /\ Len(new[m].key[2]) = near + m
      BY <1>5, <2>2, <2>4
    <3> HIDE DEF new
    <3> QED BY <3>1, <2>1
  <2>10. \A n \in 1 .. count : \A k \in 1 .. Len(new[n].key[2]) - 1 :
            \/ <<new[n].key[1], SubSeq(new[n].key[2], 1, k)>> \in DOMAIN t.index
            \/ \E m \in 1 .. count : new[m].key = <<new[n].key[1], SubSeq(new[n].key[2], 1, k)>>
    <3> TAKE n \in 1 .. count
    <3> TAKE k \in 1 .. Len(new[n].key[2]) - 1
    <3>1. new[n].key[1] = device /\ new[n].key[2] = SubSeq(path, 1, near + n) /\ near + n \in 1 .. last
      BY <2>2, <2>4
    <3>2. Len(new[n].key[2]) = near + n
      BY <1>5, <3>1
    <3>3. k \in 1 .. near + n - 1
      BY <3>2, <2>1
    <3>4. SubSeq(new[n].key[2], 1, k) = SubSeq(path, 1, k)
      <4>1. k \in 1 .. near + n
        BY <3>3, <2>1
      <4> QED BY <4>1, <1>5, <3>1
    <3>5. <<new[n].key[1], SubSeq(new[n].key[2], 1, k)>> = Key(k)
      BY <3>1, <3>4
    <3>6. CASE k <= near
      <4>1. k \in 1 .. near /\ near # 0
        BY <3>3, <3>6, <2>1
      <4>2. Key(near) \in DOMAIN t.index
        BY <4>1, <1>3
      <4>3. CASE k = near
        BY <4>2, <4>3, <3>5
      <4>4. CASE k # near
        <5>1. PICK key : key = Key(near)
          OBVIOUS
        <5>2. near \in 1 .. last /\ k \in 1 .. near - 1 /\ k \in 1 .. near
          BY <4>1, <4>4, <1>2, <1>3
        <5>3. key[1] = device /\ key[2] = SubSeq(path, 1, near) /\ Len(key[2]) = near
          BY <5>1, <5>2, <1>5
        <5>4. key \in DOMAIN t.index /\ k \in 1 .. Len(key[2]) - 1
          BY <5>1, <5>2, <5>3, <4>2
        <5>5. <<key[1], SubSeq(key[2], 1, k)>> \in DOMAIN t.index
          BY <5>4 DEF TableIs
        <5>6. SubSeq(key[2], 1, k) = SubSeq(path, 1, k)
          BY <5>2, <5>3, <1>5
        <5> QED BY <5>3, <5>5, <5>6, <3>5
      <4> QED BY <4>3, <4>4
    <3>7. CASE ~(k <= near)
      <4>1. k - near \in 1 .. count /\ near + (k - near) = k
        BY <3>3, <3>7, <2>1
      <4>2. new[k - near].key = Key(near + (k - near))
        BY <4>1, <2>4
      <4> QED BY <4>1, <4>2, <3>5
    <3> QED BY <3>6, <3>7
  <2> HIDE DEF new, J, places
  <2>11. TableIs(E, J)
    <3>1. PICK I, A, n, K : I = t.index /\ A = t.entries /\ n = new /\ K = J
      OBVIOUS
    <3>a. TableIs(A, I) /\ count \in Nat /\ n \in [1 .. count -> Entries]
      BY <3>1, <2>1, <2>5
    <3>b. \A m \in 1 .. count : n[m].key \notin DOMAIN I
      BY ONLY <3>1, <2>3, <2>4
    <3>c. \A k, m \in 1 .. count : n[k].key = n[m].key => k = m
      BY ONLY <3>1, <2>9
    <3>d. \A m \in 1 .. count : \A k \in 1 .. Len(n[m].key[2]) - 1 :
              \/ <<n[m].key[1], SubSeq(n[m].key[2], 1, k)>> \in DOMAIN I
              \/ \E o \in 1 .. count : n[o].key = <<n[m].key[1], SubSeq(n[m].key[2], 1, k)>>
      BY ONLY <3>1, <2>10
    <3>e. /\ DOMAIN K = DOMAIN I \cup {n[m].key : m \in 1 .. count}
          /\ \A m \in 1 .. count : K[n[m].key] = Len(A) + m
          /\ \A key \in DOMAIN I : K[key] = I[key]
      BY ONLY <3>1, <2>6, <2>7, <2>8
    <3>2. TableIs(A \o n, K)
      <4>1. Adds(A, I, count, n, K)
        BY ONLY <3>a, <3>b, <3>c, <3>d, <3>e DEF Adds
      <4> QED BY ONLY <3>a, <4>1, AddedKeeps
    <3> QED BY <3>1, <3>2
  <2>12. r = [t EXCEPT !.entries = E, !.index = J]
    BY <1>1, <1>7
  <2> HIDE DEF E
  <2>13. r.entries = E /\ r.index = J
    BY <2>12 DEF FilesShape
  <2>14. <<device, path>> \in DOMAIN J
    <3>1. count \in 1 .. count /\ new[count].key = Key(last)
      BY <2>1, <2>4
    <3> QED BY <3>1, <1>5, <2>6
  <2>15. \A key \in DOMAIN J : key \in DOMAIN t.index \/ key[1] = device
    BY <2>4, <2>6
  <2> QED BY <2>11, <2>12, <2>13, <2>14, <2>15
<1> QED BY <1>6, <1>7

(* What is left of the entries is reached one by one.                       *)
LEMMA RemainingSteps ==
    ASSUME NEW E \in Seq(Entries), NEW K
    PROVE  \E after : /\ after[0] = <<>> /\ after[Len(E)] = Remaining(E, K)
                      /\ \A k \in 1 .. Len(E) : after[k] = WithKept(after[k - 1], E[k], K)
<1> DEFINE Good(m, g) == g = [k \in 0 .. m |-> IF k = 0 THEN <<>> ELSE WithKept(g[k - 1], E[k], K)]
           S == {m \in 0 .. Len(E) : ~\E g : Good(m, g)}
<1>1. Len(E) \in Nat
  BY LenProperties
<1>2. ASSUME S # {} PROVE FALSE
  <2>1. PICK m \in S : \A y \in S : m <= y
    <3>1. S \in SUBSET Nat
      BY <1>1
    <3> HIDE DEF S
    <3> QED BY <1>2, <3>1, LeastExists
  <2>2. m # 0
    <3>1. Good(0, [k \in 0 .. 0 |-> <<>>])
      OBVIOUS
    <3> QED BY <3>1, <2>1
  <2>3. m - 1 \in 0 .. Len(E) /\ m - 1 \notin S /\ m \in 0 .. Len(E)
    <3>1. m \in 0 .. Len(E)
      BY <2>1
    <3>2. m - 1 \in 0 .. Len(E) /\ ~(m <= m - 1)
      BY <3>1, <2>2, <1>1
    <3> HIDE DEF S
    <3> QED BY <3>1, <3>2, <2>1
  <2>4. PICK f : Good(m - 1, f)
    BY <2>3
  <2> DEFINE g == [k \in 0 .. m |-> IF k = m THEN WithKept(f[m - 1], E[m], K) ELSE f[k]]
  <2>5. \A n \in 0 .. m : g[n] = IF n = 0 THEN <<>> ELSE WithKept(g[n - 1], E[n], K)
    <3> TAKE n \in 0 .. m
    <3>0. n # m => n \in 0 .. m - 1 /\ (n # 0 => n - 1 \in 0 .. m - 1)
      BY <2>3
    <3>1. CASE n = m
      <4>1. m - 1 \in 0 .. m /\ m - 1 # m
        BY <2>2, <2>3
      <4>2. g[m - 1] = f[m - 1]
        BY <4>1
      <4>3. g[m] = WithKept(f[m - 1], E[m], K)
        BY <3>1
      <4> HIDE DEF g
      <4> QED BY <3>1, <2>2, <4>2, <4>3
    <3>2. CASE n # m
      <4>1. g[n] = f[n]
        BY <3>2
      <4>2. f[n] = IF n = 0 THEN <<>> ELSE WithKept(f[n - 1], E[n], K)
        BY <3>0, <3>2, <2>4, Zenon
      <4>3. n # 0 => g[n - 1] = f[n - 1]
        BY <3>0, <3>2, <2>3
      <4> HIDE DEF g
      <4> QED BY <4>1, <4>2, <4>3
    <3> QED BY <3>1, <3>2
  <2>6. Good(m, g)
    BY <2>5
  <2> QED BY <2>1, <2>6
<1>3. Len(E) \in 0 .. Len(E)
  BY <1>1
<1>4. \E g : Good(Len(E), g)
  <2> HIDE DEF Good
  <2> QED BY <1>2, <1>3
<1> DEFINE N == Len(E)
           after == CHOOSE g : Good(N, g)
<1>5. Remaining(E, K) = after[N]
  BY DEF Remaining
<1>6. Good(N, after)
  <2> HIDE DEF Good
  <2> QED BY <1>4, Zenon
<1> HIDE DEF after
<1>7. \A k \in 0 .. N : after[k] = IF k = 0 THEN <<>> ELSE WithKept(after[k - 1], E[k], K)
  BY <1>6, Zenon
<1>8. 0 \in 0 .. N /\ \A k \in 1 .. N : k \in 0 .. N /\ k # 0
  BY <1>1
<1>9. after[0] = <<>> /\ \A k \in 1 .. N : after[k] = WithKept(after[k - 1], E[k], K)
  <2> HIDE DEF N
  <2> QED BY <1>7, <1>8
<1> WITNESS after
<1> QED BY <1>5, <1>9

(* What is left are the entries that are kept, each once.                   *)
LEMMA RemainingIs ==
    ASSUME NEW E \in Seq(Entries), NEW K,
           \A n, m \in 1 .. Len(E) : E[n].key = E[m].key => n = m
    PROVE  LET F == Remaining(E, K)
           IN  /\ F \in Seq(Entries)
               /\ \A i \in 1 .. Len(F) : F[i] \in K /\ \E n \in 1 .. Len(E) : F[i] = E[n]
               /\ \A n \in 1 .. Len(E) : E[n] \in K => \E i \in 1 .. Len(F) : F[i] = E[n]
               /\ \A i, j \in 1 .. Len(F) : F[i].key = F[j].key => i = j
<1> DEFINE Good(k, F) ==
               /\ F \in Seq(Entries)
               /\ \A i \in 1 .. Len(F) : F[i] \in K /\ \E n \in 1 .. k : F[i] = E[n]
               /\ \A n \in 1 .. k : E[n] \in K => \E i \in 1 .. Len(F) : F[i] = E[n]
               /\ \A i, j \in 1 .. Len(F) : F[i].key = F[j].key => i = j
<1>1. PICK l \in Nat : l = Len(E)
  BY LenProperties
<1>2. PICK after : /\ after[0] = <<>> /\ after[l] = Remaining(E, K)
                   /\ \A k \in 1 .. l : after[k] = WithKept(after[k - 1], E[k], K)
  BY <1>1, RemainingSteps
<1> DEFINE S == {k \in 0 .. l : ~Good(k, after[k])}
<1>3. Good(0, after[0])
  <2>1. after[0] \in Seq(Entries) /\ Len(after[0]) = 0
    BY <1>2, EmptySeq
  <2> QED BY <2>1
<1>4. ASSUME NEW k \in 1 .. l, Good(k - 1, after[k - 1]) PROVE Good(k, after[k])
  <2>1. PICK G : G = after[k - 1]
    OBVIOUS
  <2>2. Good(k - 1, G)
    BY <1>4, <2>1
  <2>3. k \in Nat /\ (\A n \in 1 .. k - 1 : n \in 1 .. k) /\ (\A n \in 1 .. k : n \in 1 .. k - 1 \/ n = k)
        /\ k \in 1 .. k
    BY <1>1
  <2>4. CASE E[k] \in K
    <3>1. PICK F : F = Append(G, E[k])
      OBVIOUS
    <3>2. after[k] = F
      BY <1>2, <2>1, <2>4, <3>1 DEF WithKept
    <3>3. PICK g \in Nat : g = Len(G)
      BY <2>2, LenProperties
    <3>4. /\ F \in Seq(Entries) /\ Len(F) = g + 1 /\ F[g + 1] = E[k]
          /\ \A i \in 1 .. g : F[i] = G[i]
      <4>1. E[k] \in Entries /\ G \in Seq(Entries)
        BY <1>1, <2>2, ElementOfSeq
      <4> QED BY ONLY <4>1, <3>1, <3>3, AppendProperties
    <3>5. \A i \in 1 .. g + 1 : i \in 1 .. g \/ i = g + 1
      OBVIOUS
    <3>6. ASSUME NEW i \in 1 .. g + 1 PROVE F[i] \in K /\ \E n \in 1 .. k : F[i] = E[n]
      <4>1. CASE i \in 1 .. g
        <5>1. G[i] \in K /\ \E n \in 1 .. k - 1 : G[i] = E[n]
          BY <2>2, <3>3, <4>1
        <5> QED BY <5>1, <2>3, <3>4, <4>1
      <4>2. CASE i = g + 1
        BY <4>2, <2>3, <2>4, <3>4
      <4> QED BY <4>1, <4>2, <3>5
    <3>7. ASSUME NEW n \in 1 .. k, E[n] \in K PROVE \E i \in 1 .. g + 1 : F[i] = E[n]
      <4>1. CASE n \in 1 .. k - 1
        <5>1. PICK i \in 1 .. g : G[i] = E[n]
          BY <2>2, <3>3, <3>7, <4>1
        <5>2. i \in 1 .. g + 1
          OBVIOUS
        <5> QED BY <5>1, <5>2, <3>4
      <4>2. CASE n = k
        <5>1. g + 1 \in 1 .. g + 1
          OBVIOUS
        <5> QED BY <5>1, <4>2, <3>4
      <4> QED BY <4>1, <4>2, <2>3
    <3>8. ASSUME NEW i \in 1 .. g PROVE F[i].key # F[g + 1].key
      <4>1. PICK n \in 1 .. k - 1 : G[i] = E[n]
        BY <2>2, <3>3
      <4>2. n \in 1 .. l /\ k \in 1 .. l /\ n # k
        BY <1>1
      <4> QED BY <4>1, <4>2, <1>1, <3>4
    <3>9. ASSUME NEW i \in 1 .. g + 1, NEW j \in 1 .. g + 1, F[i].key = F[j].key PROVE i = j
      <4>1. CASE i \in 1 .. g /\ j \in 1 .. g
        <5>1. G[i].key = G[j].key
          BY <3>4, <3>9, <4>1
        <5> QED BY <5>1, <2>2, <3>3, <4>1
      <4>2. CASE i = g + 1 \/ j = g + 1
        BY <4>2, <3>5, <3>8, <3>9
      <4> QED BY <4>1, <4>2, <3>5
    <3>10. Good(k, F)
      BY ONLY <3>4, <3>6, <3>7, <3>9
    <3> QED BY <3>2, <3>10
  <2>5. CASE E[k] \notin K
    <3>1. after[k] = G
      BY <1>2, <2>1, <2>5 DEF WithKept
    <3>2. ASSUME NEW n \in 1 .. k, E[n] \in K PROVE \E i \in 1 .. Len(G) : G[i] = E[n]
      BY <2>2, <2>3, <2>5, <3>2
    <3>3. Good(k, G)
      BY ONLY <2>2, <2>3, <3>2
    <3> QED BY <3>1, <3>3
  <2> QED BY <2>4, <2>5
<1> HIDE DEF Good
<1>5. ASSUME S # {} PROVE FALSE
  <2>1. PICK m \in S : \A y \in S : m <= y
    <3>1. S \in SUBSET Nat
      BY <1>1
    <3> HIDE DEF S
    <3> QED BY <1>5, <3>1, LeastExists
  <2>2. m \in 0 .. l /\ ~Good(m, after[m])
    BY <2>1
  <2>3. m # 0
    BY <1>3, <2>2
  <2>4. m - 1 \in 0 .. l /\ m \in 1 .. l /\ ~(m <= m - 1)
    BY <2>2, <2>3
  <2>5. Good(m - 1, after[m - 1])
    BY <2>1, <2>4
  <2> QED BY <2>2, <2>4, <2>5, <1>4
<1>6. Good(l, after[l])
  <2>1. l \in 0 .. l
    BY <1>1
  <2> QED BY <1>5, <2>1
<1>7. Good(l, Remaining(E, K))
  BY <1>2, <1>6
<1> QED BY <1>1, <1>7 DEF Good

(* What the loader registers is reached path by path.                       *)
LEMMA DiscSteps ==
    ASSUME Len(DiscPaths) \in Nat
    PROVE  \E after : /\ after[0] = NoFiles /\ after[Len(DiscPaths)] = DiscFiles
                      /\ \A k \in 1 .. Len(DiscPaths) :
                            after[k] = Registered(after[k - 1], Disc, DiscPaths[k], FALSE)
<1> DEFINE Good(m, g) == g = [k \in 0 .. m |-> IF k = 0 THEN NoFiles ELSE Registered(g[k - 1], Disc, DiscPaths[k], FALSE)]
           S == {m \in 0 .. Len(DiscPaths) : ~\E g : Good(m, g)}
<1>1. Len(DiscPaths) \in Nat
  OBVIOUS
<1>2. ASSUME S # {} PROVE FALSE
  <2>1. PICK m \in S : \A y \in S : m <= y
    <3> HIDE DEF Good
    <3>1. S \in SUBSET Nat
      BY <1>1
    <3> HIDE DEF S
    <3> QED BY <1>2, <3>1, LeastExists
  <2>2. m # 0
    <3>1. Good(0, [k \in 0 .. 0 |-> NoFiles])
      OBVIOUS
    <3> QED BY <3>1, <2>1
  <2>3. m - 1 \in 0 .. Len(DiscPaths) /\ m - 1 \notin S /\ m \in 0 .. Len(DiscPaths)
    <3>1. m \in 0 .. Len(DiscPaths)
      BY <2>1
    <3>2. m - 1 \in 0 .. Len(DiscPaths) /\ ~(m <= m - 1)
      BY <3>1, <2>2, <1>1
    <3> HIDE DEF S
    <3> QED BY <3>1, <3>2, <2>1
  <2>4. PICK f : Good(m - 1, f)
    BY <2>3
  <2> DEFINE g == [k \in 0 .. m |-> IF k = m THEN Registered(f[m - 1], Disc, DiscPaths[m], FALSE) ELSE f[k]]
  <2>5. \A n \in 0 .. m : g[n] = IF n = 0 THEN NoFiles ELSE Registered(g[n - 1], Disc, DiscPaths[n], FALSE)
    <3> TAKE n \in 0 .. m
    <3>0. n # m => n \in 0 .. m - 1 /\ (n # 0 => n - 1 \in 0 .. m - 1)
      BY <2>3
    <3>1. CASE n = m
      <4>1. m - 1 \in 0 .. m /\ m - 1 # m
        BY <2>2, <2>3
      <4>2. g[m - 1] = f[m - 1]
        BY <4>1
      <4>3. g[m] = Registered(f[m - 1], Disc, DiscPaths[m], FALSE)
        BY <3>1
      <4> HIDE DEF g
      <4> QED BY <3>1, <2>2, <4>2, <4>3
    <3>2. CASE n # m
      <4>1. g[n] = f[n]
        BY <3>2
      <4>2. f[n] = IF n = 0 THEN NoFiles ELSE Registered(f[n - 1], Disc, DiscPaths[n], FALSE)
        BY <3>0, <3>2, <2>4, Zenon
      <4>3. n # 0 => g[n - 1] = f[n - 1]
        BY <3>0, <3>2, <2>3
      <4> HIDE DEF g
      <4> QED BY <4>1, <4>2, <4>3
    <3> QED BY <3>1, <3>2
  <2>6. Good(m, g)
    BY <2>5
  <2> QED BY <2>1, <2>6
<1>3. Len(DiscPaths) \in 0 .. Len(DiscPaths)
  BY <1>1
<1>4. \E g : Good(Len(DiscPaths), g)
  <2> HIDE DEF Good
  <2> QED BY <1>2, <1>3
<1> DEFINE N == Len(DiscPaths)
           after == CHOOSE g : Good(N, g)
<1>5. DiscFiles = after[N]
  BY DEF DiscFiles
<1>6. Good(N, after)
  <2> HIDE DEF Good
  <2> QED BY <1>4, Zenon
<1> HIDE DEF after
<1>7. \A k \in 0 .. N : after[k] = IF k = 0 THEN NoFiles ELSE Registered(after[k - 1], Disc, DiscPaths[k], FALSE)
  BY <1>6, Zenon
<1>8. 0 \in 0 .. N /\ \A k \in 1 .. N : k \in 0 .. N /\ k # 0
  BY <1>1
<1>9. after[0] = NoFiles /\ \A k \in 1 .. N : after[k] = Registered(after[k - 1], Disc, DiscPaths[k], FALSE)
  <2> HIDE DEF N
  <2> QED BY <1>7, <1>8
<1> WITNESS after
<1> QED BY <1>5, <1>9

(* What is left when the files of some devices go is a table again, without *)
(* theirs (DeleteContentFiles).                                             *)
LEMMA DeletedKeeps ==
    ASSUME NEW t, FilesShape(t), TableIs(t.entries, t.index), NEW devices
    PROVE  LET r == FilesDeleted(t, devices)
           IN  /\ r = [t EXCEPT !.entries = r.entries, !.index = r.index]
               /\ TableIs(r.entries, r.index)
               /\ \A key \in DOMAIN r.index : key \in DOMAIN t.index /\ key[1] \notin devices
<1> DEFINE E == t.entries
           K == {entry \in Range(E) : entry.key[1] \notin devices}
           F == Remaining(E, K)
           J == IndexOf(F)
           r == FilesDeleted(t, devices)
<1>1. E \in Seq(Entries) /\ (\A n \in 1 .. Len(E) : t.index[E[n].key] = n)
      /\ DOMAIN t.index = {E[n].key : n \in 1 .. Len(E)}
  BY DEF TableIs
<1>2. \A n, m \in 1 .. Len(E) : E[n].key = E[m].key => n = m
  BY <1>1
<1>3. /\ F \in Seq(Entries)
      /\ \A i \in 1 .. Len(F) : F[i] \in K /\ \E n \in 1 .. Len(E) : F[i] = E[n]
      /\ \A n \in 1 .. Len(E) : E[n] \in K => \E i \in 1 .. Len(F) : F[i] = E[n]
      /\ \A i, j \in 1 .. Len(F) : F[i].key = F[j].key => i = j
  <2> HIDE DEF E, K
  <2> QED BY ONLY <1>1, <1>2, RemainingIs
<1>4. r = [t EXCEPT !.entries = F, !.index = J]
  BY DEF FilesDeleted, Without
<1>5. r.entries = F /\ r.index = J
  BY <1>4 DEF FilesShape
<1>6. \A n \in 1 .. Len(E) : E[n] \in K <=> E[n].key[1] \notin devices
  <2>1. DOMAIN E = 1 .. Len(E)
    BY <1>1, LenProperties
  <2> QED BY <2>1 DEF Range
<1> HIDE DEF F, K, E
<1>7. DOMAIN F = 1 .. Len(F)
  BY <1>3, LenProperties
<1>8. DOMAIN J = {F[n].key : n \in 1 .. Len(F)} /\ \A n \in 1 .. Len(F) : J[F[n].key] = n
  <2>1. J = [key \in {F[n].key : n \in 1 .. Len(F)} |-> CHOOSE n \in 1 .. Len(F) : F[n].key = key]
    BY <1>7 DEF IndexOf
  <2> HIDE DEF J
  <2>2. ASSUME NEW n \in 1 .. Len(F) PROVE J[F[n].key] = n
    <3>1. J[F[n].key] = CHOOSE m \in 1 .. Len(F) : F[m].key = F[n].key
      BY <2>1
    <3>2. (CHOOSE m \in 1 .. Len(F) : F[m].key = F[n].key) \in {m \in 1 .. Len(F) : F[m].key = F[n].key}
      OBVIOUS
    <3> QED BY <3>1, <3>2, <1>3
  <2> QED BY <2>1, <2>2
<1> HIDE DEF J
<1>9. ASSUME NEW key \in DOMAIN J
      PROVE  /\ key \in DOMAIN t.index /\ key[1] \notin devices
             /\ \A k \in 1 .. Len(key[2]) - 1 : <<key[1], SubSeq(key[2], 1, k)>> \in DOMAIN J
  <2>1. PICK i \in 1 .. Len(F) : key = F[i].key
    BY <1>8
  <2>2. PICK n \in 1 .. Len(E) : F[i] = E[n] /\ E[n] \in K
    BY <1>3, <2>1
  <2>3. key \in DOMAIN t.index /\ key[1] \notin devices
    BY <1>1, <1>6, <2>1, <2>2
  <2>4. ASSUME NEW k \in 1 .. Len(key[2]) - 1 PROVE <<key[1], SubSeq(key[2], 1, k)>> \in DOMAIN J
    <3>1. PICK x : x = <<key[1], SubSeq(key[2], 1, k)>>
      OBVIOUS
    <3>2. x \in DOMAIN t.index /\ x[1] = key[1]
      BY <2>3, <3>1 DEF TableIs
    <3>3. PICK m \in 1 .. Len(E) : x = E[m].key
      BY <1>1, <3>2
    <3>4. E[m] \in K
      BY <1>6, <2>3, <3>2, <3>3
    <3>5. PICK j \in 1 .. Len(F) : F[j] = E[m]
      BY <1>3, <3>4
    <3>6. x = F[j].key
      BY <3>3, <3>5
    <3> QED BY ONLY <1>8, <3>1, <3>6
  <2> QED BY <2>3, <2>4
<1>10. TableIs(F, J)
  BY ONLY <1>3, <1>8, <1>9 DEF TableIs
<1> QED BY <1>4, <1>5, <1>9, <1>10

(* The disc's files are a table.                                            *)
LEMMA DiscIs ==
    /\ TableIs(DiscFiles.entries, DiscFiles.index)
    /\ \A key \in DOMAIN DiscFiles.index : key[1] = Disc
    /\ DiscFiles = [NoFiles EXCEPT !.entries = DiscFiles.entries, !.index = DiscFiles.index]
<1> DEFINE Good(v) == /\ TableIs(v.entries, v.index) /\ \A key \in DOMAIN v.index : key[1] = Disc
                      /\ v = [NoFiles EXCEPT !.entries = v.entries, !.index = v.index]
<1>1. PICK l \in Nat : l = Len(DiscPaths) /\ DiscPaths \in Seq(Seq(STRING) \ {<<>>})
  BY ContentFilesAssumption, LenProperties
<1>2. PICK after : /\ after[0] = NoFiles /\ after[l] = DiscFiles
                   /\ \A k \in 1 .. l : after[k] = Registered(after[k - 1], Disc, DiscPaths[k], FALSE)
  BY <1>1, DiscSteps
<1>3. Good(after[0])
  <2>1. NoFiles.entries = <<>> /\ NoFiles.index = <<>> /\ DOMAIN <<>> = {}
    BY DEF NoFiles
  <2>2. <<>> \in Seq(Entries) /\ Len(<<>>) = 0
    BY EmptySeq
  <2>3. {<<>>[n].key : n \in 1 .. Len(<<>>)} = {}
    BY <2>2
  <2>4. TableIs(<<>>, <<>>)
    BY <2>1, <2>2, <2>3 DEF TableIs
  <2>5. NoFiles = [NoFiles EXCEPT !.entries = NoFiles.entries, !.index = NoFiles.index]
    BY DEF NoFiles
  <2> QED BY <1>2, <2>1, <2>4, <2>5
<1>4. ASSUME NEW k \in 1 .. l, Good(after[k - 1]) PROVE Good(after[k])
  <2>1. PICK t : t = after[k - 1]
    OBVIOUS
  <2>2. Good(t)
    BY <1>4, <2>1
  <2>3. FilesShape(t)
    <3>1. t = [NoFiles EXCEPT !.entries = t.entries, !.index = t.index]
      BY <2>2
    <3>2. PICK e, i : e = t.entries /\ i = t.index
      OBVIOUS
    <3> QED BY <3>1, <3>2 DEF FilesShape, NoFiles
  <2>4. PICK path \in Seq(STRING) : path = DiscPaths[k] /\ path # <<>>
    BY <1>1, ElementOfSeq
  <2>5. PICK r : r = Registered(t, Disc, path, FALSE)
    OBVIOUS
  <2>6. /\ r = [t EXCEPT !.entries = r.entries, !.index = r.index] /\ TableIs(r.entries, r.index)
        /\ \A key \in DOMAIN r.index : key \in DOMAIN t.index \/ key[1] = Disc
    <3>1. TableIs(t.entries, t.index) /\ FilesShape(t)
      BY <2>2, <2>3
    <3>2. PICK d \in Int : d = Disc
      BY DEF Disc
    <3>3. PICK b \in BOOLEAN : b = FALSE
      OBVIOUS
    <3>4. r = Registered(t, d, path, b)
      BY <2>5, <3>2, <3>3
    <3>5. path \in Seq(STRING) /\ path # <<>>
      BY <2>4
    <3>6. Registers(t, d, path, Registered(t, d, path, b))
      BY <3>1, <3>2, <3>3, <3>5, RegisteredKeeps
    <3> QED BY <3>2, <3>4, <3>6 DEF Registers
  <2>7. r = [NoFiles EXCEPT !.entries = r.entries, !.index = r.index]
    <3>1. PICK e, i, f, j : e = t.entries /\ i = t.index /\ f = r.entries /\ j = r.index
      OBVIOUS
    <3>2. t = [NoFiles EXCEPT !.entries = e, !.index = i] /\ r = [t EXCEPT !.entries = f, !.index = j]
      BY <2>2, <2>6, <3>1
    <3>3. r = [NoFiles EXCEPT !.entries = f, !.index = j]
      BY ONLY <3>2 DEF NoFiles
    <3> QED BY <3>1, <3>3
  <2>8. Good(r)
    BY <2>2, <2>6, <2>7
  <2>9. after[k] = r
    BY <1>2, <2>1, <2>4, <2>5
  <2> HIDE DEF Good
  <2> QED BY <2>8, <2>9
<1> HIDE DEF Good
<1> DEFINE S == {k \in 0 .. l : ~Good(after[k])}
<1>5. ASSUME S # {} PROVE FALSE
  <2>1. PICK m \in S : \A y \in S : m <= y
    <3>1. S \in SUBSET Nat
      BY <1>1
    <3> HIDE DEF S
    <3> QED BY <1>5, <3>1, LeastExists
  <2>2. m \in 0 .. l /\ ~Good(after[m])
    BY <2>1
  <2>3. m # 0
    BY <1>3, <2>2
  <2>4. m - 1 \in 0 .. l /\ m \in 1 .. l /\ ~(m <= m - 1)
    BY <2>2, <2>3
  <2>5. Good(after[m - 1])
    BY <2>1, <2>4
  <2> QED BY <2>2, <2>4, <2>5, <1>4
<1>6. Good(DiscFiles)
  <2>1. l \in 0 .. l
    BY <1>1
  <2> QED BY <1>2, <1>5, <2>1
<1> QED BY <1>6 DEF Good

-----------------------------------------------------------------------------
(* Links, packages and handles (ContentFiles)                                *)

DevicesOf(packages) == {Disc} \cup {packages[p] : p \in DOMAIN packages}

HandlesAre(handles) == \A h \in DOMAIN handles : handles[h].file \in Keys

(* Every entry is on a device there is.                                     *)
PackagesAre(packages, next, index) ==
    /\ next \in Int /\ \A p \in DOMAIN packages : packages[p] \in Int
    /\ \A key \in DOMAIN index : key[1] \in DevicesOf(packages)

(* A root that is mounted is a link too; the first link made brings game    *)
(* and d with it unless content makes it.                                   *)
NamesAre(roots, links, first, devices) ==
    /\ DOMAIN roots \subseteq Roots
    /\ \A r \in DOMAIN roots : r \in DOMAIN links /\ links[r] = roots[r] /\ roots[r] \in devices
    /\ DOMAIN links = {} => first = "nobody"
    /\ DOMAIN links # {} /\ first # "content" =>
          {"game", "d"} \subseteq DOMAIN links /\ links["game"] = Disc

ContentIn(v) ==
    /\ FilesShape(v) /\ TableIs(v.entries, v.index)
    /\ HandlesAre(v.handles) /\ PackagesAre(v.packages, v.nextDevice, v.index)
    /\ NamesAre(v.roots, v.links, v.first, DevicesOf(v.packages))

ContentInv == ContentIn(vfs)

(* g is f with y at x.                                                      *)
IsWith(g, f, x, y) ==
    /\ DOMAIN g = DOMAIN f \cup {x} /\ g[x] = y
    /\ \A z \in DOMAIN f : z # x => g[z] = f[z]

LEMMA WithIs ==
    ASSUME NEW f, NEW x, NEW y
    PROVE  IsWith(With(f, x, y), f, x, y)
  BY DEF With, Over, IsWith

LEMMA DroppedIs ==
    ASSUME NEW f, NEW gone
    PROVE  /\ DOMAIN Dropped(f, gone) = DOMAIN f \ gone
           /\ \A z \in DOMAIN f \ gone : Dropped(f, gone)[z] = f[z]
  BY DEF Dropped

(* What has the fields of such files is such files.                         *)
LEMMA FieldsOf ==
    ASSUME NEW e, NEW i, NEW p, NEW ro, NEW n, NEW l, NEW f, NEW h, NEW v,
           v = [entries |-> e, index |-> i, packages |-> p, roots |-> ro, nextDevice |-> n,
                links |-> l, first |-> f, handles |-> h],
           TableIs(e, i), HandlesAre(h), PackagesAre(p, n, i), NamesAre(ro, l, f, DevicesOf(p))
    PROVE  ContentIn(v)
<1>1. /\ v.entries = e /\ v.index = i /\ v.packages = p /\ v.roots = ro
      /\ v.nextDevice = n /\ v.links = l /\ v.first = f /\ v.handles = h
  OBVIOUS
<1>2. FilesShape(v)
  BY <1>1 DEF FilesShape
<1> QED BY <1>1, <1>2 DEF ContentIn

LEMMA PartsOf ==
    ASSUME NEW v, ContentIn(v)
    PROVE  \E e, i, p, ro, n, l, f, h :
              /\ v = [entries |-> e, index |-> i, packages |-> p, roots |-> ro, nextDevice |-> n,
                      links |-> l, first |-> f, handles |-> h]
              /\ TableIs(e, i) /\ HandlesAre(h) /\ PackagesAre(p, n, i) /\ NamesAre(ro, l, f, DevicesOf(p))
<1>1. PICK e, i, p, ro, n, l, f, h :
          /\ e = v.entries /\ i = v.index /\ p = v.packages /\ ro = v.roots
          /\ n = v.nextDevice /\ l = v.links /\ f = v.first /\ h = v.handles
  OBVIOUS
<1>2. v = [entries |-> e, index |-> i, packages |-> p, roots |-> ro, nextDevice |-> n,
           links |-> l, first |-> f, handles |-> h]
  BY <1>1 DEF ContentIn, FilesShape
<1>3. TableIs(e, i) /\ HandlesAre(h) /\ PackagesAre(p, n, i) /\ NamesAre(ro, l, f, DevicesOf(p))
  BY <1>1 DEF ContentIn
<1> QED BY <1>2, <1>3

LEMMA EnsuredKeeps ==
    ASSUME NEW v, ContentIn(v)
    PROVE  /\ ContentIn(DefaultsEnsured(v)) /\ DOMAIN DefaultsEnsured(v).links # {}
           /\ DefaultsEnsured(v).roots = v.roots
<1>1. PICK e, i, p, ro, n, l, f, h :
          /\ v = [entries |-> e, index |-> i, packages |-> p, roots |-> ro, nextDevice |-> n,
                  links |-> l, first |-> f, handles |-> h]
          /\ TableIs(e, i) /\ HandlesAre(h) /\ PackagesAre(p, n, i) /\ NamesAre(ro, l, f, DevicesOf(p))
  BY PartsOf
<1>2. PICK w : w = DefaultsEnsured(v)
  OBVIOUS
<1>3. CASE DOMAIN l = {}
  <2>1. PICK d : d = DefaultLinks
    OBVIOUS
  <2>2. w = [entries |-> e, index |-> i, packages |-> p, roots |-> ro, nextDevice |-> n,
             links |-> d, first |-> "kernel", handles |-> h]
    BY <1>1, <1>2, <1>3, <2>1 DEF DefaultsEnsured
  <2>3. DOMAIN d = {"game", "d"} /\ d["game"] = Disc
    BY <2>1 DEF DefaultLinks
  <2>4. NamesAre(ro, d, "kernel", DevicesOf(p))
    BY <1>1, <1>3, <2>3 DEF NamesAre
  <2>5. ContentIn(w)
    BY ONLY <1>1, <2>2, <2>4, FieldsOf
  <2> QED BY <1>1, <1>2, <2>2, <2>3, <2>5
<1>4. CASE DOMAIN l # {}
  <2>1. w = v /\ v.links = l
    BY <1>1, <1>2, <1>4 DEF DefaultsEnsured
  <2> QED BY <1>2, <1>4, <2>1
<1> QED BY <1>3, <1>4

LEMMA LinkedKeeps ==
    ASSUME NEW v, ContentIn(v), NEW name \in LinkNames
    PROVE  ContentIn(Linked(v, name))
<1>1. PICK t : t = DefaultsEnsured(v)
  OBVIOUS
<1>2. ContentIn(t) /\ DOMAIN t.links # {}
  BY <1>1, EnsuredKeeps
<1>3. PICK e, i, p, ro, n, l, f, h :
          /\ t = [entries |-> e, index |-> i, packages |-> p, roots |-> ro, nextDevice |-> n,
                  links |-> l, first |-> f, handles |-> h]
          /\ TableIs(e, i) /\ HandlesAre(h) /\ PackagesAre(p, n, i) /\ NamesAre(ro, l, f, DevicesOf(p))
  BY <1>2, PartsOf
<1>4. PICK w, k : w = Linked(v, name) /\ k = With(l, name, Disc)
  OBVIOUS
<1>5. w = [entries |-> e, index |-> i, packages |-> p, roots |-> ro, nextDevice |-> n,
           links |-> k, first |-> f, handles |-> h]
  <2>1. w = [t EXCEPT !.links = With(@, name, Disc)]
    BY <1>1, <1>4 DEF Linked
  <2>2. w = [t EXCEPT !.links = k]
    BY <1>3, <1>4, <2>1
  <2> QED BY <1>3, <2>2
<1>6. DOMAIN k = DOMAIN l \cup {name} /\ \A z \in DOMAIN l : z # name => k[z] = l[z]
  <2>1. IsWith(k, l, name, Disc)
    BY <1>4, WithIs
  <2> QED BY <2>1 DEF IsWith
<1>7. name \notin Roots /\ name # "game" /\ DOMAIN l # {}
  BY <1>2, <1>3, ContentFilesAssumption
<1>8. NamesAre(ro, k, f, DevicesOf(p))
  BY <1>3, <1>6, <1>7 DEF NamesAre
<1>9. ContentIn(w)
  BY ONLY <1>3, <1>5, <1>8, FieldsOf
<1> QED BY <1>4, <1>9

LEMMA UnlinkedKeeps ==
    ASSUME NEW v, ContentIn(v), NEW name, name \in LinkNames \cup Roots, name \notin DOMAIN v.roots
    PROVE  ContentIn(Unlinked(v, name))
<1>1. PICK e, i, p, ro, n, l, f, h :
          /\ v = [entries |-> e, index |-> i, packages |-> p, roots |-> ro, nextDevice |-> n,
                  links |-> l, first |-> f, handles |-> h]
          /\ TableIs(e, i) /\ HandlesAre(h) /\ PackagesAre(p, n, i) /\ NamesAre(ro, l, f, DevicesOf(p))
  BY PartsOf
<1>2. PICK w, k, g : /\ w = Unlinked(v, name) /\ k = Dropped(l, {name})
                     /\ g = IF DOMAIN k = {} THEN "nobody" ELSE f
  OBVIOUS
<1>3. w = [entries |-> e, index |-> i, packages |-> p, roots |-> ro, nextDevice |-> n,
           links |-> k, first |-> g, handles |-> h]
  BY <1>1, <1>2 DEF Unlinked
<1>4. DOMAIN k = DOMAIN l \ {name} /\ \A z \in DOMAIN l \ {name} : k[z] = l[z]
  BY <1>2, DroppedIs
<1>5. name # "game" /\ name # "d" /\ name \notin DOMAIN ro
  BY <1>1, ContentFilesAssumption
<1>6. NamesAre(ro, k, g, DevicesOf(p))
  <2>1. \A r \in DOMAIN ro : r \in DOMAIN k /\ k[r] = ro[r] /\ ro[r] \in DevicesOf(p)
    BY <1>1, <1>4, <1>5 DEF NamesAre
  <2>2. DOMAIN k = {} => g = "nobody"
    BY <1>2
  <2>3. ASSUME DOMAIN k # {}, g # "content"
        PROVE  {"game", "d"} \subseteq DOMAIN k /\ k["game"] = Disc
    <3>1. g = f /\ DOMAIN l # {}
      BY <1>2, <1>4, <2>3
    <3>2. {"game", "d"} \subseteq DOMAIN l /\ l["game"] = Disc
      BY <1>1, <2>3, <3>1 DEF NamesAre
    <3> QED BY <1>4, <1>5, <3>2
  <2> QED BY <1>1, <2>1, <2>2, <2>3 DEF NamesAre
<1>7. ContentIn(w)
  BY ONLY <1>1, <1>3, <1>6, FieldsOf
<1> QED BY <1>2, <1>7

LEMMA MountedKeeps ==
    ASSUME NEW v, ContentIn(v), NEW root \in Roots, NEW device \in Devices(v)
    PROVE  ContentIn(Mounted(v, root, device))
<1>1. PICK e, i, p, ro, n, l, f, h :
          /\ v = [entries |-> e, index |-> i, packages |-> p, roots |-> ro, nextDevice |-> n,
                  links |-> l, first |-> f, handles |-> h]
          /\ TableIs(e, i) /\ HandlesAre(h) /\ PackagesAre(p, n, i) /\ NamesAre(ro, l, f, DevicesOf(p))
  BY PartsOf
<1>2. PICK w, j, k, g : /\ w = Mounted(v, root, device)
                        /\ j = With(ro, root, device) /\ k = With(l, root, device)
                        /\ g = IF f = "nobody" THEN "content" ELSE f
  OBVIOUS
<1>3. w = [entries |-> e, index |-> i, packages |-> p, roots |-> j, nextDevice |-> n,
           links |-> k, first |-> g, handles |-> h]
  BY <1>1, <1>2 DEF Mounted
<1>4. /\ DOMAIN j = DOMAIN ro \cup {root} /\ j[root] = device
      /\ \A z \in DOMAIN ro : z # root => j[z] = ro[z]
  <2>1. IsWith(j, ro, root, device)
    BY <1>2, WithIs
  <2> QED BY <2>1 DEF IsWith
<1>5. /\ DOMAIN k = DOMAIN l \cup {root} /\ k[root] = device
      /\ \A z \in DOMAIN l : z # root => k[z] = l[z]
  <2>1. IsWith(k, l, root, device)
    BY <1>2, WithIs
  <2> QED BY <2>1 DEF IsWith
<1>6. device \in DevicesOf(p) /\ root # "game"
  BY <1>1, ContentFilesAssumption DEF Devices, DevicesOf
<1>7. NamesAre(j, k, g, DevicesOf(p))
  <2>1. \A r \in DOMAIN j : r \in DOMAIN k /\ k[r] = j[r] /\ j[r] \in DevicesOf(p)
    BY <1>1, <1>4, <1>5, <1>6 DEF NamesAre
  <2>2. DOMAIN j \subseteq Roots /\ DOMAIN k # {}
    BY <1>1, <1>4, <1>5 DEF NamesAre
  <2>3. ASSUME g # "content" PROVE {"game", "d"} \subseteq DOMAIN k /\ k["game"] = Disc
    <3>1. f # "nobody" /\ g = f
      BY <1>2, <2>3
    <3>2. {"game", "d"} \subseteq DOMAIN l /\ l["game"] = Disc
      BY <1>1, <2>3, <3>1 DEF NamesAre
    <3> QED BY <1>5, <1>6, <3>2
  <2> QED BY <2>1, <2>2, <2>3 DEF NamesAre
<1>8. ContentIn(w)
  BY ONLY <1>1, <1>3, <1>7, FieldsOf
<1> QED BY <1>2, <1>8

LEMMA ContentCreatedKeeps ==
    ASSUME NEW v, ContentIn(v), NEW root \in Roots, NEW name
    PROVE  ContentIn(ContentCreated(v, root, name))
<1>1. CASE root \in DOMAIN v.roots \/ name \in DOMAIN v.packages
  BY <1>1 DEF ContentCreated
<1>2. CASE ~(root \in DOMAIN v.roots \/ name \in DOMAIN v.packages)
  <2>1. PICK e, i, p, ro, n, l, f, h :
            /\ v = [entries |-> e, index |-> i, packages |-> p, roots |-> ro, nextDevice |-> n,
                    links |-> l, first |-> f, handles |-> h]
            /\ TableIs(e, i) /\ HandlesAre(h) /\ PackagesAre(p, n, i) /\ NamesAre(ro, l, f, DevicesOf(p))
    BY PartsOf
  <2>2. PICK t, q, m : /\ t = [v EXCEPT !.packages = With(@, name, v.nextDevice), !.nextDevice = @ + 1]
                       /\ q = With(p, name, n) /\ m = n + 1
    OBVIOUS
  <2>3. t = [entries |-> e, index |-> i, packages |-> q, roots |-> ro, nextDevice |-> m,
             links |-> l, first |-> f, handles |-> h]
    BY <2>1, <2>2
  <2>4. /\ DOMAIN q = DOMAIN p \cup {name} /\ q[name] = n
        /\ \A z \in DOMAIN p : z # name => q[z] = p[z]
    <3>1. IsWith(q, p, name, n)
      BY <2>2, WithIs
    <3> QED BY <3>1 DEF IsWith
  <2>5. name \notin DOMAIN p
    BY <1>2, <2>1
  <2>6. DevicesOf(p) \subseteq DevicesOf(q) /\ n \in DevicesOf(q)
    BY <2>4, <2>5 DEF DevicesOf
  <2>7. n \in Int /\ m \in Int
    BY <2>1, <2>2 DEF PackagesAre
  <2>8. PackagesAre(q, m, i)
    BY <2>1, <2>4, <2>5, <2>6, <2>7 DEF PackagesAre
  <2>9. NamesAre(ro, l, f, DevicesOf(q))
    BY <2>1, <2>6 DEF NamesAre
  <2>10. ContentIn(t)
    BY ONLY <2>1, <2>3, <2>8, <2>9, FieldsOf
  <2>11. n \in Devices(t) /\ n = v.nextDevice
    BY <2>1, <2>3, <2>6 DEF Devices, DevicesOf
  <2>12. ContentIn(Mounted(t, root, n))
    BY <2>10, <2>11, MountedKeeps
  <2>13. ContentCreated(v, root, name) = Mounted(t, root, n)
    BY <1>2, <2>2, <2>11 DEF ContentCreated
  <2> QED BY <2>12, <2>13
<1> QED BY <1>1, <1>2

LEMMA ContentOpenedKeeps ==
    ASSUME NEW v, ContentIn(v), NEW root \in Roots, NEW name
    PROVE  ContentIn(ContentOpened(v, root, name))
<1>1. CASE root \in DOMAIN v.roots \/ name \notin DOMAIN v.packages
  BY <1>1 DEF ContentOpened
<1>2. CASE ~(root \in DOMAIN v.roots \/ name \notin DOMAIN v.packages)
  <2>1. PICK d : d = v.packages[name]
    OBVIOUS
  <2>2. d \in Devices(v)
    BY <1>2, <2>1 DEF Devices
  <2>3. ContentIn(Mounted(v, root, d))
    BY <2>2, MountedKeeps
  <2> QED BY <1>2, <2>1, <2>3 DEF ContentOpened
<1> QED BY <1>1, <1>2

(* Files go with their devices.                                             *)
LEMMA DeletionIs ==
    ASSUME NEW e, NEW i, NEW p, NEW ro, NEW n, NEW l, NEW f, NEW h, NEW v, TableIs(e, i), NEW devices,
           v = [entries |-> e, index |-> i, packages |-> p, roots |-> ro, nextDevice |-> n,
                links |-> l, first |-> f, handles |-> h]
    PROVE  \E x, j :
              /\ FilesDeleted(v, devices) =
                    [entries |-> x, index |-> j, packages |-> p, roots |-> ro, nextDevice |-> n,
                     links |-> l, first |-> f, handles |-> h]
              /\ TableIs(x, j)
              /\ \A key \in DOMAIN j : key \in DOMAIN i /\ key[1] \notin devices
<1>1. v.entries = e /\ v.index = i /\ FilesShape(v)
  BY DEF FilesShape
<1>2. PICK r : r = FilesDeleted(v, devices)
  OBVIOUS
<1>3. /\ r = [v EXCEPT !.entries = r.entries, !.index = r.index] /\ TableIs(r.entries, r.index)
      /\ \A key \in DOMAIN r.index : key \in DOMAIN v.index /\ key[1] \notin devices
  BY ONLY <1>1, <1>2, TableIs(e, i), DeletedKeeps
<1>4. PICK x, j : x = r.entries /\ j = r.index
  OBVIOUS
<1>5. r = [entries |-> x, index |-> j, packages |-> p, roots |-> ro, nextDevice |-> n,
           links |-> l, first |-> f, handles |-> h]
  <2>1. r = [v EXCEPT !.entries = x, !.index = j]
    BY <1>3, <1>4
  <2> QED BY <2>1
<1> QED BY <1>1, <1>2, <1>3, <1>4, <1>5

LEMMA ContentDeletedKeeps ==
    ASSUME NEW v, ContentIn(v), NEW name
    PROVE  ContentIn(ContentDeleted(v, name))
<1>1. CASE name \notin DOMAIN v.packages \/ \E r \in DOMAIN v.roots : v.roots[r] = v.packages[name]
  BY <1>1 DEF ContentDeleted
<1>2. CASE /\ name \in DOMAIN v.packages /\ \A r \in DOMAIN v.roots : v.roots[r] # v.packages[name]
  <2>1. PICK e, i, p, ro, n, l, f, h :
            /\ v = [entries |-> e, index |-> i, packages |-> p, roots |-> ro, nextDevice |-> n,
                    links |-> l, first |-> f, handles |-> h]
            /\ TableIs(e, i) /\ HandlesAre(h) /\ PackagesAre(p, n, i) /\ NamesAre(ro, l, f, DevicesOf(p))
    BY PartsOf
  <2>2. PICK d : d = p[name]
    OBVIOUS
  <2>3. PICK x, j :
            /\ FilesDeleted(v, {d}) =
                  [entries |-> x, index |-> j, packages |-> p, roots |-> ro, nextDevice |-> n,
                   links |-> l, first |-> f, handles |-> h]
            /\ TableIs(x, j)
            /\ \A key \in DOMAIN j : key \in DOMAIN i /\ key[1] \notin {d}
    BY ONLY <2>1, DeletionIs
  <2>4. PICK q : q = Dropped(p, {name})
    OBVIOUS
  <2>5. ContentDeleted(v, name) =
           [entries |-> x, index |-> j, packages |-> q, roots |-> ro, nextDevice |-> n,
            links |-> l, first |-> f, handles |-> h]
    <3>1. v.packages = p /\ v.roots = ro
      BY <2>1
    <3>2. ContentDeleted(v, name) = [FilesDeleted(v, {d}) EXCEPT !.packages = Dropped(@, {name})]
      BY <1>2, <2>2, <3>1 DEF ContentDeleted
    <3>3. PICK r : r = FilesDeleted(v, {d})
      OBVIOUS
    <3>4. r.packages = p /\ r = [entries |-> x, index |-> j, packages |-> p, roots |-> ro,
                                nextDevice |-> n, links |-> l, first |-> f, handles |-> h]
      BY <2>3, <3>3
    <3>5. ContentDeleted(v, name) = [r EXCEPT !.packages = q]
      BY <2>4, <3>2, <3>3, <3>4
    <3> QED BY <3>4, <3>5
  <2>6. DOMAIN q = DOMAIN p \ {name} /\ \A z \in DOMAIN p \ {name} : q[z] = p[z]
    BY <2>4, DroppedIs
  <2>7. ASSUME NEW c \in DevicesOf(p), c # d PROVE c \in DevicesOf(q)
    <3>1. CASE c = Disc
      BY <3>1 DEF DevicesOf
    <3>2. CASE c # Disc
      <4>1. PICK z \in DOMAIN p : c = p[z]
        BY <3>2 DEF DevicesOf
      <4>2. z \in DOMAIN q /\ q[z] = c
        BY <2>2, <2>6, <2>7, <4>1
      <4> QED BY <4>2 DEF DevicesOf
    <3> QED BY <3>1, <3>2
  <2>8. PackagesAre(q, n, j)
    <3>1. n \in Int /\ \A z \in DOMAIN q : q[z] \in Int
      BY <2>1, <2>6 DEF PackagesAre
    <3>2. \A key \in DOMAIN j : key[1] \in DevicesOf(p) /\ key[1] # d
      BY <2>1, <2>3 DEF PackagesAre
    <3> QED BY <2>7, <3>1, <3>2 DEF PackagesAre
  <2>9. NamesAre(ro, l, f, DevicesOf(q))
    <3>1. \A r \in DOMAIN ro : ro[r] # d
      BY <1>2, <2>1, <2>2
    <3> QED BY <2>1, <2>7, <3>1 DEF NamesAre
  <2> QED BY ONLY <2>1, <2>3, <2>5, <2>8, <2>9, FieldsOf
<1> QED BY <1>1, <1>2

(* The disc's files, before there is anything else.                         *)
LEMMA BareFiles ==
    ASSUME NEW x, NEW j, TableIs(x, j), \A key \in DOMAIN j : key[1] = Disc, NEW v,
           v = [NoFiles EXCEPT !.entries = x, !.index = j]
    PROVE  ContentIn(v)
<1>1. PICK none : none = <<>> /\ DOMAIN none = {}
  OBVIOUS
<1>2. v = [entries |-> x, index |-> j, packages |-> none, roots |-> none, nextDevice |-> 1,
           links |-> none, first |-> "nobody", handles |-> none]
  BY <1>1 DEF NoFiles
<1>3. HandlesAre(none)
  BY <1>1 DEF HandlesAre
<1>4. PackagesAre(none, 1, j)
  BY <1>1 DEF PackagesAre, DevicesOf
<1>5. NamesAre(none, none, "nobody", DevicesOf(none))
  BY <1>1 DEF NamesAre
<1> QED BY ONLY TableIs(x, j), <1>2, <1>3, <1>4, <1>5, FieldsOf

-----------------------------------------------------------------------------
(* The calls                                                                 *)

LEMMA ContentCreateKeeps ==
    ASSUME ContentInv, NEW root \in Roots, NEW name, NEW flags \in 1 .. 5,
           ContentCreate(root, name, flags)
    PROVE  ContentInv'
<1> DEFINE exists == name \in DOMAIN vfs.packages
           replaces == exists /\ flags \in {2, 5}
           creates == (~exists /\ flags \in {1, 2, 4}) \/ replaces
<1>1. PICK rid : rid = IF replaces THEN ContentDeleted(vfs, name) ELSE vfs
  OBVIOUS
<1>2. ContentIn(vfs)
  BY DEF ContentInv
<1>3. ContentIn(ContentDeleted(vfs, name))
  BY <1>2, ContentDeletedKeeps
<1>4. ContentIn(rid)
  BY <1>1, <1>2, <1>3
<1>5. ContentIn(ContentCreated(rid, root, name)) /\ ContentIn(ContentOpened(vfs, root, name))
  BY <1>2, <1>4, ContentCreatedKeeps, ContentOpenedKeeps
<1>6. vfs' = IF creates THEN ContentCreated(rid, root, name)
             ELSE IF exists /\ flags \in {3, 4} THEN ContentOpened(vfs, root, name)
             ELSE vfs
  BY <1>1 DEF ContentCreate
<1>7. \/ vfs' = ContentCreated(rid, root, name)
      \/ vfs' = ContentOpened(vfs, root, name)
      \/ vfs' = vfs
  BY <1>6
<1>8. ContentIn(vfs')
  BY <1>2, <1>5, <1>7
<1> QED BY <1>8 DEF ContentInv

LEMMA ContentCloseKeeps ==
    ASSUME ContentInv, NEW root \in Roots, ContentClose(root)
    PROVE  ContentInv'
<1>1. PICK e, i, p, ro, n, l, f, h :
          /\ vfs = [entries |-> e, index |-> i, packages |-> p, roots |-> ro, nextDevice |-> n,
                    links |-> l, first |-> f, handles |-> h]
          /\ TableIs(e, i) /\ HandlesAre(h) /\ PackagesAre(p, n, i) /\ NamesAre(ro, l, f, DevicesOf(p))
  BY PartsOf DEF ContentInv
<1>2. PICK t, j : t = [vfs EXCEPT !.roots = Dropped(@, {root})] /\ j = Dropped(ro, {root})
  OBVIOUS
<1>3. t = [entries |-> e, index |-> i, packages |-> p, roots |-> j, nextDevice |-> n,
           links |-> l, first |-> f, handles |-> h]
  BY <1>1, <1>2
<1>4. DOMAIN j = DOMAIN ro \ {root} /\ \A z \in DOMAIN ro \ {root} : j[z] = ro[z]
  BY <1>2, DroppedIs
<1>5. NamesAre(j, l, f, DevicesOf(p))
  BY <1>1, <1>4 DEF NamesAre
<1>6. ContentIn(t) /\ t.roots = j
  <2>1. ContentIn(t)
    BY ONLY <1>1, <1>3, <1>5, FieldsOf
  <2> QED BY <1>3, <2>1
<1>7. ContentIn(Unlinked(t, root))
  BY <1>4, <1>6, UnlinkedKeeps
<1>8. vfs' = Unlinked(t, root)
  BY <1>2 DEF ContentClose
<1>9. ContentIn(vfs')
  BY <1>7, <1>8
<1> QED BY <1>9 DEF ContentInv

LEMMA KernelResetKeeps ==
    ASSUME ContentInv, KernelReset
    PROVE  ContentInv'
<1>1. PICK e, i, p, ro, n, l, f, h :
          /\ vfs = [entries |-> e, index |-> i, packages |-> p, roots |-> ro, nextDevice |-> n,
                    links |-> l, first |-> f, handles |-> h]
          /\ TableIs(e, i) /\ HandlesAre(h) /\ PackagesAre(p, n, i) /\ NamesAre(ro, l, f, DevicesOf(p))
  BY PartsOf DEF ContentInv
<1>2. PICK devices : devices = {p[name] : name \in DOMAIN p}
  OBVIOUS
<1>3. PICK x, j :
          /\ FilesDeleted(vfs, devices) =
                [entries |-> x, index |-> j, packages |-> p, roots |-> ro, nextDevice |-> n,
                 links |-> l, first |-> f, handles |-> h]
          /\ TableIs(x, j)
          /\ \A key \in DOMAIN j : key \in DOMAIN i /\ key[1] \notin devices
  BY ONLY <1>1, DeletionIs
<1>4. \A key \in DOMAIN j : key[1] = Disc
  BY <1>1, <1>2, <1>3 DEF PackagesAre, DevicesOf
<1>5. vfs' = [NoFiles EXCEPT !.entries = x, !.index = j]
  <2>1. {vfs.packages[name] : name \in DOMAIN vfs.packages} = devices
    BY <1>1, <1>2
  <2>2. vfs' = [NoFiles EXCEPT !.entries = FilesDeleted(vfs, devices).entries,
                               !.index = FilesDeleted(vfs, devices).index]
    BY <2>1 DEF KernelReset
  <2>3. FilesDeleted(vfs, devices).entries = x /\ FilesDeleted(vfs, devices).index = j
    BY <1>3
  <2> QED BY <2>2, <2>3
<1>6. ContentIn(vfs')
  BY <1>3, <1>4, <1>5, BareFiles
<1> QED BY <1>6 DEF ContentInv

-----------------------------------------------------------------------------
(* Opening and writing                                                       *)

(* A path leads to a file of a device there is, or nowhere.                 *)
LEMMA LocatedIs ==
    ASSUME NEW v, ContentIn(v), NEW where, NEW path \in Seq(STRING)
    PROVE  /\ Located(v, where, path) \in Keys
           /\ \/ Located(v, where, path) = NoFile
              \/ Located(v, where, path)[1] \in DevicesOf(v.packages)
<1>1. /\ v.entries \in Seq(Entries)
      /\ \A c \in DevicesOf(v.packages) : c \in Int
      /\ Devices(v) = DevicesOf(v.packages)
  BY DEF ContentIn, TableIs, PackagesAre, DevicesOf, Devices, Disc
<1>2. NoFile \in Keys
  <2>1. PICK none \in Seq(STRING) : none = <<>>
    BY EmptySeq
  <2>2. PICK c \in Int : c = -1
    OBVIOUS
  <2>3. NoFile = <<c, none>>
    BY <2>1, <2>2 DEF NoFile
  <2> QED BY <2>3 DEF Keys
<1>3. CASE where \in DOMAIN v.handles
  <2>1. PICK dir : dir = v.handles[where]
    OBVIOUS
  <2>2. PICK base : base = IF dir.entry \in DOMAIN v.entries THEN v.entries[dir.entry].key[2] ELSE <<>>
    OBVIOUS
  <2>3. base \in Seq(STRING)
    <3>1. CASE dir.entry \in DOMAIN v.entries
      <4>1. v.entries[dir.entry] \in Entries
        BY <1>1, <3>1, LenProperties, ElementOfSeq
      <4> QED BY <2>2, <3>1, <4>1 DEF Entries, Keys
    <3>2. CASE dir.entry \notin DOMAIN v.entries
      BY <2>2, <3>2, EmptySeq
    <3> QED BY <3>1, <3>2
  <2>4. base \o path \in Seq(STRING)
    BY <2>3, ConcatProperties
  <2>5. Located(v, where, path) = IF dir.device \in Devices(v) THEN <<dir.device, base \o path>> ELSE NoFile
    BY <1>3, <2>1, <2>2 DEF Located
  <2>6. PICK full : full = base \o path
    OBVIOUS
  <2>7. CASE dir.device \in Devices(v)
    <3>1. PICK c \in Int : c = dir.device
      BY <1>1, <2>7
    <3>2. Located(v, where, path) = <<c, full>>
      BY <2>5, <2>6, <2>7, <3>1
    <3>3. full \in Seq(STRING) /\ c \in DevicesOf(v.packages)
      BY <1>1, <2>4, <2>6, <2>7, <3>1
    <3> QED BY <3>2, <3>3 DEF Keys
  <2>8. CASE dir.device \notin Devices(v)
    BY <1>2, <2>5, <2>8
  <2> QED BY <2>7, <2>8
<1>4. CASE where \notin DOMAIN v.handles /\ where \in DOMAIN v.links /\ v.links[where] \in Devices(v)
  <2>1. PICK c \in Int : c = v.links[where]
    BY <1>1, <1>4
  <2>2. Located(v, where, path) = <<c, path>>
    BY <1>4, <2>1 DEF Located
  <2>3. c \in DevicesOf(v.packages)
    BY <1>1, <1>4, <2>1
  <2> QED BY <2>2, <2>3 DEF Keys
<1>5. CASE where \notin DOMAIN v.handles /\ ~(where \in DOMAIN v.links /\ v.links[where] \in Devices(v))
  BY <1>2, <1>5 DEF Located
<1> QED BY <1>3, <1>4, <1>5

(* Whose content an entry has is no matter to the table.                    *)
LEMMA WrittenKeeps ==
    ASSUME NEW v, ContentIn(v), NEW k, k \in DOMAIN v.entries, NEW file \in Keys
    PROVE  ContentIn([v EXCEPT !.entries[k].by = file])
<1>1. PICK e, i, p, ro, n, l, f, h :
          /\ v = [entries |-> e, index |-> i, packages |-> p, roots |-> ro, nextDevice |-> n,
                  links |-> l, first |-> f, handles |-> h]
          /\ TableIs(e, i) /\ HandlesAre(h) /\ PackagesAre(p, n, i) /\ NamesAre(ro, l, f, DevicesOf(p))
  BY PartsOf
<1>2. PICK w, x : w = [v EXCEPT !.entries[k].by = file] /\ x = [e EXCEPT ![k].by = file]
  OBVIOUS
<1>3. w = [entries |-> x, index |-> i, packages |-> p, roots |-> ro, nextDevice |-> n,
           links |-> l, first |-> f, handles |-> h]
  BY <1>1, <1>2
<1>4. e \in Seq(Entries) /\ k \in 1 .. Len(e) /\ Len(e) \in Nat /\ e \in [1 .. Len(e) -> Entries]
  BY <1>1, LenProperties DEF TableIs
<1>5. e[k] \in Entries
  BY <1>4
<1>6. PICK new : new = [e[k] EXCEPT !.by = file]
  OBVIOUS
<1>7. new \in Entries /\ new.key = e[k].key
  BY <1>5, <1>6 DEF Entries
<1>8. x = [e EXCEPT ![k] = new]
  BY <1>2, <1>6
<1>9. x \in Seq(Entries) /\ Len(x) = Len(e) /\ \A m \in 1 .. Len(e) : x[m].key = e[m].key
  BY <1>4, <1>7, <1>8, ExceptSeq
<1>10. TableIs(x, i)
  BY ONLY <1>1, <1>9, MarkedKeeps
<1>11. ContentIn(w)
  BY ONLY <1>1, <1>3, <1>10, FieldsOf
<1> QED BY <1>2, <1>11

LEMMA OpenedKeeps ==
    ASSUME NEW v, ContentIn(v), NEW x, NEW handle, handle.file \in Keys
    PROVE  ContentIn([v EXCEPT !.handles = With(@, x, handle)])
<1>1. PICK e, i, p, ro, n, l, f, h :
          /\ v = [entries |-> e, index |-> i, packages |-> p, roots |-> ro, nextDevice |-> n,
                  links |-> l, first |-> f, handles |-> h]
          /\ TableIs(e, i) /\ HandlesAre(h) /\ PackagesAre(p, n, i) /\ NamesAre(ro, l, f, DevicesOf(p))
  BY PartsOf
<1>2. PICK w, g : w = [v EXCEPT !.handles = With(@, x, handle)] /\ g = With(h, x, handle)
  OBVIOUS
<1>3. w = [entries |-> e, index |-> i, packages |-> p, roots |-> ro, nextDevice |-> n,
           links |-> l, first |-> f, handles |-> g]
  BY <1>1, <1>2
<1>4. DOMAIN g = DOMAIN h \cup {x} /\ g[x] = handle /\ \A z \in DOMAIN h : z # x => g[z] = h[z]
  <2>1. IsWith(g, h, x, handle)
    BY <1>2, WithIs
  <2> QED BY <2>1 DEF IsWith
<1>5. HandlesAre(g)
  BY <1>1, <1>4 DEF HandlesAre
<1>6. ContentIn(w)
  BY ONLY <1>1, <1>3, <1>5, FieldsOf
<1> QED BY <1>2, <1>6

LEMMA RegisteredIn ==
    ASSUME NEW v, ContentIn(v), NEW device, device \in DevicesOf(v.packages),
           NEW path \in Seq(STRING), path # <<>>, NEW directory \in BOOLEAN
    PROVE  ContentIn(Registered(v, device, path, directory))
<1>1. PICK e, i, p, ro, n, l, f, h :
          /\ v = [entries |-> e, index |-> i, packages |-> p, roots |-> ro, nextDevice |-> n,
                  links |-> l, first |-> f, handles |-> h]
          /\ TableIs(e, i) /\ HandlesAre(h) /\ PackagesAre(p, n, i) /\ NamesAre(ro, l, f, DevicesOf(p))
  BY PartsOf
<1>2. v.entries = e /\ v.index = i /\ v.packages = p /\ FilesShape(v)
  BY <1>1 DEF FilesShape
<1>3. PICK c \in Int : c = device /\ c \in DevicesOf(p)
  BY <1>1, <1>2 DEF PackagesAre, DevicesOf, Disc
<1>4. PICK r : r = Registered(v, c, path, directory)
  OBVIOUS
<1>5. /\ r = [v EXCEPT !.entries = r.entries, !.index = r.index] /\ TableIs(r.entries, r.index)
      /\ \A key \in DOMAIN r.index : key \in DOMAIN v.index \/ key[1] = c
  <2>1. TableIs(v.entries, v.index) /\ FilesShape(v)
    BY <1>1, <1>2
  <2>2. PICK q \in Seq(STRING) : q = path /\ q # <<>>
    OBVIOUS
  <2>3. PICK y \in BOOLEAN : y = directory
    OBVIOUS
  <2>4. c \in Int /\ q \in Seq(STRING) /\ q # <<>> /\ y \in BOOLEAN
    BY <2>2
  <2>5. r = Registered(v, c, q, y)
    BY <1>4, <2>2, <2>3
  <2>6. Registers(v, c, q, Registered(v, c, q, y))
    BY <2>1, <2>4, RegisteredKeeps
  <2> QED BY <2>5, <2>6 DEF Registers
<1>6. PICK x, j : x = r.entries /\ j = r.index
  OBVIOUS
<1>7. r = [entries |-> x, index |-> j, packages |-> p, roots |-> ro, nextDevice |-> n,
           links |-> l, first |-> f, handles |-> h]
  <2>1. r = [v EXCEPT !.entries = x, !.index = j]
    BY <1>5, <1>6
  <2> QED BY <1>1, <2>1
<1>8. TableIs(x, j) /\ \A key \in DOMAIN j : key \in DOMAIN i \/ key[1] = c
  BY <1>2, <1>5, <1>6
<1>9. PackagesAre(p, n, j)
  BY <1>1, <1>3, <1>8 DEF PackagesAre
<1>10. ContentIn(r)
  BY ONLY <1>1, <1>7, <1>8, <1>9, FieldsOf
<1> QED BY <1>3, <1>4, <1>10

LEMMA WriteFileKeeps ==
    ASSUME ContentInv, NEW x, WriteFile(x)
    PROVE  ContentInv'
<1>1. ContentIn(vfs)
  BY DEF ContentInv
<1>2. PICK k, file : /\ k = vfs.handles[x].entry /\ file = vfs.handles[x].file
                     /\ x \in DOMAIN vfs.handles /\ k \in DOMAIN vfs.entries
                     /\ vfs' = [vfs EXCEPT !.entries[k].by = file]
  BY DEF WriteFile
<1>3. file \in Keys
  BY <1>1, <1>2 DEF ContentIn, HandlesAre
<1>4. ContentIn([vfs EXCEPT !.entries[k].by = file])
  BY ONLY <1>1, <1>2, <1>3, WrittenKeeps
<1>5. ContentIn(vfs')
  BY <1>2, <1>4
<1> QED BY <1>5 DEF ContentInv

LEMMA CloseFileKeeps ==
    ASSUME ContentInv, NEW x, CloseFile(x)
    PROVE  ContentInv'
<1>1. PICK e, i, p, ro, n, l, f, h :
          /\ vfs = [entries |-> e, index |-> i, packages |-> p, roots |-> ro, nextDevice |-> n,
                    links |-> l, first |-> f, handles |-> h]
          /\ TableIs(e, i) /\ HandlesAre(h) /\ PackagesAre(p, n, i) /\ NamesAre(ro, l, f, DevicesOf(p))
  BY PartsOf DEF ContentInv
<1>2. PICK w, g : w = vfs' /\ g = Dropped(h, {x})
  OBVIOUS
<1>3. w = [entries |-> e, index |-> i, packages |-> p, roots |-> ro, nextDevice |-> n,
           links |-> l, first |-> f, handles |-> g]
  BY <1>1, <1>2 DEF CloseFile
<1>4. DOMAIN g = DOMAIN h \ {x} /\ \A z \in DOMAIN h \ {x} : g[z] = h[z]
  BY <1>2, DroppedIs
<1>5. HandlesAre(g)
  BY <1>1, <1>4 DEF HandlesAre
<1>6. ContentIn(w)
  BY ONLY <1>1, <1>3, <1>5, FieldsOf
<1> QED BY <1>2, <1>6 DEF ContentInv

LEMMA CreateFileKeeps ==
    ASSUME ContentInv, NEW x, NEW where, NEW path \in Seq(STRING), NEW disposition,
           NEW wants, CreateFile(x, where, path, disposition, wants)
    PROVE  ContentInv'
<1>1. PICK fs : fs = DefaultsEnsured(vfs)
  OBVIOUS
<1>2. ContentIn(fs)
  BY <1>1, EnsuredKeeps DEF ContentInv
<1>3. PICK key : key = Located(fs, where, path)
  OBVIOUS
<1>4. key \in Keys /\ (key = NoFile \/ key[1] \in DevicesOf(fs.packages))
  BY <1>2, <1>3, LocatedIs
<1>5. NoFile \in Keys
  <2>1. PICK none \in Seq(STRING) : none = <<>>
    BY EmptySeq
  <2>2. PICK c \in Int : c = -1
    OBVIOUS
  <2>3. NoFile = <<c, none>>
    BY <2>1, <2>2 DEF NoFile
  <2> QED BY <2>3 DEF Keys
<1> DEFINE device == key[1]
           root == key # NoFile /\ key[2] = <<>>
           parent == <<device, SubSeq(key[2], 1, Len(key[2]) - 1)>>
           mayCreate == /\ disposition \notin {1, 4} /\ key # NoFile /\ device # Disc
                        /\ Len(key[2]) > 1 => parent \in DOMAIN fs.index
           new == ~root /\ key \notin DOMAIN fs.index
           directory == IF new THEN wants = "directory"
                        ELSE root \/ fs.entries[fs.index[key]].directory
           empties == ~directory /\ disposition \in {0, 4, 5}
           suits == IF directory THEN wants # "file" ELSE wants # "directory"
           Opened(table) ==
               LET entry == IF root THEN 0 ELSE table.index[key]
                   handle == [entry |-> entry, device |-> device,
                              file |-> IF directory THEN NoFile ELSE key]
               IN  [table EXCEPT !.handles = With(@, x, handle)]
           emptied == IF empties THEN [fs EXCEPT !.entries[fs.index[key]].by = NoFile] ELSE fs
<1>6. vfs' = IF new
             THEN IF mayCreate THEN Opened(Registered(fs, device, key[2], directory)) ELSE fs
             ELSE IF disposition = 2 \/ (empties /\ device = Disc) THEN fs
             ELSE IF suits THEN Opened(emptied) ELSE emptied
  BY <1>1, <1>3 DEF CreateFile
<1>7. ASSUME NEW table, ContentIn(table) PROVE ContentIn(Opened(table))
  <2>1. PICK handle : handle = [entry |-> IF root THEN 0 ELSE table.index[key], device |-> device,
                                file |-> IF directory THEN NoFile ELSE key]
    OBVIOUS
  <2>2. handle.file \in Keys
    <3>1. handle.file = IF directory THEN NoFile ELSE key
      BY <2>1
    <3> HIDE DEF directory
    <3> QED BY <1>4, <1>5, <3>1
  <2>3. ContentIn([table EXCEPT !.handles = With(@, x, handle)])
    BY ONLY <1>7, <2>2, OpenedKeeps
  <2>4. Opened(table) = [table EXCEPT !.handles = With(@, x, handle)]
    BY <2>1
  <2> HIDE DEF Opened
  <2> QED BY <2>3, <2>4
<1>8. CASE new /\ mayCreate
  <2>1. PICK d, p, b : d = device /\ p = key[2] /\ b = directory
    OBVIOUS
  <2>2. d \in DevicesOf(fs.packages) /\ p \in Seq(STRING) /\ p # <<>> /\ b \in BOOLEAN
    <3>1. d \in DevicesOf(fs.packages) /\ p \in Seq(STRING)
      BY <1>4, <1>8, <2>1 DEF Keys
    <3>2. p # <<>>
      BY <1>8, <2>1
    <3>3. b = (wants = "directory")
      BY <1>8, <2>1
    <3> QED BY <3>1, <3>2, <3>3
  <2>3. ContentIn(Registered(fs, d, p, b))
    BY ONLY <1>2, <2>2, RegisteredIn
  <2>4. vfs' = Opened(Registered(fs, device, key[2], directory))
    <3> HIDE DEF Opened, mayCreate, new, directory, empties, suits, emptied
    <3> QED BY <1>6, <1>8
  <2>5. vfs' = Opened(Registered(fs, d, p, b))
    <3> HIDE DEF Opened, directory
    <3> QED BY <2>1, <2>4
  <2> HIDE DEF Opened
  <2>6. ContentIn(vfs')
    BY <1>7, <2>3, <2>5
  <2> QED BY <2>6 DEF ContentInv
<1>9. CASE ~(new /\ mayCreate)
  <2>1. ASSUME ~new PROVE ContentIn(emptied)
    <3>1. CASE empties
      <4>1. ~root /\ key \in DOMAIN fs.index
        BY <2>1, <3>1
      <4>2. PICK k : k = fs.index[key]
        OBVIOUS
      <4>3. k \in DOMAIN fs.entries
        <5>1. /\ fs.entries \in Seq(Entries)
              /\ DOMAIN fs.index = {fs.entries[n].key : n \in 1 .. Len(fs.entries)}
              /\ \A n \in 1 .. Len(fs.entries) : fs.index[fs.entries[n].key] = n
          BY <1>2 DEF ContentIn, TableIs
        <5>2. PICK n \in 1 .. Len(fs.entries) : key = fs.entries[n].key
          BY <4>1, <5>1
        <5>3. k = n
          BY <4>2, <5>1, <5>2
        <5> QED BY <5>1, <5>3, LenProperties
      <4>4. ContentIn([fs EXCEPT !.entries[k].by = NoFile])
        BY ONLY <1>2, <1>5, <4>3, WrittenKeeps
      <4>5. emptied = [fs EXCEPT !.entries[k].by = NoFile]
        <5> HIDE DEF empties
        <5> QED BY <3>1, <4>2
      <4> HIDE DEF emptied
      <4> QED BY <4>4, <4>5
    <3>2. CASE ~empties
      <4>1. emptied = fs
        <5> HIDE DEF empties
        <5> QED BY <3>2
      <4> HIDE DEF emptied
      <4> QED BY <1>2, <4>1
    <3> QED BY <3>1, <3>2
  <2>2. vfs' = fs \/ (~new /\ (vfs' = Opened(emptied) \/ vfs' = emptied))
    <3> HIDE DEF Opened, mayCreate, new, directory, empties, suits, emptied
    <3> QED BY <1>6, <1>9
  <2>3. ContentIn(vfs')
    <3> HIDE DEF Opened, mayCreate, new, directory, empties, suits, emptied
    <3> QED BY <1>2, <1>7, <2>1, <2>2
  <2> QED BY <2>3 DEF ContentInv
<1> QED BY <1>8, <1>9

-----------------------------------------------------------------------------

LEMMA ContentInitially == FilesInit => ContentInv
<1> SUFFICES ASSUME FilesInit PROVE ContentInv
  OBVIOUS
<1>1. PICK x, j : x = DiscFiles.entries /\ j = DiscFiles.index
  OBVIOUS
<1>2. /\ TableIs(x, j) /\ (\A key \in DOMAIN j : key[1] = Disc)
      /\ vfs = [NoFiles EXCEPT !.entries = x, !.index = j]
  BY <1>1, DiscIs DEF FilesInit
<1>3. ContentIn(vfs)
  BY <1>2, BareFiles
<1> QED BY <1>3 DEF ContentInv

LEMMA ContentKeeps == ContentInv /\ [FilesNext]_vfs => ContentInv'
<1> SUFFICES ASSUME ContentInv, [FilesNext]_vfs PROVE ContentInv'
  OBVIOUS
<1>1. ASSUME NEW h \in FileHandles \cup FolderHandles, NEW disposition, NEW wants, NEW where,
             NEW n \in DOMAIN DiscPaths, CreateFile(h, where, DiscPaths[n], disposition, wants)
      PROVE  ContentInv'
  <2>1. PICK path \in Seq(STRING) : path = DiscPaths[n]
    BY ContentFilesAssumption, LenProperties, ElementOfSeq
  <2> QED BY <1>1, <2>1, CreateFileKeeps
<1>2. ASSUME NEW h \in FileHandles \cup FolderHandles, NEW disposition, NEW wants, NEW where,
             NEW path \in ContentPaths, CreateFile(h, where, path, disposition, wants)
      PROVE  ContentInv'
  <2>1. path \in Seq(STRING)
    BY ContentFilesAssumption
  <2> QED BY <1>2, <2>1, CreateFileKeeps
<1>3. CASE \E h \in FileHandles : WriteFile(h)
  BY <1>3, WriteFileKeeps
<1>4. CASE \E h \in FileHandles \cup FolderHandles : CloseFile(h)
  BY <1>4, CloseFileKeeps
<1>5. ASSUME NEW name \in LinkNames, CreateLink(name) PROVE ContentInv'
  BY <1>5, LinkedKeeps DEF CreateLink, ContentInv
<1>6. ASSUME NEW name \in LinkNames, DeleteLink(name) PROVE ContentInv'
  <2>1. name \notin DOMAIN vfs.roots
    BY ContentFilesAssumption DEF ContentInv, ContentIn, NamesAre
  <2> QED BY <1>6, <2>1, UnlinkedKeeps DEF DeleteLink, ContentInv
<1>7. ASSUME NEW root \in Roots, NEW name \in PackageNames, NEW flags \in 1 .. 5,
             ContentCreate(root, name, flags)
      PROVE  ContentInv'
  BY <1>7, ContentCreateKeeps
<1>8. ASSUME NEW root \in Roots, ContentClose(root) PROVE ContentInv'
  BY <1>8, ContentCloseKeeps
<1>9. ASSUME NEW name, ContentDelete(name) PROVE ContentInv'
  BY <1>9, ContentDeletedKeeps DEF ContentDelete, ContentInv
<1>10. CASE KernelReset
  BY <1>10, KernelResetKeeps
<1>11. CASE FileSteps
  BY <1>11, <1>1, <1>2, <1>3, <1>4, <1>5, <1>6 DEF FileSteps
<1>12. CASE ContentSteps
  BY <1>12, <1>7, <1>8, <1>9, <1>10 DEF ContentSteps
<1>13. CASE UNCHANGED vfs
  BY <1>13 DEF ContentInv
<1> QED BY <1>11, <1>12, <1>13 DEF FilesNext

LEMMA ContentMeans == ContentInv => ContentIsKept
<1> SUFFICES ASSUME ContentInv PROVE ContentIsKept
  OBVIOUS
<1>1. PICK e, i, p, ro, n, l, f, h :
          /\ vfs = [entries |-> e, index |-> i, packages |-> p, roots |-> ro, nextDevice |-> n,
                    links |-> l, first |-> f, handles |-> h]
          /\ TableIs(e, i) /\ HandlesAre(h) /\ PackagesAre(p, n, i) /\ NamesAre(ro, l, f, DevicesOf(p))
  BY PartsOf DEF ContentInv
<1>2. /\ vfs.entries = e /\ vfs.index = i /\ vfs.roots = ro /\ vfs.links = l /\ vfs.first = f
      /\ Devices(vfs) = DevicesOf(p) /\ DOMAIN e = 1 .. Len(e)
  BY <1>1, LenProperties DEF Devices, DevicesOf, TableIs
<1>3. IndexIsTheTable
  <2>1. \A m \in 1 .. Len(e) : e[m].key \in DOMAIN i
    BY <1>1 DEF TableIs
  <2>2. ASSUME NEW m \in 1 .. Len(e)
        PROVE  /\ i[e[m].key] = m
               /\ \A k \in 1 .. Len(e[m].key[2]) - 1 : <<e[m].key[1], SubSeq(e[m].key[2], 1, k)>> \in DOMAIN i
    BY <1>1, <2>1 DEF TableIs
  <2>3. DOMAIN i = {e[m].key : m \in 1 .. Len(e)}
    BY <1>1 DEF TableIs
  <2>4. \A m \in DOMAIN e :
           /\ i[e[m].key] = m
           /\ \A k \in 1 .. Len(e[m].key[2]) - 1 : <<e[m].key[1], SubSeq(e[m].key[2], 1, k)>> \in DOMAIN i
    BY <1>2, <2>2
  <2>5. DOMAIN i = {e[m].key : m \in DOMAIN e}
    BY <1>2, <2>3
  <2> DEFINE Found(entries, index) ==
                /\ DOMAIN index = {entries[m].key : m \in DOMAIN entries}
                /\ \A m \in DOMAIN entries :
                      LET key == entries[m].key
                      IN  /\ index[key] = m
                          /\ \A k \in 1 .. Len(key[2]) - 1 : <<key[1], SubSeq(key[2], 1, k)>> \in DOMAIN index
  <2>6. IndexIsTheTable <=> Found(vfs.entries, vfs.index)
    BY DEF IndexIsTheTable
  <2>7. Found(e, i)
    BY <2>4, <2>5
  <2> HIDE DEF Found
  <2> QED BY <1>2, <2>6, <2>7
<1>4. OpenContentStays
  <2>1. \A m \in 1 .. Len(e) : e[m].key[1] \in DevicesOf(p)
    BY <1>1 DEF TableIs, PackagesAre
  <2> QED BY <1>1, <1>2, <2>1 DEF OpenContentStays, NamesAre
<1>5. GameIsMounted
  BY <1>1, <1>2 DEF GameIsMounted, NamesAre
<1> QED BY <1>3, <1>4, <1>5 DEF ContentIsKept

ContentSpec == FilesInit /\ [][FilesNext]_vfs

(* Whatever packages and files a title makes and deletes, the index finds   *)
(* each entry under its path, what is open stays, and game: leads to the    *)
(* disc (kernel_xboxkrnl_services.cpp).                                     *)
THEOREM ContentIsKeptHolds == ContentSpec => []ContentIsKept
  BY ContentInitially, ContentKeeps, ContentMeans, PTL DEF ContentSpec

=============================================================================
