------------------------ MODULE FiberSchedulerProofs ------------------------
(***************************************************************************)
(* What FiberScheduler promises, for every number of registry slots,       *)
(* fibers and quanta: one inductive invariant, FiberInv, from which the    *)
(* properties of the module follow.                                        *)
(***************************************************************************)
EXTENDS FiberScheduler, DataLemmas

Fiber == [thread : Threads, state : FiberStates, vruntime : 0 .. MaxClock,
          noted : BOOLEAN, wake : 0 .. MaxClock, call : Calls]


(* A list of fibers as it is at every moment: nobody has run longer than    *)
(* the guest clock says (the fiber `on' is in a run of length `run'); the   *)
(* primary thread's fiber is the first and never ends before the run, so    *)
(* that a finishing thread can leave for it; no two fibers belong to one    *)
(* thread; and a deadline is that of the call its fiber sleeps in.          *)
Asleep(f) == f.state = "Blocked" /\ f.call.kind \in {"timed", "sleep"}

FiberList(fs, on, run, time) ==
    /\ fs \in Seq(Fiber) /\ Len(fs) \in 1 .. MaxFibers /\ on \in 1 .. Len(fs)
    /\ \A i \in 1 .. Len(fs) : fs[i].vruntime + (IF i = on THEN run ELSE 0) <= time
    /\ \A i \in 1 .. Len(fs) : fs[i].thread = Primary <=> i = 1
    /\ fs[1].state \in {"Running", "Ready", "Blocked"}
    /\ \A i, j \in 1 .. Len(fs) : fs[i].thread = fs[j].thread => i = j
    /\ \A i \in 1 .. Len(fs) : fs[i].wake = IF Asleep(fs[i]) THEN fs[i].call.until ELSE 0

(* The fibers marked Running are those of S.                                *)
Marked(fs, S) == \A i \in 1 .. Len(fs) : fs[i].state = "Running" <=> i \in S

(* The registry, and the counts that do not belong to a fiber.              *)
RegistryInv ==
    /\ registry \in [Slots -> [gen : 0 .. MaxGen,
                               life : {"free", "runnable", "suspended"}]]
    /\ \A s \in Slots : registry[s].life # "free" => registry[s].gen # 0

CountsInv ==
    /\ clock \in 1 .. MaxClock
    /\ ran \in 0 .. clock /\ usedQ \in 0 .. clock
    /\ waited \in [1 .. MaxFibers -> 0 .. clock]

SwitchInv ==
    /\ target \in 1 .. Len(fibers)
    /\ mode \in {"guest", "poll", "idlePoll", "exiting", "driver"} \cup EndModes
    /\ hostYield \in BOOLEAN /\ forceFail = FALSE
    /\ mode # "noTarget"
    /\ mode = "exiting" => cur # 1
    /\ mode \notin EndModes => Marked(fibers, IF mode = "driver" THEN {} ELSE {cur})
    /\ TargetMayRun

FiberInv ==
    RegistryInv /\ CountsInv /\ SwitchInv /\ FiberList(fibers, cur, ran, clock)

(* Room for a fiber of every thread the title ever creates.                 *)
RoomForAll == NumSlots * MaxGen < MaxFibers

-----------------------------------------------------------------------------
(* Lemmas about the operators of the scheduler                              *)

LEMMA LeastIs ==
    ASSUME NEW S \in SUBSET Nat, S # {}
    PROVE  Least(S) \in S /\ \A y \in S : Least(S) <= y
BY LeastExists DEF Least

(* Ranking a finite set of numbers counts it: every rank from 1 to the size *)
(* of the set is that of an element, and only of one.                       *)
LEMMA RankCounts ==
    ASSUME NEW S \in SUBSET Nat, IsFiniteSet(S)
    PROVE  /\ Cardinality(S) \in Nat
           /\ \A s \in S : Rank(S, s) \in 1 .. Cardinality(S)
           /\ \A s, t \in S : Rank(S, s) = Rank(S, t) => s = t
           /\ \A k \in 1 .. Cardinality(S) : \E s \in S : Rank(S, s) = k
<1> DEFINE Below(s) == {r \in S : r <= s}
           f == [s \in S |-> Rank(S, s)]
<1>1. Cardinality(S) \in Nat
  BY FS_CardinalityType
<1>2. ASSUME NEW s \in S
      PROVE  /\ IsFiniteSet(Below(s)) /\ Cardinality(Below(s)) \in Nat
             /\ Cardinality(Below(s)) <= Cardinality(S)
             /\ Cardinality(Below(s)) # 0
  <2>1. Below(s) \in SUBSET S /\ s \in Below(s)
    OBVIOUS
  <2>2. IsFiniteSet(Below(s)) /\ Cardinality(Below(s)) <= Cardinality(S)
    BY <2>1, FS_Subset
  <2>3. Cardinality(Below(s)) \in Nat
    BY <2>2, FS_CardinalityType
  <2>4. Cardinality(Below(s)) # 0
    BY <2>1, <2>2, FS_EmptySet
  <2> QED BY <2>2, <2>3, <2>4
<1>3. \A s \in S : Rank(S, s) \in 1 .. Cardinality(S)
  BY <1>1, <1>2 DEF Rank
<1>4. ASSUME NEW s \in S, NEW t \in S, s < t
      PROVE  Rank(S, s) # Rank(S, t)
  <2>1. Below(s) \subseteq Below(t) /\ t \in Below(t) /\ t \notin Below(s)
    <3>1. \A r \in Nat : r <= s => r <= t
      BY <1>4
    <3>2. t <= t /\ ~(t <= s)
      BY <1>4
    <3> QED BY <3>1, <3>2
  <2>2. Below(s) # Below(t)
    BY <2>1
  <2>3. Cardinality(Below(t)) # Cardinality(Below(s))
    BY <1>2, <2>1, <2>2, FS_Subset
  <2> QED BY <2>3 DEF Rank
<1>5. \A s, t \in S : Rank(S, s) = Rank(S, t) => s = t
  <2> TAKE s, t \in S
  <2>1. s < t \/ t < s \/ s = t
    OBVIOUS
  <2> QED BY <2>1, <1>4
<1>6. f \in Injection(S, 1 .. Cardinality(S))
  <2>1. f \in [S -> 1 .. Cardinality(S)]
    BY <1>3
  <2>2. \A a, b \in S : f[a] = f[b] => a = b
    BY <1>5
  <2> HIDE DEF f
  <2> QED BY <2>1, <2>2, Fun_IsInj
<1>7. f \in Surjection(S, 1 .. Cardinality(S))
  <2>1. IsFiniteSet(1 .. Cardinality(S)) /\ Cardinality(1 .. Cardinality(S)) = Cardinality(S)
    BY <1>1, FS_Interval
  <2> HIDE DEF f
  <2> QED BY <2>1, <1>6, FS_Injection
<1>8. \A k \in 1 .. Cardinality(S) : \E s \in S : f[s] = k
  <2> HIDE DEF f
  <2> QED BY <1>7, Fun_SurjectionProperties
<1> QED BY <1>1, <1>3, <1>5, <1>8

(* Of a set of numbers, those of rank at most n are at most n.              *)
LEMMA RankBounds ==
    ASSUME NEW S \in SUBSET Nat, IsFiniteSet(S), NEW n \in Nat,
           NEW A \in SUBSET S, \A s \in A : Rank(S, s) <= n
    PROVE  IsFiniteSet(A) /\ Cardinality(A) \in Nat /\ Cardinality(A) <= n
<1> DEFINE f == [s \in A |-> Rank(S, s)]
<1>1. IsFiniteSet(A) /\ Cardinality(A) \in Nat
  BY FS_Subset, FS_CardinalityType
<1>2. f \in Injection(A, 1 .. n)
  <2>1. f \in [A -> 1 .. n]
    BY RankCounts
  <2>2. \A a, b \in A : f[a] = f[b] => a = b
    BY RankCounts
  <2> HIDE DEF f
  <2> QED BY <2>1, <2>2, Fun_IsInj
<1>3. IsFiniteSet(1 .. n) /\ Cardinality(1 .. n) = n
  BY FS_Interval
<1> HIDE DEF f
<1> QED BY <1>1, <1>2, <1>3, FS_Injection

LEMMA EvaluatedIs ==
    ASSUME NEW S, NEW f \in Seq(S)
    PROVE  Evaluated(f) = f
BY ConcatEmptySeq DEF Evaluated

(* The threads that have no fiber yet and get one now, numbered.            *)
LEMMA AdoptedThreads ==
    ASSUME RegistryInv, NEW fs \in Seq(Fiber), Len(fs) \in 1 .. MaxFibers
    PROVE  LET A == Adopted(fs)
               nth(k) == CHOOSE s \in A : Rank(A, s) = k
           IN  /\ A \subseteq RunnableSlots
               /\ Cardinality(A) \in Nat /\ Len(fs) + Cardinality(A) <= MaxFibers
               /\ \A k \in 1 .. Cardinality(A) :
                      nth(k) \in A /\ Rank(A, nth(k)) = k
               /\ \A s \in A : \E k \in 1 .. Cardinality(A) : nth(k) = s
               /\ \A s \in A :
                    /\ HandleOf(s) \in Threads \ {Primary}
                    /\ \A i \in 1 .. Len(fs) : fs[i].thread # HandleOf(s)
<1> DEFINE A == Adopted(fs)
           U == Unknown(fs)
           nth(k) == CHOOSE s \in A : Rank(A, s) = k
<1> USE SchedulerAssumption
<1>1. U \subseteq RunnableSlots /\ A \subseteq U
  BY DEF Unknown, Listed, Adopted
<1>2. U \in SUBSET Nat /\ IsFiniteSet(U) /\ A \in SUBSET Nat
  <2>1. IsFiniteSet(Slots) /\ Slots \subseteq Nat
    BY FS_Interval DEF Slots
  <2> QED BY <1>1, <2>1, FS_Subset DEF RunnableSlots
<1>3. /\ IsFiniteSet(A) /\ Cardinality(A) \in Nat
      /\ Cardinality(A) <= MaxFibers - Len(fs)
  <2>1. \A s \in A : Rank(U, s) \in Nat
    BY <1>1, <1>2, RankCounts
  <2>2. \A s \in A : Rank(U, s) <= MaxFibers - Len(fs)
    BY <2>1 DEF Adopted
  <2> HIDE DEF A, U
  <2> QED BY <1>1, <1>2, <2>2, RankBounds
<1>4. \A k \in 1 .. Cardinality(A) : nth(k) \in A /\ Rank(A, nth(k)) = k
  <2> HIDE DEF A
  <2> QED BY <1>2, <1>3, RankCounts
<1>5. ASSUME NEW s \in A
      PROVE  \E k \in 1 .. Cardinality(A) : nth(k) = s
  <2> HIDE DEF A
  <2>1. Rank(A, s) \in 1 .. Cardinality(A)
    BY <1>2, <1>3, RankCounts
  <2>2. nth(Rank(A, s)) \in A /\ Rank(A, nth(Rank(A, s))) = Rank(A, s)
    BY <2>1, <1>4
  <2>3. nth(Rank(A, s)) = s
    BY <2>2, <1>2, <1>3, RankCounts
  <2> QED BY <2>1, <2>3
<1>6. ASSUME NEW s \in A
      PROVE  /\ HandleOf(s) \in Threads \ {Primary}
             /\ \A i \in 1 .. Len(fs) : fs[i].thread # HandleOf(s)
  <2>1. s \in Slots /\ registry[s].gen \in 1 .. MaxGen
    BY <1>1 DEF RunnableSlots, RegistryInv
  <2>2. HandleOf(s) \in Threads \ {Primary}
    BY <2>1 DEF HandleOf, Threads, Primary, Slots
  <2>3. \A i \in 1 .. Len(fs) : fs[i].thread # HandleOf(s)
    BY DEF Adopted, Unknown
  <2> QED BY <2>2, <2>3
<1>7. Len(fs) + Cardinality(A) <= MaxFibers
  BY <1>3
<1> HIDE DEF A, nth
<1> QED BY <1>1, <1>3, <1>4, <1>5, <1>6, <1>7 DEF A, nth, U

(* What choosing a target does to a list of fibers: those in it keep        *)
(* their threads, calls and deadlines, and their states unless a fiber that *)
(* never ran is done; the new ones belong to the adopted threads.           *)
Keeps(f, g) ==
    /\ g.thread = f.thread /\ g.noted = f.noted /\ g.wake = f.wake /\ g.call = f.call
    /\ g.state = f.state \/ (f.state = "New" /\ f.thread # Primary /\ g.state = "Done")

IsExtended(fs, gs) ==
    /\ gs \in Seq(Fiber) /\ Len(gs) \in Len(fs) .. MaxFibers
    /\ \A i \in 1 .. Len(fs) : Keeps(fs[i], gs[i])
    /\ \A i \in Len(fs) + 1 .. Len(gs) :
          /\ gs[i].state = "New" /\ gs[i].wake = 0
          /\ gs[i].thread # Primary
          /\ \A j \in 1 .. Len(fs) : gs[i].thread # fs[j].thread
    /\ \A i, j \in Len(fs) + 1 .. Len(gs) : gs[i].thread = gs[j].thread => i = j
    /\ \A s \in Adopted(fs) : \E i \in 1 .. Len(gs) : gs[i].thread = HandleOf(s)

(* The counts stay within guest time, and the running fiber's is untouched. *)
CountsKept(fs, gs) ==
    /\ gs[cur].vruntime = fs[cur].vruntime
    /\ \A i \in 1 .. Len(gs) : gs[i].vruntime + (IF i = cur THEN ran ELSE 0) <= clock

LEMMA SyncedExtends ==
    ASSUME RegistryInv, CountsInv, NEW fs, FiberList(fs, cur, ran, clock)
    PROVE  /\ IsExtended(fs, Synced(fs)) /\ CountsKept(fs, Synced(fs))
           /\ \A i \in 1 .. Len(fs) :
                 Synced(fs)[i] = IF Retired(fs[i]) THEN [fs[i] EXCEPT !.state = "Done"]
                                                   ELSE fs[i]
           /\ \A i \in Len(fs) + 1 .. Len(Synced(fs)) :
                 \E s \in Adopted(fs) : Synced(fs)[i].thread = HandleOf(s)
<1> DEFINE A == Adopted(fs)
           nth(k) == CHOOSE s \in A : Rank(A, s) = k
           n == Cardinality(A)
           old == [i \in DOMAIN fs |->
                      IF Retired(fs[i]) THEN [fs[i] EXCEPT !.state = "Done"] ELSE fs[i]]
           new == [k \in 1 .. n |-> NewFiber(HandleOf(nth(k)))]
           gs == Synced(fs)
<1> USE SchedulerAssumption
<1>1. /\ fs \in Seq(Fiber) /\ Len(fs) \in 1 .. MaxFibers /\ DOMAIN fs = 1 .. Len(fs)
      /\ \A i \in 1 .. Len(fs) : fs[i] \in Fiber
      /\ cur \in 1 .. Len(fs)
  BY LenProperties, ElementOfSeq DEF FiberList
<1>2. /\ A \subseteq RunnableSlots
      /\ n \in Nat /\ Len(fs) + n <= MaxFibers
      /\ \A k \in 1 .. n : nth(k) \in A /\ Rank(A, nth(k)) = k
      /\ \A s \in A : \E k \in 1 .. n : nth(k) = s
      /\ \A s \in A : /\ HandleOf(s) \in Threads \ {Primary}
                      /\ \A i \in 1 .. Len(fs) : fs[i].thread # HandleOf(s)
  BY <1>1, AdoptedThreads
<1>3. \A t \in Threads :
        /\ NewFiber(t) \in Fiber
        /\ NewFiber(t).state = "New" /\ NewFiber(t).wake = 0 /\ NewFiber(t).thread = t
        /\ NewFiber(t).vruntime = 0
  BY DEF NewFiber, Fiber, FiberStates, Calls, NoCall, Call, CallKinds
<1>4. ASSUME NEW i \in 1 .. Len(fs)
      PROVE  /\ old[i] \in Fiber /\ Keeps(fs[i], old[i])
             /\ old[i].vruntime = fs[i].vruntime
  <2>1. CASE Retired(fs[i])
    BY <1>1, <2>1 DEF Retired, Keeps, Fiber, FiberStates
  <2>2. CASE ~Retired(fs[i])
    BY <1>1, <2>2 DEF Keeps
  <2> QED BY <2>1, <2>2
<1>5. old \in Seq(Fiber) /\ Len(old) = Len(fs)
  <2>1. old \in [1 .. Len(fs) -> Fiber]
    BY <1>1, <1>4
  <2> HIDE DEF old
  <2> QED BY <2>1, <1>1, FunctionIsSeq
<1>6. ASSUME NEW k \in 1 .. n
      PROVE  /\ new[k] \in Fiber /\ new[k].state = "New" /\ new[k].wake = 0
             /\ new[k].thread = HandleOf(nth(k)) /\ new[k].vruntime = 0
  <2> HIDE DEF A, nth
  <2> QED BY <1>2, <1>3
<1>7. new \in Seq(Fiber) /\ Len(new) = n
  <2>1. new \in [1 .. n -> Fiber]
    BY <1>6
  <2> HIDE DEF new, n
  <2> QED BY <2>1, <1>2, FunctionIsSeq
<1>8. gs = old \o new
  BY DEF Synced
<1> HIDE DEF old, new, gs, n, A
<1>9. /\ gs \in Seq(Fiber) /\ Len(gs) = Len(fs) + n
      /\ \A i \in 1 .. Len(fs) + n : gs[i] = IF i <= Len(fs) THEN old[i] ELSE new[i - Len(fs)]
  <2>1. /\ old \o new \in Seq(Fiber)
        /\ Len(old \o new) = Len(old) + Len(new)
        /\ \A i \in 1 .. Len(old) + Len(new) :
              (old \o new)[i] = IF i <= Len(old) THEN old[i] ELSE new[i - Len(old)]
    BY <1>5, <1>7, ConcatProperties, Zenon
  <2> QED BY <2>1, <1>5, <1>7, <1>8
<1>10. \A i \in 1 .. Len(fs) : gs[i] = old[i]
  BY <1>1, <1>2, <1>9
<1>11. \A i \in Len(fs) + 1 .. Len(gs) : i - Len(fs) \in 1 .. n /\ gs[i] = new[i - Len(fs)]
  BY <1>1, <1>2, <1>9
<1>12. ASSUME NEW i \in Len(fs) + 1 .. Len(gs)
       PROVE  /\ gs[i].state = "New" /\ gs[i].wake = 0 /\ gs[i].vruntime = 0
              /\ nth(i - Len(fs)) \in A
              /\ gs[i].thread = HandleOf(nth(i - Len(fs)))
              /\ gs[i].thread # Primary
              /\ \A j \in 1 .. Len(fs) : gs[i].thread # fs[j].thread
  <2> HIDE DEF nth
  <2>1. i - Len(fs) \in 1 .. n /\ gs[i] = new[i - Len(fs)]
    BY <1>11
  <2> QED BY <2>1, <1>2, <1>6
<1>13. ASSUME NEW i \in Len(fs) + 1 .. Len(gs), NEW j \in Len(fs) + 1 .. Len(gs),
              gs[i].thread = gs[j].thread
       PROVE  i = j
  <2> HIDE DEF nth
  <2>1. nth(i - Len(fs)) = nth(j - Len(fs))
    BY <1>12, <1>13 DEF HandleOf
  <2>2. i - Len(fs) = j - Len(fs)
    BY <2>1, <1>2, <1>11
  <2> QED BY <2>2, <1>1, <1>9
<1>14. ASSUME NEW s \in A
       PROVE  \E i \in 1 .. Len(gs) : gs[i].thread = HandleOf(s)
  <2> HIDE DEF nth
  <2>1. PICK k \in 1 .. n : nth(k) = s
    BY <1>2
  <2>2. Len(fs) + k \in Len(fs) + 1 .. Len(gs) /\ Len(fs) + k - Len(fs) = k
    BY <1>1, <1>2, <1>9
  <2>3. gs[Len(fs) + k].thread = HandleOf(s)
    BY <2>1, <2>2, <1>12
  <2> QED BY <2>2, <2>3, <1>1, <1>9
<1>15. IsExtended(fs, gs)
  <2>1. Len(gs) \in Len(fs) .. MaxFibers
    BY <1>1, <1>2, <1>9
  <2>2. \A i \in 1 .. Len(fs) : Keeps(fs[i], gs[i])
    BY <1>4, <1>10
  <2> QED BY <2>1, <2>2, <1>9, <1>12, <1>13, <1>14 DEF IsExtended, A
<1>16. CountsKept(fs, gs)
  <2>1. gs[cur].vruntime = fs[cur].vruntime
    BY <1>1, <1>4, <1>10
  <2>2. ASSUME NEW i \in 1 .. Len(fs)
        PROVE  gs[i].vruntime + (IF i = cur THEN ran ELSE 0) <= clock
    BY <1>4, <1>10 DEF FiberList
  <2>3. ASSUME NEW i \in Len(fs) + 1 .. Len(gs)
        PROVE  gs[i].vruntime + (IF i = cur THEN ran ELSE 0) <= clock
    <3>1. i # cur
      BY <1>1, <1>2, <1>9
    <3>2. gs[i].vruntime = 0
      BY <1>12
    <3> QED BY <3>1, <3>2 DEF CountsInv
  <2>4. \A i \in 1 .. Len(gs) : i \in 1 .. Len(fs) \/ i \in Len(fs) + 1 .. Len(gs)
    BY <1>1, <1>9
  <2> QED BY <2>1, <2>2, <2>3, <2>4 DEF CountsKept
<1>17. \A i \in 1 .. Len(fs) :
          gs[i] = IF Retired(fs[i]) THEN [fs[i] EXCEPT !.state = "Done"] ELSE fs[i]
  BY <1>1, <1>10 DEF old
<1>18. \A i \in Len(fs) + 1 .. Len(gs) : \E s \in Adopted(fs) : gs[i].thread = HandleOf(s)
  <2> HIDE DEF nth
  <2> QED BY <1>12 DEF A
<1> QED BY <1>15, <1>16, <1>17, <1>18 DEF gs

(* The same fibers with other counts.                                       *)
Recounted(gs, hs) ==
    /\ hs \in Seq(Fiber) /\ Len(hs) = Len(gs)
    /\ \A i \in 1 .. Len(gs) :
          /\ hs[i].thread = gs[i].thread /\ hs[i].noted = gs[i].noted
          /\ hs[i].wake = gs[i].wake /\ hs[i].call = gs[i].call
          /\ hs[i].state = gs[i].state

LEMMA RecountedExtends ==
    ASSUME NEW fs, NEW gs, NEW hs, Len(fs) \in 1 .. MaxFibers,
           IsExtended(fs, gs), Recounted(gs, hs)
    PROVE  IsExtended(fs, hs)
<1> USE SchedulerAssumption
<1>1. Len(gs) \in Len(fs) .. MaxFibers /\ hs \in Seq(Fiber) /\ Len(hs) = Len(gs)
  BY DEF IsExtended, Recounted
<1>2. \A i \in 1 .. Len(fs) : i \in 1 .. Len(gs)
  BY <1>1
<1>3. \A i \in Len(fs) + 1 .. Len(gs) : i \in 1 .. Len(gs)
  BY <1>1
<1>4. \A i \in 1 .. Len(fs) : Keeps(fs[i], hs[i])
  BY <1>2 DEF IsExtended, Recounted, Keeps
<1>5. \A i \in Len(fs) + 1 .. Len(hs) :
          /\ hs[i].state = "New" /\ hs[i].wake = 0
          /\ hs[i].thread # Primary
          /\ \A j \in 1 .. Len(fs) : hs[i].thread # fs[j].thread
  BY <1>1, <1>3 DEF IsExtended, Recounted
<1>6. \A i, j \in Len(fs) + 1 .. Len(hs) : hs[i].thread = hs[j].thread => i = j
  BY <1>1, <1>3 DEF IsExtended, Recounted
<1>7. \A s \in Adopted(fs) : \E i \in 1 .. Len(hs) : hs[i].thread = HandleOf(s)
  BY <1>1 DEF IsExtended, Recounted
<1> QED BY <1>1, <1>4, <1>5, <1>6, <1>7 DEF IsExtended

(* Lowering counts to at most a number loses no type and no bound.          *)
LEMMA LaggedExtends ==
    ASSUME RegistryInv, CountsInv, NEW fs, FiberList(fs, cur, ran, clock),
           NEW gs, IsExtended(fs, gs), CountsKept(fs, gs)
    PROVE  /\ IsExtended(fs, Lagged(gs)) /\ CountsKept(fs, Lagged(gs))
           /\ Recounted(gs, Lagged(gs))
           /\ \A i \in 1 .. Len(gs) :
                 /\ Lagged(gs)[i].vruntime <= gs[i].vruntime
                 /\ IF i \in Candidates(gs, cur)
                    THEN Lagged(gs)[i].vruntime <= FromCount(gs) + MaxLag
                    ELSE Lagged(gs)[i].vruntime = gs[i].vruntime
<1> DEFINE lagged == [i \in DOMAIN gs |->
                        IF i \in Candidates(gs, cur) /\ gs[i].vruntime > LagCap(gs)
                        THEN [gs[i] EXCEPT !.vruntime = LagCap(gs)]
                        ELSE gs[i]]
<1> USE SchedulerAssumption
<1>1. /\ gs \in Seq(Fiber) /\ DOMAIN gs = 1 .. Len(gs) /\ Len(gs) \in 1 .. MaxFibers
      /\ \A i \in 1 .. Len(gs) : gs[i] \in Fiber
      /\ Len(fs) \in 1 .. Len(gs) /\ cur \in 1 .. Len(gs) /\ cur \in 1 .. Len(fs)
  <2>1. gs \in Seq(Fiber) /\ Len(gs) \in Len(fs) .. MaxFibers
        /\ Len(fs) \in 1 .. MaxFibers /\ cur \in 1 .. Len(fs)
    BY DEF IsExtended, FiberList
  <2>2. DOMAIN gs = 1 .. Len(gs) /\ \A i \in 1 .. Len(gs) : gs[i] \in Fiber
    BY <2>1, LenProperties, ElementOfSeq
  <2> QED BY <2>1, <2>2
<1>2. LagCap(gs) \in Nat /\ LagCap(gs) <= FromCount(gs) + MaxLag
  <2> DEFINE S == {gs[i].vruntime : i \in Candidates(gs, cur)} \cup {FromCount(gs)}
  <2>1. \A i \in 1 .. Len(gs) : gs[i].vruntime \in Nat
    BY <1>1 DEF Fiber
  <2>2. FromCount(gs) \in Nat
    BY <1>1, <2>1 DEF FromCount, CountsInv
  <2>3. Candidates(gs, cur) \subseteq 1 .. Len(gs)
    BY <1>1 DEF Candidates
  <2>4. S \in SUBSET Nat /\ S # {}
    BY <2>1, <2>2, <2>3
  <2>5. Least(S) \in Nat /\ Least(S) <= FromCount(gs)
    <3>1. FromCount(gs) \in S
      OBVIOUS
    <3> HIDE DEF S
    <3> QED BY <2>4, <3>1, LeastIs
  <2> QED BY <2>2, <2>5 DEF LagCap
<1>3. ASSUME NEW i \in 1 .. Len(gs)
      PROVE  /\ lagged[i] \in Fiber
             /\ lagged[i].thread = gs[i].thread /\ lagged[i].noted = gs[i].noted
             /\ lagged[i].wake = gs[i].wake /\ lagged[i].call = gs[i].call
             /\ lagged[i].state = gs[i].state
             /\ lagged[i].vruntime <= gs[i].vruntime /\ lagged[i].vruntime \in Nat
             /\ i = cur => lagged[i].vruntime = gs[i].vruntime
             /\ IF i \in Candidates(gs, cur)
                THEN lagged[i].vruntime <= LagCap(gs)
                ELSE lagged[i].vruntime = gs[i].vruntime
  <2> DEFINE cap == LagCap(gs)
  <2>1. gs[i] \in Fiber /\ gs[i].vruntime \in 0 .. MaxClock
    BY <1>1 DEF Fiber
  <2>2. CASE i \in Candidates(gs, cur) /\ gs[i].vruntime > cap
    <3>1. cap \in 0 .. MaxClock /\ cap <= gs[i].vruntime
      BY <2>1, <2>2, <1>2
    <3>2. i # cur
      BY <2>2 DEF Candidates
    <3>3. lagged[i] = [gs[i] EXCEPT !.vruntime = cap]
      BY <2>2, <1>1
    <3> HIDE DEF cap, lagged
    <3>4. lagged[i] \in Fiber /\ lagged[i].vruntime = cap
      BY <2>1, <3>1, <3>3 DEF Fiber
    <3>5. /\ lagged[i].thread = gs[i].thread /\ lagged[i].noted = gs[i].noted
          /\ lagged[i].wake = gs[i].wake /\ lagged[i].call = gs[i].call
          /\ lagged[i].state = gs[i].state
      BY <2>1, <3>3 DEF Fiber
    <3> QED BY <3>1, <3>2, <3>4, <3>5, <2>2 DEF cap
  <2>3. CASE ~(i \in Candidates(gs, cur) /\ gs[i].vruntime > cap)
    <3>1. lagged[i] = gs[i]
      BY <2>3, <1>1
    <3>2. i \in Candidates(gs, cur) => gs[i].vruntime <= cap
      BY <2>1, <2>3, <1>2
    <3> HIDE DEF lagged, cap
    <3> QED BY <3>1, <3>2, <2>1 DEF cap
  <2> QED BY <2>2, <2>3
<1>4. lagged \in Seq(Fiber) /\ Len(lagged) = Len(gs)
  <2>1. lagged \in [1 .. Len(gs) -> Fiber]
    BY <1>1, <1>3
  <2> HIDE DEF lagged
  <2> QED BY <2>1, <1>1, FunctionIsSeq
<1>5. Lagged(gs) = lagged
  <2>1. Lagged(gs) = Evaluated(lagged)
    BY DEF Lagged
  <2> HIDE DEF lagged
  <2> QED BY <2>1, <1>4, EvaluatedIs
<1> HIDE DEF lagged
<1>6. CountsKept(fs, lagged)
  <2>1. \A i \in 1 .. Len(gs) : gs[i].vruntime \in Nat
    BY <1>1 DEF Fiber
  <2>2. ASSUME NEW i \in 1 .. Len(lagged)
        PROVE  lagged[i].vruntime + (IF i = cur THEN ran ELSE 0) <= clock
    <3>1. lagged[i].vruntime \in Nat /\ gs[i].vruntime \in Nat
          /\ lagged[i].vruntime <= gs[i].vruntime
      BY <2>1, <1>3, <1>4
    <3>2. gs[i].vruntime + (IF i = cur THEN ran ELSE 0) <= clock
      BY <1>4 DEF CountsKept
    <3>3. ran \in Nat /\ clock \in Nat
      BY DEF CountsInv
    <3> QED BY <3>1, <3>2, <3>3
  <2> QED BY <2>2, <1>1, <1>3 DEF CountsKept
<1>7. Recounted(gs, lagged)
  BY <1>3, <1>4 DEF Recounted
<1>8. IsExtended(fs, lagged)
  BY <1>7, RecountedExtends DEF FiberList
<1>9. ASSUME NEW i \in 1 .. Len(gs), i \in Candidates(gs, cur)
      PROVE  lagged[i].vruntime <= FromCount(gs) + MaxLag
  <2>1. lagged[i].vruntime <= LagCap(gs) /\ lagged[i].vruntime \in Nat
    BY <1>3, <1>9
  <2>2. FromCount(gs) \in Nat
    <3>1. gs[cur].vruntime \in Nat
      BY <1>1 DEF Fiber
    <3> QED BY <3>1 DEF FromCount, CountsInv
  <2> QED BY <2>1, <2>2, <1>2
<1> QED BY <1>3, <1>4, <1>5, <1>6, <1>7, <1>8, <1>9

(* A candidate is one of the other fibers; some candidate comes before all  *)
(* others, so that there is a choice as soon as there is a candidate.       *)
LEMMA LeastRunExists ==
    ASSUME NEW gs \in Seq(Fiber), cur \in 1 .. Len(gs), Candidates(gs, cur) # {}
    PROVE  LeastRun(gs) # {}
<1> DEFINE C == Candidates(gs, cur)
           counts == {gs[i].vruntime : i \in C}
<1>1. /\ Len(gs) \in Nat /\ DOMAIN gs = 1 .. Len(gs)
      /\ \A i \in 1 .. Len(gs) : gs[i].vruntime \in Nat
  <2>1. Len(gs) \in Nat /\ DOMAIN gs = 1 .. Len(gs)
    BY LenProperties
  <2>2. \A i \in 1 .. Len(gs) : gs[i] \in Fiber
    BY ElementOfSeq
  <2>3. \A f \in Fiber : f.vruntime \in Nat
    BY SchedulerAssumption DEF Fiber
  <2> QED BY <2>1, <2>2, <2>3
<1>2. C \subseteq 1 .. Len(gs)
  BY <1>1 DEF Candidates
<1>3. counts \in SUBSET Nat /\ counts # {}
  BY <1>1, <1>2
<1>4. PICK c \in counts : \A d \in counts : c <= d
  <2> HIDE DEF counts
  <2> QED BY <1>3, LeastExists
<1> DEFINE L == {i \in C : gs[i].vruntime = c}
           turns == {Turn(gs, i) : i \in L}
<1>5. \A i \in C : Turn(gs, i) \in Nat
  BY <1>1, <1>2 DEF Turn
<1>6. turns \in SUBSET Nat /\ turns # {}
  BY <1>4, <1>5
<1>7. PICK t \in turns : \A u \in turns : t <= u
  <2> HIDE DEF turns
  <2> QED BY <1>6, LeastExists
<1>8. PICK i \in L : t = Turn(gs, i)
  OBVIOUS
<1>9. ASSUME NEW j \in C
      PROVE  Precedes(gs, i, j)
  <2>1. gs[i].vruntime = c /\ c <= gs[j].vruntime
    BY <1>4
  <2>2. CASE c = gs[j].vruntime
    BY <2>1, <2>2, <1>7, <1>8 DEF Precedes
  <2>3. CASE c # gs[j].vruntime
    <3>1. c \in Nat /\ gs[j].vruntime \in Nat
      BY <1>1, <1>2, <1>3
    <3> QED BY <2>1, <2>3, <3>1 DEF Precedes
  <2> QED BY <2>2, <2>3
<1> QED BY <1>9 DEF LeastRun

LEMMA ChoiceIs ==
    ASSUME NEW gs, NEW preempting, NEW to \in Choice(gs, preempting)
    PROVE  /\ to = 0 \/ to \in Candidates(gs, cur)
           /\ to = 0 /\ ~preempting => LeastRun(gs) = {} \/ 0 \in Candidates(gs, cur)
BY DEF Choice, LeastRun

LEMMA RaisedExtends ==
    ASSUME CountsInv, NEW fs, FiberList(fs, cur, ran, clock),
           NEW gs, IsExtended(fs, gs), CountsKept(fs, gs),
           NEW to, to = 0 \/ to \in Candidates(gs, cur)
    PROVE  /\ Recounted(gs, Raised(gs, to))
           /\ IsExtended(fs, Raised(gs, to)) /\ CountsKept(fs, Raised(gs, to))
<1> DEFINE floor == IF FromCount(gs) > Quantum THEN FromCount(gs) - Quantum ELSE 0
           hs == [gs EXCEPT ![to].vruntime = floor]
<1> USE SchedulerAssumption
<1>1. /\ gs \in Seq(Fiber) /\ DOMAIN gs = 1 .. Len(gs) /\ Len(gs) \in 1 .. MaxFibers
      /\ \A i \in 1 .. Len(gs) : gs[i] \in Fiber
      /\ Len(fs) \in 1 .. Len(gs) /\ cur \in 1 .. Len(gs) /\ cur \in 1 .. Len(fs)
  <2>1. gs \in Seq(Fiber) /\ Len(gs) \in Len(fs) .. MaxFibers
        /\ Len(fs) \in 1 .. MaxFibers /\ cur \in 1 .. Len(fs)
    BY DEF IsExtended, FiberList
  <2>2. DOMAIN gs = 1 .. Len(gs) /\ \A i \in 1 .. Len(gs) : gs[i] \in Fiber
    BY <2>1, LenProperties, ElementOfSeq
  <2> QED BY <2>1, <2>2
<1>2. CASE ~(to # 0 /\ gs[to].vruntime < floor)
  <2>1. Raised(gs, to) = gs
    BY <1>2 DEF Raised
  <2> QED BY <2>1, <1>1 DEF Recounted
<1>3. CASE to # 0 /\ gs[to].vruntime < floor
  <2>1. Raised(gs, to) = hs
    BY <1>3 DEF Raised
  <2>2. to \in 1 .. Len(gs) /\ to # cur
    BY <1>1, <1>3 DEF Candidates
  <2>3. /\ gs[cur].vruntime \in Nat /\ gs[cur].vruntime + ran <= clock
        /\ clock \in 1 .. MaxClock /\ ran \in Nat
    <3>1. gs[cur].vruntime \in Nat
      BY <1>1 DEF Fiber
    <3>2. gs[cur].vruntime + ran <= clock
      BY <1>1 DEF CountsKept
    <3>3. clock \in 1 .. MaxClock /\ ran \in Nat
      BY DEF CountsInv
    <3> QED BY <3>1, <3>2, <3>3
  <2>4. floor \in 0 .. clock /\ floor \in 0 .. MaxClock
    BY <2>3 DEF FromCount
  <2> HIDE DEF floor
  <2>5. [gs[to] EXCEPT !.vruntime = floor] \in Fiber
    BY <1>1, <2>2, <2>4 DEF Fiber
  <2>6. /\ hs \in Seq(Fiber) /\ Len(hs) = Len(gs)
        /\ hs[to] = [gs[to] EXCEPT !.vruntime = floor]
        /\ \A i \in 1 .. Len(gs) : i # to => hs[i] = gs[i]
    BY <1>1, <2>2, <2>5, ExceptSeq
  <2> HIDE DEF hs
  <2>7. Recounted(gs, hs)
    <3>1. /\ hs[to].thread = gs[to].thread /\ hs[to].noted = gs[to].noted
          /\ hs[to].wake = gs[to].wake /\ hs[to].call = gs[to].call
          /\ hs[to].state = gs[to].state
      BY <1>1, <2>2, <2>6 DEF Fiber
    <3> QED BY <3>1, <2>6 DEF Recounted
  <2>8. CountsKept(fs, hs)
    <3>1. hs[to].vruntime = floor
      BY <1>1, <2>2, <2>6 DEF Fiber
    <3>2. hs[cur].vruntime = fs[cur].vruntime
      BY <1>1, <2>2, <2>6 DEF CountsKept
    <3>3. ASSUME NEW i \in 1 .. Len(hs)
          PROVE  hs[i].vruntime + (IF i = cur THEN ran ELSE 0) <= clock
      <4>1. CASE i = to
        BY <4>1, <3>1, <2>2, <2>3, <2>4
      <4>2. CASE i # to
        BY <4>2, <2>6 DEF CountsKept
      <4> QED BY <4>1, <4>2
    <3> QED BY <3>2, <3>3 DEF CountsKept
  <2> QED BY <2>1, <2>7, <2>8, RecountedExtends DEF FiberList
<1> QED BY <1>2, <1>3

(* What the list of fibers must satisfy survives an extension of it.        *)
LEMMA ExtendedList ==
    ASSUME CountsInv, NEW fs, FiberList(fs, cur, ran, clock),
           NEW gs, IsExtended(fs, gs), CountsKept(fs, gs)
    PROVE  /\ FiberList(gs, cur, ran, clock)
           /\ \A S \in SUBSET (1 .. Len(fs)) : Marked(fs, S) => Marked(gs, S)
<1> USE SchedulerAssumption
<1>1. /\ gs \in Seq(Fiber) /\ Len(gs) \in 1 .. MaxFibers /\ Len(gs) \in Len(fs) .. MaxFibers
      /\ Len(fs) \in 1 .. MaxFibers /\ cur \in 1 .. Len(fs)
      /\ cur \in 1 .. Len(gs) /\ 1 \in 1 .. Len(fs)
  BY DEF IsExtended, FiberList
<1>2. \A i \in 1 .. Len(gs) : i \in 1 .. Len(fs) \/ i \in Len(fs) + 1 .. Len(gs)
  BY <1>1
<1>3. \A i \in 1 .. Len(fs) : Keeps(fs[i], gs[i])
  BY DEF IsExtended
<1>4. \A i \in 1 .. Len(gs) : gs[i].thread = Primary <=> i = 1
  <2>1. \A i \in 1 .. Len(fs) : gs[i].thread = Primary <=> i = 1
    BY <1>3 DEF Keeps, FiberList
  <2>2. \A i \in Len(fs) + 1 .. Len(gs) : gs[i].thread # Primary /\ i # 1
    BY <1>1 DEF IsExtended
  <2> QED BY <2>1, <2>2, <1>2
<1>5. gs[1].state \in {"Running", "Ready", "Blocked"}
  <2>1. fs[1].state \in {"Running", "Ready", "Blocked"}
    BY DEF FiberList
  <2> QED BY <2>1, <1>1, <1>3 DEF Keeps
<1>6. ASSUME NEW i \in 1 .. Len(gs), NEW j \in 1 .. Len(gs), gs[i].thread = gs[j].thread
      PROVE  i = j
  <2>1. CASE i \in 1 .. Len(fs) /\ j \in 1 .. Len(fs)
    BY <2>1, <1>3, <1>6 DEF Keeps, FiberList
  <2>2. CASE i \in Len(fs) + 1 .. Len(gs) /\ j \in Len(fs) + 1 .. Len(gs)
    BY <2>2, <1>6 DEF IsExtended
  <2>3. ASSUME NEW k \in 1 .. Len(fs), NEW l \in Len(fs) + 1 .. Len(gs)
        PROVE  gs[k].thread # gs[l].thread
    BY <1>3 DEF Keeps, IsExtended
  <2> QED BY <2>1, <2>2, <2>3, <1>2, <1>6
<1>7. ASSUME NEW i \in 1 .. Len(gs)
      PROVE  gs[i].wake = IF Asleep(gs[i]) THEN gs[i].call.until ELSE 0
  <2>1. CASE i \in 1 .. Len(fs)
    <3>1. fs[i].wake = IF Asleep(fs[i]) THEN fs[i].call.until ELSE 0
      BY <2>1 DEF FiberList
    <3>2. Asleep(gs[i]) <=> Asleep(fs[i])
      BY <2>1, <1>3 DEF Keeps, Asleep
    <3> QED BY <2>1, <3>1, <3>2, <1>3 DEF Keeps
  <2>2. CASE i \in Len(fs) + 1 .. Len(gs)
    BY <2>2 DEF IsExtended, Asleep
  <2> QED BY <2>1, <2>2, <1>2
<1>8. \A i \in 1 .. Len(gs) : gs[i].vruntime + (IF i = cur THEN ran ELSE 0) <= clock
  BY DEF CountsKept
<1>9. ASSUME NEW S \in SUBSET (1 .. Len(fs)), Marked(fs, S)
      PROVE  Marked(gs, S)
  <2>1. \A i \in 1 .. Len(fs) : gs[i].state = "Running" <=> fs[i].state = "Running"
    BY <1>3 DEF Keeps
  <2>2. \A i \in Len(fs) + 1 .. Len(gs) : gs[i].state # "Running" /\ i \notin S
    BY <1>1 DEF IsExtended
  <2> QED BY <2>1, <2>2, <1>1, <1>2, <1>9 DEF Marked
<1> QED BY <1>1, <1>4, <1>5, <1>6, <1>7, <1>8, <1>9 DEF FiberList

(* PickTarget: the list it leaves, and a target that is another fiber whose *)
(* thread may run; there is one whenever the primary thread could take over *)
(* from a fiber that leaves for good.                                       *)
LEMMA PickOutcome ==
    ASSUME RegistryInv, CountsInv, NEW fs, FiberList(fs, cur, ran, clock),
           NEW preempting \in BOOLEAN, NEW pick \in PickTarget(fs, preempting)
    PROVE  /\ IsExtended(fs, pick.fibers)
           /\ FiberList(pick.fibers, cur, ran, clock)
           /\ \A S \in SUBSET (1 .. Len(fs)) : Marked(fs, S) => Marked(pick.fibers, S)
           /\ pick.target # 0 =>
                /\ pick.target \in (1 .. Len(pick.fibers)) \ {cur}
                /\ pick.target # 1 => ThreadRunnable(pick.fibers[pick.target].thread)
           /\ ~preempting /\ cur # 1 /\ Eligible(fs[1]) => pick.target # 0
<1> DEFINE gs == Lagged(Synced(fs))
<1>1. PICK to \in Choice(gs, preempting) : pick = [target |-> to, fibers |-> Raised(gs, to)]
  BY DEF PickTarget
<1>2. IsExtended(fs, gs) /\ CountsKept(fs, gs)
  BY SyncedExtends, LaggedExtends
<1> HIDE DEF gs
<1>3. to = 0 \/ to \in Candidates(gs, cur)
  BY ChoiceIs
<1>4. /\ Recounted(gs, Raised(gs, to))
      /\ IsExtended(fs, Raised(gs, to)) /\ CountsKept(fs, Raised(gs, to))
  BY <1>2, <1>3, RaisedExtends
<1>5. gs \in Seq(Fiber) /\ DOMAIN gs = 1 .. Len(gs) /\ cur \in 1 .. Len(gs)
      /\ Len(fs) \in 1 .. Len(gs)
  <2>1. gs \in Seq(Fiber) /\ Len(gs) \in Len(fs) .. MaxFibers
        /\ Len(fs) \in 1 .. MaxFibers /\ cur \in 1 .. Len(fs)
    BY <1>2 DEF IsExtended, FiberList
  <2> QED BY <2>1, LenProperties, SchedulerAssumption
<1>6. ASSUME to # 0
      PROVE  /\ to \in (1 .. Len(Raised(gs, to))) \ {cur}
             /\ to # 1 => ThreadRunnable(Raised(gs, to)[to].thread)
  BY <1>3, <1>4, <1>5, <1>6 DEF Candidates, Recounted
<1>7. ASSUME ~preempting, cur # 1, Eligible(fs[1])
      PROVE  to # 0
  <2>1. fs[1].state # "New" /\ Keeps(fs[1], gs[1])
    BY <1>2, <1>5 DEF FiberList, IsExtended
  <2>2. Eligible(gs[1])
    BY <2>1, <1>7 DEF Eligible, Keeps
  <2>3. 1 \in Candidates(gs, cur)
    BY <2>2, <1>5, <1>7 DEF Candidates
  <2>4. LeastRun(gs) # {} /\ 0 \notin Candidates(gs, cur)
    BY <2>3, <1>5, LeastRunExists DEF Candidates
  <2> QED BY <2>4, <1>7, ChoiceIs
<1>8. FiberList(Raised(gs, to), cur, ran, clock)
      /\ \A S \in SUBSET (1 .. Len(fs)) : Marked(fs, S) => Marked(Raised(gs, to), S)
  BY <1>4, ExtendedList
<1> QED BY <1>1, <1>4, <1>6, <1>7, <1>8

-----------------------------------------------------------------------------
(* Changes to one fiber, and to all of them                                 *)

(* One fiber changes and keeps its thread.                                  *)
Replaces(fs, k, g) ==
    /\ k \in 1 .. Len(fs) /\ g \in Fiber /\ g.thread = fs[k].thread
    /\ k = 1 => g.state \in {"Running", "Ready", "Blocked"}
    /\ g.wake = IF Asleep(g) THEN g.call.until ELSE 0

Bounded(fs, on, run, time) ==
    \A i \in 1 .. Len(fs) : fs[i].vruntime + (IF i = on THEN run ELSE 0) <= time

Replaced(fs, k, g, gs) ==
    /\ gs \in Seq(Fiber) /\ Len(gs) = Len(fs) /\ gs[k] = g
    /\ \A i \in 1 .. Len(fs) : i # k => gs[i] = fs[i]

LEMMA ReplacedBy ==
    ASSUME NEW fs \in Seq(Fiber), NEW k \in 1 .. Len(fs), NEW g \in Fiber
    PROVE  Replaced(fs, k, g, [fs EXCEPT ![k] = g])
BY ExceptSeq DEF Replaced

LEMMA OneChanged ==
    ASSUME NEW fs, NEW on, NEW run, NEW time, FiberList(fs, on, run, time),
           NEW k, NEW g, Replaces(fs, k, g), NEW gs, Replaced(fs, k, g, gs),
           NEW onNow, onNow \in 1 .. Len(fs), NEW runNow, Bounded(gs, onNow, runNow, time)
    PROVE  /\ FiberList(gs, onNow, runNow, time)
           /\ \A i \in 1 .. Len(fs) : gs[i].thread = fs[i].thread
<1>1. fs \in Seq(Fiber) /\ Len(fs) \in 1 .. MaxFibers /\ k \in 1 .. Len(fs) /\ g \in Fiber
  BY DEF FiberList, Replaces
<1>2. /\ gs \in Seq(Fiber) /\ Len(gs) = Len(fs) /\ gs[k] = g
      /\ \A i \in 1 .. Len(fs) : i # k => gs[i] = fs[i]
  BY DEF Replaced
<1>3. \A i \in 1 .. Len(fs) : gs[i].thread = fs[i].thread
  BY <1>2 DEF Replaces
<1>4. gs[1].state \in {"Running", "Ready", "Blocked"}
  BY <1>1, <1>2, SchedulerAssumption DEF FiberList, Replaces
<1>5. \A i \in 1 .. Len(gs) : gs[i].wake = IF Asleep(gs[i]) THEN gs[i].call.until ELSE 0
  BY <1>2 DEF FiberList, Replaces
<1>6. FiberList(gs, onNow, runNow, time)
  BY <1>1, <1>2, <1>3, <1>4, <1>5 DEF FiberList, Bounded
<1> QED BY <1>3, <1>6

LEMMA MarksChanged ==
    ASSUME NEW fs, NEW k, NEW g, NEW gs, Replaced(fs, k, g, gs), NEW S, Marked(fs, S)
    PROVE  /\ g.state = "Running" => Marked(gs, S \cup {k})
           /\ g.state # "Running" => Marked(gs, S \ {k})
BY DEF Replaced, Marked

(* GuestFiberNoteProgress.                                                  *)
LEMMA NotedList ==
    ASSUME NEW fs, NEW on, NEW run, NEW time, FiberList(fs, on, run, time)
    PROVE  /\ FiberList(Noted(fs), on, run, time) /\ Len(Noted(fs)) = Len(fs)
           /\ \A i \in 1 .. Len(fs) :
                 /\ Noted(fs)[i].thread = fs[i].thread /\ Noted(fs)[i].state = fs[i].state
                 /\ Noted(fs)[i].call = fs[i].call /\ Noted(fs)[i].noted = TRUE
                 /\ Noted(fs)[i].vruntime = fs[i].vruntime
           /\ \A S : Marked(fs, S) => Marked(Noted(fs), S)
<1> DEFINE gs == [i \in DOMAIN fs |-> [fs[i] EXCEPT !.noted = TRUE]]
<1>1. /\ fs \in Seq(Fiber) /\ DOMAIN fs = 1 .. Len(fs) /\ Len(fs) \in Nat
      /\ \A i \in 1 .. Len(fs) : fs[i] \in Fiber
  BY LenProperties, ElementOfSeq DEF FiberList
<1>2. ASSUME NEW i \in 1 .. Len(fs)
      PROVE  /\ gs[i] \in Fiber /\ gs[i].noted = TRUE
             /\ gs[i].thread = fs[i].thread /\ gs[i].state = fs[i].state
             /\ gs[i].call = fs[i].call /\ gs[i].wake = fs[i].wake
             /\ gs[i].vruntime = fs[i].vruntime
  BY <1>1 DEF Fiber
<1>3. gs \in Seq(Fiber) /\ Len(gs) = Len(fs)
  <2>1. gs \in [1 .. Len(fs) -> Fiber]
    BY <1>1, <1>2
  <2> HIDE DEF gs
  <2> QED BY <2>1, <1>1, FunctionIsSeq
<1>4. Noted(fs) = gs
  <2>1. Noted(fs) = Evaluated(gs)
    BY DEF Noted
  <2> HIDE DEF gs
  <2> QED BY <2>1, <1>3, EvaluatedIs
<1> HIDE DEF gs
<1>5. FiberList(gs, on, run, time)
  <2>1. 1 \in 1 .. Len(fs)
    BY <1>1 DEF FiberList
  <2>2. gs[1].state \in {"Running", "Ready", "Blocked"}
    BY <2>1, <1>2 DEF FiberList
  <2>3. ASSUME NEW i \in 1 .. Len(fs)
        PROVE  /\ gs[i].wake = IF Asleep(gs[i]) THEN gs[i].call.until ELSE 0
               /\ gs[i].vruntime + (IF i = on THEN run ELSE 0) <= time
               /\ gs[i].thread = Primary <=> i = 1
    <3>1. /\ fs[i].wake = IF Asleep(fs[i]) THEN fs[i].call.until ELSE 0
          /\ fs[i].vruntime + (IF i = on THEN run ELSE 0) <= time
          /\ fs[i].thread = Primary <=> i = 1
      BY DEF FiberList
    <3>2. Asleep(gs[i]) <=> Asleep(fs[i])
      BY <1>2 DEF Asleep
    <3> QED BY <3>1, <3>2, <1>2
  <2>4. \A i, j \in 1 .. Len(fs) : gs[i].thread = gs[j].thread => i = j
    <3>1. \A i, j \in 1 .. Len(fs) : fs[i].thread = fs[j].thread => i = j
      BY DEF FiberList
    <3>2. \A i \in 1 .. Len(fs) : gs[i].thread = fs[i].thread
      BY <1>2
    <3> QED BY <3>1, <3>2, Zenon
  <2>5. Len(fs) \in 1 .. MaxFibers /\ on \in 1 .. Len(fs)
    BY DEF FiberList
  <2> QED BY <2>2, <2>3, <2>4, <2>5, <1>3 DEF FiberList
<1>6. \A S : Marked(fs, S) => Marked(gs, S)
  BY <1>2, <1>3 DEF Marked
<1> QED BY <1>2, <1>3, <1>4, <1>5, <1>6

(* A fiber that is not asleep may enter or leave a call.                    *)
LEMMA CallChanged ==
    ASSUME CountsInv, NEW fs, FiberList(fs, cur, ran, clock), Marked(fs, {cur}),
           NEW call \in Calls
    PROVE  LET gs == [fs EXCEPT ![cur].call = call]
           IN  /\ FiberList(gs, cur, ran, clock) /\ Marked(gs, {cur})
               /\ Len(gs) = Len(fs) /\ gs[cur].call = call
               /\ \A i \in 1 .. Len(fs) :
                     gs[i].thread = fs[i].thread /\ gs[i].vruntime = fs[i].vruntime
<1> DEFINE g == [fs[cur] EXCEPT !.call = call]
           gs == [fs EXCEPT ![cur] = g]
<1>1. /\ cur \in 1 .. Len(fs) /\ fs[cur] \in Fiber /\ fs[cur].state = "Running"
      /\ fs \in Seq(Fiber) /\ DOMAIN fs = 1 .. Len(fs)
  BY ElementOfSeq, LenProperties DEF FiberList, Marked
<1>2. /\ g \in Fiber /\ g.thread = fs[cur].thread /\ g.state = "Running"
      /\ g.vruntime = fs[cur].vruntime /\ g.wake = fs[cur].wake /\ g.call = call
  BY <1>1 DEF Fiber
<1>3. fs[cur].wake = 0
  BY <1>1 DEF FiberList, Asleep
<1>4. [fs EXCEPT ![cur].call = call] = gs
  BY <1>1
<1> HIDE DEF g
<1>5. g.wake = IF Asleep(g) THEN g.call.until ELSE 0
  BY <1>2, <1>3 DEF Asleep
<1>6. Replaced(fs, cur, g, gs)
  BY <1>1, <1>2, ReplacedBy
<1> HIDE DEF gs
<1>7. Replaces(fs, cur, g)
  BY <1>1, <1>2, <1>5 DEF Replaces
<1>8. Bounded(gs, cur, ran, clock)
  <2>1. Bounded(fs, cur, ran, clock)
    BY DEF FiberList, Bounded
  <2> QED BY <2>1, <1>2, <1>6 DEF Bounded, Replaced
<1>9. FiberList(gs, cur, ran, clock)
      /\ \A i \in 1 .. Len(fs) : gs[i].thread = fs[i].thread
  BY <1>1, <1>6, <1>7, <1>8, OneChanged
<1>10. Marked(gs, {cur})
  <2>1. Marked(gs, {cur} \cup {cur})
    BY <1>2, <1>6, MarksChanged
  <2> QED BY <2>1
<1>11. \A i \in 1 .. Len(fs) : gs[i].vruntime = fs[i].vruntime
  BY <1>2, <1>6 DEF Replaced
<1> QED BY <1>2, <1>4, <1>6, <1>9, <1>10, <1>11 DEF Replaced

(* SwitchTo: the fiber that leaves is charged its run, and nobody runs.     *)
Left(fs, leaving) ==
    [fs EXCEPT ![cur].vruntime = @ + ran, ![cur].state = leaving, ![cur].noted = FALSE]

HasLeft(fs, gs) ==
    /\ FiberList(gs, cur, 0, clock) /\ Marked(gs, {})
    /\ Len(gs) = Len(fs)
    /\ \A i \in 1 .. Len(fs) : gs[i].thread = fs[i].thread

LEMMA Departure ==
    ASSUME CountsInv, NEW fs, FiberList(fs, cur, ran, clock), Marked(fs, {cur}),
           NEW leaving \in {"Ready", "Blocked"}, NEW wake \in 0 .. MaxClock,
           wake = IF leaving = "Blocked" /\ fs[cur].call.kind \in {"timed", "sleep"}
                  THEN fs[cur].call.until ELSE 0,
           NEW gs, gs = Left([fs EXCEPT ![cur].wake = wake], leaving)
    PROVE  HasLeft(fs, gs)
<1> SUFFICES HasLeft(fs, Left([fs EXCEPT ![cur].wake = wake], leaving))
  OBVIOUS
<1> DEFINE gz == Left([fs EXCEPT ![cur].wake = wake], leaving)
           g == [fs[cur] EXCEPT !.wake = wake, !.vruntime = @ + ran, !.state = leaving,
                                !.noted = FALSE]
<1> USE SchedulerAssumption
<1>1. /\ cur \in 1 .. Len(fs) /\ fs[cur] \in Fiber
      /\ fs \in Seq(Fiber) /\ DOMAIN fs = 1 .. Len(fs)
  BY ElementOfSeq, LenProperties DEF FiberList
<1>2. ran \in Nat /\ clock \in 1 .. MaxClock
  BY DEF CountsInv
<1>3. \A i \in 1 .. Len(fs) : fs[i].vruntime + (IF i = cur THEN ran ELSE 0) <= clock
  BY DEF FiberList
<1>4. fs[cur].vruntime \in Nat /\ fs[cur].vruntime + ran \in 0 .. MaxClock
      /\ fs[cur].vruntime + ran <= clock
  <2>1. fs[cur].vruntime \in 0 .. MaxClock
    BY <1>1 DEF Fiber
  <2>2. fs[cur].vruntime + ran <= clock
    BY <1>1, <1>3
  <2> QED BY <2>1, <2>2, <1>2
<1>5. /\ g \in Fiber /\ g.thread = fs[cur].thread /\ g.state = leaving
      /\ g.vruntime = fs[cur].vruntime + ran /\ g.wake = wake /\ g.call = fs[cur].call
  BY <1>1, <1>4 DEF Fiber, FiberStates
<1>6. gz = [fs EXCEPT ![cur] = g]
  BY <1>1 DEF Fiber, Left
<1> HIDE DEF g, gz
<1>7. g.wake = IF Asleep(g) THEN g.call.until ELSE 0
  BY <1>5 DEF Asleep
<1>8. Replaces(fs, cur, g)
  BY <1>1, <1>5, <1>7 DEF Replaces
<1>9. Replaced(fs, cur, g, gz)
  <2>1. Replaced(fs, cur, g, [fs EXCEPT ![cur] = g])
    BY <1>1, <1>5, ReplacedBy
  <2> QED BY <2>1, <1>6, Zenon
<1>10. Bounded(gz, cur, 0, clock)
  <2>1. ASSUME NEW i \in 1 .. Len(fs)
        PROVE  gz[i].vruntime + (IF i = cur THEN 0 ELSE 0) <= clock
    <3>1. CASE i = cur
      BY <3>1, <1>2, <1>4, <1>5, <1>9, SMTT(60) DEF Replaced
    <3>2. CASE i # cur
      <4>1. fs[i].vruntime + 0 <= clock
        BY <3>2, <1>3
      <4> QED BY <3>2, <4>1, <1>9 DEF Replaced
    <3> QED BY <3>1, <3>2
  <2> QED BY <2>1, <1>9 DEF Bounded, Replaced
<1>11. FiberList(gz, cur, 0, clock) /\ \A i \in 1 .. Len(fs) : gz[i].thread = fs[i].thread
  BY <1>1, <1>8, <1>9, <1>10, OneChanged
<1>12. Marked(gz, {})
  <2>1. Marked(gz, {cur} \ {cur})
    BY <1>5, <1>9, MarksChanged
  <2> QED BY <2>1
<1> QED BY <1>9, <1>11, <1>12 DEF Replaced, HasLeft, gz

(* The same for a fiber that does not leave for a sleep.                    *)
LEMMA DepartureAwake ==
    ASSUME CountsInv, NEW fs, FiberList(fs, cur, ran, clock), Marked(fs, {cur}),
           NEW leaving \in {"Ready", "Blocked"},
           leaving = "Blocked" => fs[cur].call.kind \notin {"timed", "sleep"},
           NEW gs, gs = Left(fs, leaving)
    PROVE  HasLeft(fs, gs)
<1>1. /\ cur \in 1 .. Len(fs) /\ fs[cur] \in Fiber /\ fs[cur].state = "Running"
      /\ fs \in Seq(Fiber) /\ DOMAIN fs = 1 .. Len(fs)
  BY ElementOfSeq, LenProperties DEF FiberList, Marked
<1>2. fs[cur].wake = 0
  BY <1>1 DEF FiberList, Asleep
<1>3. [fs[cur] EXCEPT !.wake = 0] = fs[cur]
  BY <1>1, <1>2 DEF Fiber
<1>4. [fs EXCEPT ![cur].wake = 0] = fs
  BY <1>1, <1>3
<1>5. gs = Left([fs EXCEPT ![cur].wake = 0], leaving)
  BY <1>4
<1>6. 0 \in 0 .. MaxClock
  BY SchedulerAssumption
<1>7. 0 = IF leaving = "Blocked" /\ fs[cur].call.kind \in {"timed", "sleep"}
          THEN fs[cur].call.until ELSE 0
  OBVIOUS
<1> QED BY <1>5, <1>6, <1>7, Departure

-----------------------------------------------------------------------------
(* The invariant holds initially and every step keeps it                    *)

LEMMA InitInv == Init => FiberInv
<1> SUFFICES ASSUME Init PROVE FiberInv
  OBVIOUS
<1> DEFINE f == [NewFiber(Primary) EXCEPT !.state = "Running"]
<1> USE SchedulerAssumption
<1>1. /\ f \in Fiber /\ f.thread = Primary /\ f.state = "Running" /\ f.vruntime = 0
      /\ f.wake = 0
  <2>1. NewFiber(Primary) \in Fiber
    BY DEF Fiber, NewFiber, Threads, FiberStates, Calls, NoCall, Call, CallKinds
  <2>2. NewFiber(Primary).thread = Primary /\ NewFiber(Primary).vruntime = 0
        /\ NewFiber(Primary).wake = 0
    BY DEF NewFiber
  <2> QED BY <2>1, <2>2 DEF Fiber, FiberStates
<1>2. fibers = <<f>>
  BY DEF Init
<1> HIDE DEF f
<1>3. fibers \in Seq(Fiber) /\ Len(fibers) = 1 /\ fibers[1] = f
  BY <1>1, <1>2
<1>4. cur = 1 /\ ran = 0 /\ clock = 1 /\ usedQ = 0
  BY DEF Init
<1>5. FiberList(fibers, cur, ran, clock)
  BY <1>1, <1>3, <1>4 DEF FiberList, Asleep
<1>6. RegistryInv
  BY DEF Init, RegistryInv
<1>7. CountsInv
  BY DEF Init, CountsInv
<1>8. SwitchInv
  <2>1. mode = "guest" /\ target = 1 /\ hostYield = FALSE /\ forceFail = FALSE
    BY DEF Init
  <2>2. Marked(fibers, {cur})
    BY <1>1, <1>3, <1>4 DEF Marked
  <2>3. {cur} = IF mode = "driver" THEN {} ELSE {cur}
    BY <2>1
  <2>4. Marked(fibers, IF mode = "driver" THEN {} ELSE {cur})
    BY <2>2, <2>3, Zenon
  <2>5. target \in 1 .. Len(fibers)
    BY <2>1, <1>3
  <2>6. mode # "driver" /\ mode # "noTarget" /\ mode # "exiting"
        /\ mode \in {"guest", "poll", "idlePoll", "exiting", "driver"} \cup EndModes
    BY <2>1
  <2>7. TargetMayRun
    BY <2>6, Zenon DEF TargetMayRun
  <2> QED BY <2>1, <2>4, <2>5, <2>6, <2>7, Zenon DEF SwitchInv
<1> QED BY <1>5, <1>6, <1>7, <1>8 DEF FiberInv

(* A step after which the driver has a target.                              *)
LEMMA HandsOver ==
    ASSUME FiberInv, FiberList(fibers', cur, ran', clock), Marked(fibers', {}),
           target' \in 1 .. Len(fibers'), mode' = "driver",
           target' \notin {1, cur} => ThreadRunnable(fibers'[target'].thread),
           ran' \in 0 .. clock, usedQ' \in 0 .. clock, hostYield' \in BOOLEAN,
           cur' = cur, forceFail' = FALSE, registry' = registry, clock' = clock,
           waited' = waited
    PROVE  FiberInv'
<1>1. RegistryInv'
  BY DEF FiberInv, RegistryInv
<1>2. CountsInv'
  BY DEF FiberInv, CountsInv
<1>3. \A t : ThreadRunnable(t)' <=> ThreadRunnable(t)
  BY DEF ThreadRunnable, Listed, RunnableSlots, HandleOf
<1>4. TargetMayRun'
  BY <1>3 DEF TargetMayRun
<1>5. SwitchInv'
  BY <1>4 DEF SwitchInv, EndModes
<1>6. FiberList(fibers, cur, ran, clock)'
  OBVIOUS
<1> QED BY <1>1, <1>2, <1>5, <1>6 DEF FiberInv

(* A step after which the same fiber goes on, or the title has ended.       *)
LEMMA GoesOn ==
    ASSUME FiberInv, FiberList(fibers', cur, ran', clock'), Marked(fibers', {cur}),
           Len(fibers) <= Len(fibers'),
           mode' \in {"guest", "poll", "idlePoll", "exiting", "returned", "stopped",
                      "deadlock"},
           mode' = "exiting" => cur # 1,
           RegistryInv', CountsInv', UNCHANGED <<cur, target, hostYield, forceFail>>
    PROVE  FiberInv'
<1>1. target' \in 1 .. Len(fibers')
  BY SchedulerAssumption DEF FiberInv, SwitchInv, FiberList
<1>2. TargetMayRun'
  BY DEF TargetMayRun
<1>3. SwitchInv'
  BY <1>1, <1>2 DEF FiberInv, SwitchInv, EndModes
<1> QED BY <1>3 DEF FiberInv

(* In a call or in guest code, the current fiber is the one marked Running. *)
LEMMA GuestRuns ==
    ASSUME FiberInv, mode \in {"guest", "poll", "idlePoll", "exiting"}
    PROVE  /\ FiberList(fibers, cur, ran, clock) /\ Marked(fibers, {cur})
           /\ RegistryInv /\ CountsInv
           /\ cur \in 1 .. Len(fibers) /\ fibers[cur] \in Fiber
           /\ Len(fibers) \in 1 .. MaxFibers
BY ElementOfSeq DEF FiberInv, SwitchInv, EndModes, FiberList

(* Time passes for all fibers alike.                                        *)
LEMMA LaterList ==
    ASSUME NEW fs, NEW on, NEW run \in Nat, NEW time \in Nat, FiberList(fs, on, run, time),
           NEW later \in Nat, time <= later
    PROVE  FiberList(fs, on, run, later)
<1>1. ASSUME NEW i \in 1 .. Len(fs)
      PROVE  fs[i].vruntime + (IF i = on THEN run ELSE 0) <= later
  <2>1. fs[i].vruntime + (IF i = on THEN run ELSE 0) <= time
    BY DEF FiberList
  <2>2. fs[i] \in Fiber
    BY ElementOfSeq DEF FiberList
  <2>3. fs[i].vruntime \in Nat
    BY <2>2, SchedulerAssumption DEF Fiber
  <2> QED BY <2>1, <2>3
<1> QED BY <1>1 DEF FiberList

LEMMA IdleBounds ==
    ASSUME FiberInv, NEW deadline \in 0 .. MaxClock
    PROVE  IdleUntil(deadline) \in 0 .. MaxClock
<1> DEFINE sleepers == {i \in DOMAIN fibers :
                           fibers[i].state = "Blocked" /\ fibers[i].wake # 0}
           S == {fibers[i].wake : i \in sleepers} \cup {deadline, clock + IdleStep}
<1> USE SchedulerAssumption
<1>1. \A i \in DOMAIN fibers : fibers[i] \in Fiber
  BY ElementOfSeq, LenProperties DEF FiberInv, FiberList
<1>2. \A i \in sleepers : fibers[i].wake \in Nat
  BY <1>1 DEF Fiber
<1>3. clock + IdleStep \in Nat
  BY DEF FiberInv, CountsInv
<1>4. S \in SUBSET Nat /\ deadline \in S
  BY <1>2, <1>3
<1>5. Least(S) \in Nat /\ Least(S) <= deadline
  <2> HIDE DEF S
  <2> QED BY <1>4, LeastIs
<1> QED BY <1>5 DEF IdleUntil

(* The clock may only move forward to that moment.                          *)
LEMMA IdleCounts ==
    ASSUME FiberInv, NEW deadline \in 0 .. MaxClock, Idle(deadline),
           UNCHANGED <<usedQ, waited>>
    PROVE  /\ CountsInv' /\ clock' \in Nat /\ clock <= clock' /\ clock \in Nat
           /\ ran' = ran /\ ran \in Nat
           /\ mode' \in {"poll", "idlePoll"}
           /\ UNCHANGED <<cur, target, hostYield, forceFail>>
<1> USE SchedulerAssumption
<1>1. IdleUntil(deadline) \in 0 .. MaxClock
  BY IdleBounds
<1>2. clock \in 1 .. MaxClock /\ ran \in 0 .. clock /\ usedQ \in 0 .. clock
      /\ waited \in [1 .. MaxFibers -> 0 .. clock]
  BY DEF FiberInv, CountsInv
<1>3. clock' \in 1 .. MaxClock /\ clock <= clock'
  BY <1>1, <1>2 DEF Idle
<1>4. waited' \in [1 .. MaxFibers -> 0 .. clock']
  BY <1>2, <1>3
<1> QED BY <1>2, <1>3, <1>4 DEF Idle, CountsInv

(* A pick made while the current fiber is in guest code or a call, and what *)
(* the three ways of leaving or staying do with it.                         *)
LEMMA PickInGuest ==
    ASSUME FiberInv, NEW fs, FiberList(fs, cur, ran, clock), Marked(fs, {cur}),
           Len(fs) = Len(fibers),
           NEW preempting \in BOOLEAN, NEW pick \in PickTarget(fs, preempting)
    PROVE  /\ FiberList(pick.fibers, cur, ran, clock) /\ Marked(pick.fibers, {cur})
           /\ Len(fibers) <= Len(pick.fibers)
           /\ cur \in 1 .. Len(pick.fibers)
           /\ pick.fibers[cur].call = fs[cur].call
           /\ pick.target # 0 =>
                /\ pick.target \in 1 .. Len(pick.fibers)
                /\ pick.target # 1 => ThreadRunnable(pick.fibers[pick.target].thread)
<1>1. RegistryInv /\ CountsInv
  BY DEF FiberInv
<1>2. /\ IsExtended(fs, pick.fibers)
      /\ FiberList(pick.fibers, cur, ran, clock)
      /\ \A S \in SUBSET (1 .. Len(fs)) : Marked(fs, S) => Marked(pick.fibers, S)
      /\ pick.target # 0 =>
           /\ pick.target \in (1 .. Len(pick.fibers)) \ {cur}
           /\ pick.target # 1 => ThreadRunnable(pick.fibers[pick.target].thread)
  BY <1>1, PickOutcome
<1>3. cur \in 1 .. Len(fs)
  BY DEF FiberList
<1>4. {cur} \in SUBSET (1 .. Len(fs))
  BY <1>3
<1>5. Marked(pick.fibers, {cur})
  BY <1>2, <1>4
<1>6. Len(fibers) <= Len(pick.fibers) /\ cur \in 1 .. Len(pick.fibers)
  BY <1>2, <1>3, SchedulerAssumption DEF IsExtended, FiberList
<1>7. pick.fibers[cur].call = fs[cur].call
  BY <1>2, <1>3 DEF IsExtended, Keeps
<1> QED BY <1>2, <1>5, <1>6, <1>7

(* Leaving at a poll, for a blocked wait or for a yield.                    *)
LEMMA SwitchAwake ==
    ASSUME FiberInv, NEW fs, FiberList(fs, cur, ran, clock), Marked(fs, {cur}),
           NEW to \in 1 .. Len(fs), NEW leaving \in {"Ready", "Blocked"},
           leaving = "Blocked" => fs[cur].call.kind \notin {"timed", "sleep"},
           to \notin {1, cur} => ThreadRunnable(fs[to].thread),
           SwitchTo(fs, to, leaving),
           registry' = registry, clock' = clock, waited' = waited,
           usedQ' \in 0 .. clock, hostYield' \in BOOLEAN
    PROVE  FiberInv'
<1>1. CountsInv /\ forceFail = FALSE
  BY DEF FiberInv, SwitchInv
<1>2. fibers' = Left(fs, leaving)
  BY DEF SwitchTo, Left
<1>3. HasLeft(fs, fibers')
  BY <1>1, <1>2, DepartureAwake
<1>4. target' = to /\ mode' = "driver" /\ ran' = 0 /\ cur' = cur /\ forceFail' = forceFail
  BY DEF SwitchTo
<1>5. ran' \in 0 .. clock
  BY <1>1, <1>4 DEF CountsInv
<1>6. /\ target' \in 1 .. Len(fibers')
      /\ target' \notin {1, cur} => ThreadRunnable(fibers'[target'].thread)
  BY <1>3, <1>4 DEF HasLeft
<1> QED BY <1>1, <1>3, <1>4, <1>5, <1>6, HandsOver DEF HasLeft

LEMMA PollInv == FiberInv /\ Poll => FiberInv'
<1> SUFFICES ASSUME FiberInv, Poll PROVE FiberInv'
  OBVIOUS
<1>1. /\ FiberList(fibers, cur, ran, clock) /\ Marked(fibers, {cur})
      /\ RegistryInv /\ CountsInv /\ cur \in 1 .. Len(fibers)
  BY GuestRuns DEF Poll
<1>2. PICK pick \in IF QuantumOver THEN PickTarget(fibers, TRUE)
                    ELSE {[target |-> 0, fibers |-> fibers]} :
          \/ /\ pick.target # 0
             /\ SwitchTo(pick.fibers, pick.target, "Ready")
             /\ hostYield' = FALSE
          \/ /\ pick.target = 0
             /\ SwitchTo(pick.fibers, cur, "Ready")
             /\ hostYield' = TRUE
          \/ /\ pick.target = 0
             /\ \E woken \in {FALSE, mode = "poll"} :
                   fibers' = IF woken THEN Noted(pick.fibers) ELSE pick.fibers
             /\ mode' = "guest"
             /\ UNCHANGED <<cur, target, hostYield, forceFail, ran>>
  BY DEF Poll
<1>3. registry' = registry /\ clock' = clock /\ waited' = waited
      /\ usedQ' = IF QuantumOver THEN 0 ELSE usedQ
  BY DEF Poll
<1>4. usedQ' \in 0 .. clock
  BY <1>1, <1>3 DEF CountsInv
<1>5. /\ FiberList(pick.fibers, cur, ran, clock) /\ Marked(pick.fibers, {cur})
      /\ Len(fibers) <= Len(pick.fibers)
      /\ cur \in 1 .. Len(pick.fibers)
      /\ pick.target # 0 =>
           /\ pick.target \in 1 .. Len(pick.fibers)
           /\ pick.target # 1 => ThreadRunnable(pick.fibers[pick.target].thread)
  <2>1. CASE QuantumOver
    <3>1. pick \in PickTarget(fibers, TRUE)
      BY <2>1
    <3> QED BY <3>1, <1>1, PickInGuest
  <2>2. CASE ~QuantumOver
    <3>1. pick.target = 0 /\ pick.fibers = fibers
      BY <2>2
    <3> QED BY <3>1, <1>1 DEF FiberList
  <2> QED BY <2>1, <2>2
<1>6. CASE /\ pick.target # 0
           /\ SwitchTo(pick.fibers, pick.target, "Ready")
           /\ hostYield' = FALSE
  BY <1>3, <1>4, <1>5, <1>6, SwitchAwake
<1>7. CASE /\ pick.target = 0
           /\ SwitchTo(pick.fibers, cur, "Ready")
           /\ hostYield' = TRUE
  BY <1>3, <1>4, <1>5, <1>7, SwitchAwake
<1>8. CASE /\ \E woken \in {FALSE, mode = "poll"} :
                 fibers' = IF woken THEN Noted(pick.fibers) ELSE pick.fibers
           /\ mode' = "guest"
           /\ UNCHANGED <<cur, target, hostYield, forceFail, ran>>
  <2>1. fibers' = Noted(pick.fibers) \/ fibers' = pick.fibers
    BY <1>8
  <2>2. /\ FiberList(fibers', cur, ran, clock) /\ Marked(fibers', {cur})
        /\ Len(fibers') = Len(pick.fibers)
    BY <2>1, <1>5, NotedList
  <2>3. RegistryInv' /\ CountsInv'
    BY <1>1, <1>3, <1>4, <1>8 DEF RegistryInv, CountsInv
  <2>4. FiberList(fibers', cur, ran', clock')
    BY <2>2, <1>3, <1>8
  <2> QED BY <2>2, <2>3, <2>4, <1>5, <1>8, GoesOn
<1> QED BY <1>2, <1>6, <1>7, <1>8

LEMMA CallReturnsInv == FiberInv /\ CallReturns => FiberInv'
<1> SUFFICES ASSUME FiberInv, CallReturns PROVE FiberInv'
  OBVIOUS
<1> DEFINE fs == [fibers EXCEPT ![cur].call = NoCall]
<1>1. mode = "guest" /\ fibers' = Noted(fs)
      /\ UNCHANGED <<registry, cur, target, mode, hostYield, forceFail, ran, usedQ, clock,
                     waited>>
  BY DEF CallReturns, InCall, switchVars
<1>2. /\ FiberList(fibers, cur, ran, clock) /\ Marked(fibers, {cur})
      /\ RegistryInv /\ CountsInv
  BY <1>1, GuestRuns
<1>3. NoCall \in Calls
  BY SchedulerAssumption DEF NoCall, Call, Calls, CallKinds
<1>4. FiberList(fs, cur, ran, clock) /\ Marked(fs, {cur}) /\ Len(fs) = Len(fibers)
  BY <1>2, <1>3, CallChanged
<1> HIDE DEF fs
<1>5. FiberList(fibers', cur, ran, clock) /\ Marked(fibers', {cur})
      /\ Len(fibers') = Len(fibers)
  BY <1>1, <1>4, NotedList
<1>6. RegistryInv' /\ CountsInv'
  BY <1>1, <1>2 DEF RegistryInv, CountsInv
<1>7. Len(fibers) <= Len(fibers')
  BY <1>2, <1>5 DEF FiberList
<1> QED BY <1>1, <1>5, <1>6, <1>7, GoesOn

LEMMA WaitBlocksInv == FiberInv /\ WaitBlocks => FiberInv'
<1> SUFFICES ASSUME FiberInv, WaitBlocks PROVE FiberInv'
  OBVIOUS
<1> USE SchedulerAssumption
<1>1. mode = "guest" /\ fibers[cur].call.kind = "wait"
      /\ UNCHANGED <<registry, usedQ, waited>>
  BY DEF WaitBlocks, InCall
<1>2. /\ FiberList(fibers, cur, ran, clock) /\ Marked(fibers, {cur})
      /\ RegistryInv /\ CountsInv /\ cur \in 1 .. Len(fibers) /\ fibers[cur] \in Fiber
  BY <1>1, GuestRuns
<1>3. PICK pick \in PickTarget(fibers, FALSE) :
          \/ /\ pick.target # 0
             /\ SwitchTo(pick.fibers, pick.target, "Blocked")
             /\ UNCHANGED <<hostYield, clock>>
          \/ /\ pick.target = 0
             /\ clock - IdleSince < MaxIdle
             /\ clock + IdleStep <= MaxClock
             /\ fibers' = [pick.fibers EXCEPT ![cur].call = Call("wait", IdleSince)]
             /\ Idle(clock + IdleStep)
          \/ /\ pick.target = 0
             /\ clock - IdleSince >= MaxIdle
             /\ fibers' = pick.fibers
             /\ mode' = "deadlock"
             /\ UNCHANGED <<cur, target, hostYield, forceFail, ran, clock>>
  BY DEF WaitBlocks
<1>4. /\ FiberList(pick.fibers, cur, ran, clock) /\ Marked(pick.fibers, {cur})
      /\ Len(fibers) <= Len(pick.fibers)
      /\ cur \in 1 .. Len(pick.fibers)
      /\ pick.fibers[cur].call = fibers[cur].call
      /\ pick.target # 0 =>
           /\ pick.target \in 1 .. Len(pick.fibers)
           /\ pick.target # 1 => ThreadRunnable(pick.fibers[pick.target].thread)
  BY <1>2, PickInGuest
<1>5. clock \in 1 .. MaxClock /\ usedQ \in 0 .. clock
  BY <1>2 DEF CountsInv
<1>6. CASE /\ pick.target # 0
           /\ SwitchTo(pick.fibers, pick.target, "Blocked")
           /\ UNCHANGED <<hostYield, clock>>
  <2>1. pick.fibers[cur].call.kind \notin {"timed", "sleep"}
    BY <1>1, <1>4
  <2>2. hostYield' \in BOOLEAN /\ usedQ' \in 0 .. clock
    BY <1>1, <1>5, <1>6 DEF FiberInv, SwitchInv
  <2> QED BY <2>1, <2>2, <1>1, <1>4, <1>6, SwitchAwake
<1>7. CASE /\ clock + IdleStep <= MaxClock
           /\ fibers' = [pick.fibers EXCEPT ![cur].call = Call("wait", IdleSince)]
           /\ Idle(clock + IdleStep)
  <2>1. clock + IdleStep \in 0 .. MaxClock
    BY <1>5, <1>7
  <2>2. IdleSince \in 0 .. MaxClock
    BY <1>2, <1>5 DEF IdleSince, Fiber, Calls
  <2>3. Call("wait", IdleSince) \in Calls
    BY <2>2 DEF Call, Calls, CallKinds
  <2>4. /\ FiberList(fibers', cur, ran, clock) /\ Marked(fibers', {cur})
        /\ Len(fibers') = Len(pick.fibers)
    BY <2>3, <1>2, <1>4, <1>7, CallChanged
  <2>5. /\ CountsInv' /\ clock' \in Nat /\ clock <= clock' /\ clock \in Nat
        /\ ran' = ran /\ ran \in Nat
        /\ mode' \in {"poll", "idlePoll"}
        /\ UNCHANGED <<cur, target, hostYield, forceFail>>
    BY <2>1, <1>1, <1>7, IdleCounts
  <2>6. FiberList(fibers', cur, ran', clock')
    BY <2>4, <2>5, LaterList
  <2>7. RegistryInv'
    BY <1>1, <1>2 DEF RegistryInv
  <2> QED BY <2>4, <2>5, <2>6, <2>7, <1>4, GoesOn
<1>8. CASE /\ fibers' = pick.fibers
           /\ mode' = "deadlock"
           /\ UNCHANGED <<cur, target, hostYield, forceFail, ran, clock>>
  <2>1. RegistryInv' /\ CountsInv'
    BY <1>1, <1>2, <1>8 DEF RegistryInv, CountsInv
  <2>2. FiberList(fibers', cur, ran', clock') /\ Marked(fibers', {cur})
        /\ Len(fibers) <= Len(fibers')
    BY <1>4, <1>8
  <2> QED BY <2>1, <2>2, <1>8, GoesOn
<1> QED BY <1>3, <1>6, <1>7, <1>8

LEMMA SleepContinuesInv == FiberInv /\ SleepContinues => FiberInv'
<1> SUFFICES ASSUME FiberInv, SleepContinues PROVE FiberInv'
  OBVIOUS
<1> DEFINE deadline == fibers[cur].call.until
<1> USE SchedulerAssumption
<1>1. mode = "guest" /\ fibers[cur].call.kind \in {"timed", "sleep"}
      /\ UNCHANGED <<registry, usedQ, waited>>
  BY DEF SleepContinues, InCall
<1>2. /\ FiberList(fibers, cur, ran, clock) /\ Marked(fibers, {cur})
      /\ RegistryInv /\ CountsInv /\ cur \in 1 .. Len(fibers) /\ fibers[cur] \in Fiber
  BY <1>1, GuestRuns
<1>3. deadline \in 0 .. MaxClock
  BY <1>2 DEF Fiber, Calls
<1>4. PICK pick \in PickTarget(fibers, FALSE) :
          \/ /\ pick.target # 0
             /\ SwitchTo([pick.fibers EXCEPT ![cur].wake = deadline], pick.target, "Blocked")
             /\ UNCHANGED <<hostYield, clock>>
          \/ /\ pick.target = 0
             /\ fibers' = pick.fibers
             /\ Idle(deadline)
  BY DEF SleepContinues
<1>5. /\ FiberList(pick.fibers, cur, ran, clock) /\ Marked(pick.fibers, {cur})
      /\ Len(fibers) <= Len(pick.fibers)
      /\ cur \in 1 .. Len(pick.fibers)
      /\ pick.fibers[cur].call = fibers[cur].call
      /\ pick.target # 0 =>
           /\ pick.target \in 1 .. Len(pick.fibers)
           /\ pick.target # 1 => ThreadRunnable(pick.fibers[pick.target].thread)
  BY <1>2, PickInGuest
<1> HIDE DEF deadline
<1>6. CASE /\ pick.target # 0
           /\ SwitchTo([pick.fibers EXCEPT ![cur].wake = deadline], pick.target, "Blocked")
           /\ UNCHANGED <<hostYield, clock>>
  <2>1. fibers' = Left([pick.fibers EXCEPT ![cur].wake = deadline], "Blocked")
    BY <1>6 DEF SwitchTo, Left
  <2>2. deadline = IF "Blocked" = "Blocked" /\ pick.fibers[cur].call.kind \in {"timed", "sleep"}
                   THEN pick.fibers[cur].call.until ELSE 0
    BY <1>1, <1>5 DEF deadline
  <2>3. HasLeft(pick.fibers, fibers')
    BY <2>1, <2>2, <1>2, <1>3, <1>5, Departure
  <2>4. target' = pick.target /\ mode' = "driver" /\ ran' = 0 /\ cur' = cur
        /\ forceFail' = FALSE
    BY <1>6 DEF SwitchTo, FiberInv, SwitchInv
  <2>5. ran' \in 0 .. clock /\ usedQ' \in 0 .. clock /\ hostYield' \in BOOLEAN
    BY <2>4, <1>1, <1>2, <1>6 DEF CountsInv, FiberInv, SwitchInv
  <2>6. /\ target' \in 1 .. Len(fibers')
        /\ target' \notin {1, cur} => ThreadRunnable(fibers'[target'].thread)
    BY <2>3, <2>4, <1>5, <1>6 DEF HasLeft
  <2>7. FiberList(fibers', cur, ran', clock) /\ Marked(fibers', {})
    BY <2>3, <2>4 DEF HasLeft
  <2>8. registry' = registry /\ clock' = clock /\ waited' = waited
    BY <1>1, <1>6
  <2>9. mode' = "driver" /\ cur' = cur /\ forceFail' = FALSE
    BY <2>4
  <2> QED BY <2>5, <2>6, <2>7, <2>8, <2>9, HandsOver
<1>7. CASE fibers' = pick.fibers /\ Idle(deadline)
  <2>1. /\ CountsInv' /\ clock' \in Nat /\ clock <= clock' /\ clock \in Nat
        /\ ran' = ran /\ ran \in Nat
        /\ mode' \in {"poll", "idlePoll"}
        /\ UNCHANGED <<cur, target, hostYield, forceFail>>
    BY <1>1, <1>3, <1>7, IdleCounts
  <2>2. FiberList(fibers', cur, ran', clock')
    BY <2>1, <1>5, <1>7, LaterList
  <2>3. RegistryInv'
    BY <1>1, <1>2 DEF RegistryInv
  <2> QED BY <2>1, <2>2, <2>3, <1>5, <1>7, GoesOn
<1> QED BY <1>4, <1>6, <1>7

LEMMA RunInv == FiberInv /\ Run => FiberInv'
<1> SUFFICES ASSUME FiberInv, Run PROVE FiberInv'
  OBVIOUS
<1> USE SchedulerAssumption
<1>1. /\ mode = "guest" /\ clock < MaxClock /\ clock' = clock + 1 /\ ran' = ran + 1
      /\ usedQ' = usedQ + 1 /\ mode' = "poll"
      /\ waited' = [i \in 1 .. MaxFibers |->
                       IF i \in Candidates(fibers, cur) THEN waited[i] + 1 ELSE 0]
      /\ UNCHANGED <<registry, fibers, cur, target, hostYield, forceFail>>
  BY DEF Run, InGuest, InCall
<1>2. /\ FiberList(fibers, cur, ran, clock) /\ Marked(fibers, {cur})
      /\ RegistryInv /\ CountsInv /\ Len(fibers) \in 1 .. MaxFibers
  BY <1>1, GuestRuns
<1>3. /\ clock \in 1 .. MaxClock /\ ran \in 0 .. clock /\ usedQ \in 0 .. clock
      /\ waited \in [1 .. MaxFibers -> 0 .. clock]
  BY <1>2 DEF CountsInv
<1>4. waited' \in [1 .. MaxFibers -> 0 .. clock']
  <2>1. \A i \in 1 .. MaxFibers : waited[i] + 1 \in 0 .. clock + 1 /\ 0 \in 0 .. clock + 1
    BY <1>3
  <2> QED BY <2>1, <1>1
<1>5. CountsInv'
  BY <1>1, <1>3, <1>4 DEF CountsInv
<1>6. FiberList(fibers, cur, ran + 1, clock + 1)
  <2>1. ASSUME NEW i \in 1 .. Len(fibers)
        PROVE  fibers[i].vruntime + (IF i = cur THEN ran + 1 ELSE 0) <= clock + 1
    <3>1. fibers[i].vruntime + (IF i = cur THEN ran ELSE 0) <= clock
      BY <1>2 DEF FiberList
    <3>2. fibers[i] \in Fiber
      BY <1>2, ElementOfSeq DEF FiberList
    <3>3. fibers[i].vruntime \in Nat
      BY <3>2 DEF Fiber
    <3> QED BY <3>1, <3>3, <1>3
  <2> QED BY <2>1, <1>2 DEF FiberList
<1>7. RegistryInv'
  BY <1>1, <1>2 DEF RegistryInv
<1> QED BY <1>1, <1>2, <1>5, <1>6, <1>7, GoesOn

LEMMA ServiceCallInv == FiberInv /\ ServiceCall => FiberInv'
<1> SUFFICES ASSUME FiberInv, ServiceCall PROVE FiberInv'
  OBVIOUS
<1> USE SchedulerAssumption
<1>1. /\ mode = "guest" /\ fibers' = Noted(fibers)
      /\ UNCHANGED <<cur, target, mode, hostYield, forceFail, ran, usedQ, clock, waited>>
  BY DEF ServiceCall, InGuest, InCall, switchVars
<1>2. /\ FiberList(fibers, cur, ran, clock) /\ Marked(fibers, {cur})
      /\ RegistryInv /\ CountsInv /\ Len(fibers) \in 1 .. MaxFibers
  BY <1>1, GuestRuns
<1>3. FiberList(fibers', cur, ran, clock) /\ Marked(fibers', {cur})
      /\ Len(fibers') = Len(fibers)
  BY <1>1, <1>2, NotedList
<1>4. RegistryInv'
  <2>1. CASE UNCHANGED registry
    BY <2>1, <1>2 DEF RegistryInv
  <2>2. ASSUME NEW s \in Slots, CreateThread(s)
        PROVE  RegistryInv'
    <3>1. PICK life \in {"runnable", "suspended"} :
             registry' = [registry EXCEPT ![s] = [gen |-> @.gen + 1, life |-> life]]
      BY <2>2 DEF CreateThread
    <3>2. registry[s].gen + 1 \in 1 .. MaxGen
      BY <2>2, <1>2 DEF CreateThread, RegistryInv
    <3> QED BY <3>1, <3>2, <1>2 DEF RegistryInv
  <2>3. ASSUME NEW s \in Slots, SuspendThread(s) \/ ResumeThread(s)
        PROVE  RegistryInv'
    BY <2>3, <1>2, SMTT(60) DEF SuspendThread, ResumeThread, RegistryInv
  <2> QED BY <2>1, <2>2, <2>3 DEF ServiceCall
<1>5. CountsInv'
  BY <1>1, <1>2 DEF CountsInv
<1> QED BY <1>1, <1>2, <1>3, <1>4, <1>5, GoesOn

LEMMA YieldInv == FiberInv /\ Yield => FiberInv'
<1> SUFFICES ASSUME FiberInv, Yield PROVE FiberInv'
  OBVIOUS
<1> DEFINE fs == [fibers EXCEPT ![cur].call = Call("yield", 0)]
<1> USE SchedulerAssumption
<1>1. /\ mode = "guest"
      /\ UNCHANGED <<registry, hostYield, usedQ, clock, waited>>
  BY DEF Yield, InGuest, InCall
<1>2. PICK pick \in PickTarget(Noted(fs), FALSE) :
          \/ /\ pick.target # 0
             /\ SwitchTo(pick.fibers, pick.target, "Ready")
          \/ /\ pick.target = 0
             /\ fibers' = pick.fibers
             /\ UNCHANGED <<cur, target, mode, forceFail, ran>>
  BY DEF Yield
<1>3. /\ FiberList(fibers, cur, ran, clock) /\ Marked(fibers, {cur})
      /\ RegistryInv /\ CountsInv
  BY <1>1, GuestRuns
<1>4. Call("yield", 0) \in Calls
  BY DEF Call, Calls, CallKinds
<1>5. FiberList(fs, cur, ran, clock) /\ Marked(fs, {cur}) /\ Len(fs) = Len(fibers)
  BY <1>3, <1>4, CallChanged
<1> HIDE DEF fs
<1>6. FiberList(Noted(fs), cur, ran, clock) /\ Marked(Noted(fs), {cur})
      /\ Len(Noted(fs)) = Len(fibers)
  BY <1>5, NotedList
<1>7. /\ FiberList(pick.fibers, cur, ran, clock) /\ Marked(pick.fibers, {cur})
      /\ Len(fibers) <= Len(pick.fibers)
      /\ cur \in 1 .. Len(pick.fibers)
      /\ pick.target # 0 =>
           /\ pick.target \in 1 .. Len(pick.fibers)
           /\ pick.target # 1 => ThreadRunnable(pick.fibers[pick.target].thread)
  BY <1>6, PickInGuest
<1>8. CASE pick.target # 0 /\ SwitchTo(pick.fibers, pick.target, "Ready")
  <2>1. hostYield' \in BOOLEAN /\ usedQ' \in 0 .. clock
    BY <1>1, <1>3 DEF FiberInv, SwitchInv, CountsInv
  <2> QED BY <2>1, <1>1, <1>7, <1>8, SwitchAwake
<1>9. CASE fibers' = pick.fibers /\ UNCHANGED <<cur, target, mode, forceFail, ran>>
  <2>1. RegistryInv' /\ CountsInv'
    BY <1>1, <1>3, <1>9 DEF RegistryInv, CountsInv
  <2> QED BY <2>1, <1>1, <1>7, <1>9, GoesOn
<1> QED BY <1>2, <1>8, <1>9

LEMMA EnterCallInv == FiberInv /\ EnterCall => FiberInv'
<1> SUFFICES ASSUME FiberInv, EnterCall PROVE FiberInv'
  OBVIOUS
<1> USE SchedulerAssumption
<1>1. mode = "guest"
      /\ UNCHANGED <<registry, cur, target, mode, hostYield, forceFail, ran, usedQ, clock,
                     waited>>
  BY DEF EnterCall, InGuest, InCall, switchVars
<1>2. /\ FiberList(fibers, cur, ran, clock) /\ Marked(fibers, {cur})
      /\ RegistryInv /\ CountsInv /\ Len(fibers) \in 1 .. MaxFibers
  BY <1>1, GuestRuns
<1>3. ASSUME NEW call \in Calls,
             \/ fibers' = [fibers EXCEPT ![cur].call = call]
             \/ fibers' = Noted([fibers EXCEPT ![cur].call = call])
      PROVE  FiberInv'
  <2> DEFINE fs == [fibers EXCEPT ![cur].call = call]
  <2>1. FiberList(fs, cur, ran, clock) /\ Marked(fs, {cur}) /\ Len(fs) = Len(fibers)
    BY <1>2, CallChanged
  <2>2. fibers' = fs \/ fibers' = Noted(fs)
    BY <1>3
  <2> HIDE DEF fs
  <2>3. FiberList(fibers', cur, ran, clock) /\ Marked(fibers', {cur})
        /\ Len(fibers') = Len(fibers)
    BY <2>1, <2>2, NotedList
  <2>4. RegistryInv' /\ CountsInv'
    BY <1>1, <1>2 DEF RegistryInv, CountsInv
  <2> QED BY <2>3, <2>4, <1>1, <1>2, GoesOn
<1>4. Call("wait", 0) \in Calls
  BY DEF Call, Calls, CallKinds
<1>5. \A d \in Delays : clock + d <= MaxClock =>
         Call("timed", clock + d) \in Calls /\ Call("sleep", clock + d) \in Calls
  BY <1>2 DEF Call, Calls, CallKinds, CountsInv
<1>6. \/ fibers' = [fibers EXCEPT ![cur].call = Call("wait", 0)]
      \/ \E d \in Delays :
            /\ clock + d <= MaxClock
            /\ \/ fibers' = [fibers EXCEPT ![cur].call = Call("timed", clock + d)]
               \/ fibers' = Noted([fibers EXCEPT ![cur].call = Call("sleep", clock + d)])
  BY DEF EnterCall
<1> QED BY <1>3, <1>4, <1>5, <1>6

LEMMA ThreadExitsInv == FiberInv /\ ThreadExits => FiberInv'
<1> SUFFICES ASSUME FiberInv, ThreadExits PROVE FiberInv'
  OBVIOUS
<1>1. /\ mode = "guest" /\ cur # 1 /\ mode' = "exiting"
      /\ registry' = [registry EXCEPT ![fibers[cur].thread[1]].life = "free"]
      /\ UNCHANGED <<fibers, cur, target, hostYield, forceFail, ran, usedQ, clock, waited>>
  BY DEF ThreadExits, InGuest, InCall
<1>2. /\ FiberList(fibers, cur, ran, clock) /\ Marked(fibers, {cur})
      /\ RegistryInv /\ CountsInv /\ Len(fibers) \in 1 .. MaxFibers
  BY <1>1, GuestRuns
<1>3. RegistryInv'
  BY <1>1, <1>2 DEF RegistryInv
<1>4. CountsInv'
  BY <1>1, <1>2 DEF CountsInv
<1>5. Len(fibers) <= Len(fibers')
  BY <1>1, <1>2, SchedulerAssumption
<1> QED BY <1>1, <1>2, <1>3, <1>4, <1>5, GoesOn

(* The fiber that ends leaves the primary thread's ready to look at its     *)
(* wait again, so a target is found.                                        *)
LEMMA FinishedList ==
    ASSUME FiberInv, mode = "exiting"
    PROVE  /\ FiberList(Finished(fibers), cur, ran, clock) /\ Marked(Finished(fibers), {})
           /\ Len(Finished(fibers)) = Len(fibers)
           /\ cur # 1 /\ Eligible(Finished(fibers)[1])
<1> DEFINE g == [fibers[cur] EXCEPT !.state = "Done"]
           fs == [fibers EXCEPT ![cur] = g]
<1> USE SchedulerAssumption
<1>1. /\ FiberList(fibers, cur, ran, clock) /\ Marked(fibers, {cur})
      /\ CountsInv /\ cur \in 1 .. Len(fibers) /\ fibers[cur] \in Fiber
      /\ Len(fibers) \in 1 .. MaxFibers
      /\ fibers \in Seq(Fiber) /\ DOMAIN fibers = 1 .. Len(fibers)
  BY GuestRuns, LenProperties DEF FiberList
<1>2. cur # 1
  BY DEF FiberInv, SwitchInv
<1>3. fibers[cur].state = "Running" /\ fibers[cur].wake = 0
  BY <1>1 DEF Marked, FiberList, Asleep
<1>4. /\ g \in Fiber /\ g.thread = fibers[cur].thread /\ g.state = "Done"
      /\ g.vruntime = fibers[cur].vruntime /\ g.wake = 0
  BY <1>1, <1>3 DEF Fiber, FiberStates
<1>5. [fibers EXCEPT ![cur].state = "Done"] = fs
  BY <1>1
<1> HIDE DEF g
<1>6. Replaced(fibers, cur, g, fs)
  BY <1>1, <1>4, ReplacedBy
<1> HIDE DEF fs
<1>7. Replaces(fibers, cur, g)
  BY <1>1, <1>2, <1>4 DEF Replaces, Asleep
<1>8. Bounded(fs, cur, ran, clock)
  <2>1. Bounded(fibers, cur, ran, clock)
    BY <1>1 DEF FiberList, Bounded
  <2> QED BY <2>1, <1>4, <1>6 DEF Bounded, Replaced
<1>9. FiberList(fs, cur, ran, clock)
  BY <1>1, <1>6, <1>7, <1>8, OneChanged
<1>10. Marked(fs, {})
  <2>1. Marked(fs, {cur} \ {cur})
    BY <1>1, <1>4, <1>6, MarksChanged
  <2> QED BY <2>1
<1>11. /\ FiberList(Noted(fs), cur, ran, clock) /\ Len(Noted(fs)) = Len(fs)
       /\ Marked(Noted(fs), {})
       /\ Noted(fs)[1].noted = TRUE
  <2>1. 1 \in 1 .. Len(fs)
    BY <1>1, <1>6 DEF Replaced
  <2> QED BY <2>1, <1>9, <1>10, NotedList
<1>12. Finished(fibers) = Noted(fs)
  BY <1>5 DEF Finished
<1>13. Eligible(Noted(fs)[1])
  <2>1. Noted(fs)[1].state \in {"Running", "Ready", "Blocked"}
    BY <1>11 DEF FiberList
  <2>2. Noted(fs)[1].state # "Running"
    BY <1>1, <1>6, <1>11 DEF Marked, Replaced
  <2> QED BY <2>1, <2>2, <1>11 DEF Eligible
<1>14. Len(fs) = Len(fibers)
  BY <1>6 DEF Replaced
<1> QED BY <1>2, <1>11, <1>12, <1>13, <1>14

LEMMA FiberEndsInv == FiberInv /\ FiberEnds => FiberInv'
<1> SUFFICES ASSUME FiberInv, FiberEnds PROVE FiberInv'
  OBVIOUS
<1> DEFINE fs == Finished(fibers)
<1>1. mode = "exiting" /\ UNCHANGED <<registry, cur, hostYield, ran, usedQ, clock, waited>>
  BY DEF FiberEnds
<1>2. PICK pick \in PickTarget(fs, FALSE) :
          /\ fibers' = pick.fibers
          /\ target' = IF pick.target # 0 THEN pick.target ELSE 1
          /\ forceFail' = (pick.target = 0 /\ pick.fibers[1].state \in {"Blocked", "Ready"})
          /\ mode' = IF pick.target # 0 \/ pick.fibers[1].state \in {"Blocked", "Ready"}
                     THEN "driver" ELSE "noTarget"
  BY DEF FiberEnds
<1>3. /\ FiberList(fs, cur, ran, clock) /\ Marked(fs, {})
      /\ Len(fs) = Len(fibers)
      /\ cur # 1 /\ Eligible(fs[1])
  BY <1>1, FinishedList
<1> HIDE DEF fs
<1>4. RegistryInv /\ CountsInv
  BY DEF FiberInv
<1>5. /\ FiberList(pick.fibers, cur, ran, clock)
      /\ \A S \in SUBSET (1 .. Len(fs)) : Marked(fs, S) => Marked(pick.fibers, S)
      /\ pick.target # 0
      /\ pick.target \in 1 .. Len(pick.fibers)
      /\ pick.target # 1 => ThreadRunnable(pick.fibers[pick.target].thread)
  BY <1>3, <1>4, PickOutcome
<1>6. Marked(pick.fibers, {})
  BY <1>3, <1>5
<1>7. target' = pick.target /\ forceFail' = FALSE /\ mode' = "driver"
  BY <1>2, <1>5
<1>8. ran' \in 0 .. clock /\ usedQ' \in 0 .. clock /\ hostYield' \in BOOLEAN
  BY <1>1, <1>4 DEF CountsInv, FiberInv, SwitchInv
<1> QED BY <1>1, <1>2, <1>5, <1>6, <1>7, <1>8, HandsOver
LEMMA TitleEndsInv == FiberInv /\ TitleEnds => FiberInv'
<1> SUFFICES ASSUME FiberInv, TitleEnds PROVE FiberInv'
  OBVIOUS
<1>1. /\ mode = "guest" /\ mode' \in {"stopped", "returned"}
      /\ UNCHANGED <<registry, fibers, cur, target, hostYield, forceFail, ran, usedQ, clock,
                     waited>>
  BY DEF TitleEnds, InGuest, InCall
<1>2. /\ FiberList(fibers, cur, ran, clock) /\ Marked(fibers, {cur})
      /\ RegistryInv /\ CountsInv /\ Len(fibers) \in 1 .. MaxFibers
  BY <1>1, GuestRuns
<1>3. RegistryInv' /\ CountsInv'
  BY <1>1, <1>2 DEF RegistryInv, CountsInv
<1>4. Len(fibers) <= Len(fibers')
  BY <1>1, <1>2, SchedulerAssumption
<1> QED BY <1>1, <1>2, <1>3, <1>4, GoesOn

LEMMA PrepareInv == FiberInv /\ Prepare => FiberInv'
<1> SUFFICES ASSUME FiberInv, Prepare PROVE FiberInv'
  OBVIOUS
<1> DEFINE g == Resumed(fibers[target])
<1> USE SchedulerAssumption
<1>1. /\ mode = "driver" /\ cur' = target /\ mode' = "guest" /\ hostYield' = FALSE
      /\ ran' = 0 /\ usedQ' = QuantumAfterSwitch
      /\ waited' = IF target = cur THEN waited ELSE [i \in 1 .. MaxFibers |-> 0]
      /\ registry' = registry /\ target' = target /\ forceFail' = forceFail /\ clock' = clock
      /\ fibers' = [fibers EXCEPT ![target] = g]
  BY DEF Prepare
<1>2. /\ FiberList(fibers, cur, ran, clock) /\ Marked(fibers, {})
      /\ RegistryInv /\ CountsInv /\ target \in 1 .. Len(fibers)
      /\ forceFail = FALSE
  BY <1>1 DEF FiberInv, SwitchInv, EndModes
<1>3. fibers \in Seq(Fiber) /\ Len(fibers) \in 1 .. MaxFibers /\ fibers[target] \in Fiber
  BY <1>2, ElementOfSeq DEF FiberList
<1>4. /\ g \in Fiber /\ g.thread = fibers[target].thread /\ g.state = "Running"
      /\ g.vruntime = fibers[target].vruntime /\ g.wake = 0
  <2>1. 0 \in 0 .. MaxClock
    OBVIOUS
  <2>2. g = [fibers[target] EXCEPT !.state = "Running", !.wake = 0]
    BY DEF Resumed
  <2> HIDE DEF g
  <2> QED BY <2>1, <2>2, <1>3 DEF Fiber, FiberStates
<1> HIDE DEF g
<1>5. Replaced(fibers, target, g, fibers')
  BY <1>1, <1>2, <1>3, <1>4, ReplacedBy
<1>6. Replaces(fibers, target, g)
  BY <1>2, <1>4 DEF Replaces, Asleep
<1>7. Bounded(fibers', target, 0, clock)
  <2>1. ran \in Nat /\ clock \in Nat
    BY <1>2 DEF CountsInv
  <2>2. ASSUME NEW i \in 1 .. Len(fibers)
        PROVE  fibers[i].vruntime <= clock /\ fibers[i].vruntime \in Nat
    <3>1. fibers[i].vruntime + (IF i = cur THEN ran ELSE 0) <= clock
      BY <1>2 DEF FiberList
    <3>2. fibers[i] \in Fiber
      BY <1>3, ElementOfSeq
    <3>3. fibers[i].vruntime \in Nat
      BY <3>2 DEF Fiber
    <3> QED BY <3>1, <3>3, <2>1
  <2>3. ASSUME NEW i \in 1 .. Len(fibers')
        PROVE  fibers'[i].vruntime + (IF i = target THEN 0 ELSE 0) <= clock
    <3>1. i \in 1 .. Len(fibers) /\ fibers'[i].vruntime = fibers[i].vruntime
      BY <1>2, <1>4, <1>5 DEF Replaced
    <3> QED BY <3>1, <2>2
  <2> QED BY <2>3 DEF Bounded
<1>8. FiberList(fibers', target, 0, clock)
  BY <1>2, <1>5, <1>6, <1>7, OneChanged
<1>9. Marked(fibers', {target})
  <2>1. Marked(fibers', {} \cup {target})
    BY <1>2, <1>4, <1>5, MarksChanged
  <2> QED BY <2>1
<1>10. RegistryInv'
  BY <1>1, <1>2 DEF RegistryInv
<1>11. CountsInv'
  <2>1. /\ clock \in 1 .. MaxClock /\ usedQ \in 0 .. clock
        /\ waited \in [1 .. MaxFibers -> 0 .. clock] /\ 0 \in 0 .. clock
    BY <1>2 DEF CountsInv
  <2>2. usedQ' \in 0 .. clock
    BY <2>1, <1>1 DEF QuantumAfterSwitch
  <2>3. waited' \in [1 .. MaxFibers -> 0 .. clock]
    BY <2>1, <1>1
  <2> QED BY <2>1, <2>2, <2>3, <1>1 DEF CountsInv
<1>12. SwitchInv'
  <2>1. target' \in 1 .. Len(fibers')
    BY <1>1, <1>2, <1>5 DEF Replaced
  <2>2. TargetMayRun'
    BY <1>1, Zenon DEF TargetMayRun
  <2>3. Marked(fibers', IF mode' = "driver" THEN {} ELSE {cur'})
    BY <1>1, <1>9
  <2>4. mode' = "guest" /\ hostYield' = FALSE /\ forceFail' = FALSE
    BY <1>1, <1>2
  <2> QED BY <2>1, <2>2, <2>3, <2>4 DEF SwitchInv
<1>13. FiberList(fibers, cur, ran, clock)'
  BY <1>1, <1>8
<1> QED BY <1>10, <1>11, <1>12, <1>13 DEF FiberInv

LEMMA AbortInv == FiberInv /\ Abort => FiberInv'
<1> SUFFICES ASSUME FiberInv, Abort PROVE FiberInv'
  OBVIOUS
<1>1. /\ mode' = "aborted"
      /\ UNCHANGED <<registry, fibers, cur, target, hostYield, forceFail, ran, usedQ, clock,
                     waited>>
  BY DEF Abort
<1>2. TargetMayRun'
  BY <1>1 DEF TargetMayRun
<1> QED BY <1>1, <1>2 DEF FiberInv, RegistryInv, CountsInv, SwitchInv, EndModes

LEMMA StutterInv == FiberInv /\ UNCHANGED vars => FiberInv'
<1> SUFFICES ASSUME FiberInv, UNCHANGED vars PROVE FiberInv'
  OBVIOUS
<1>1. UNCHANGED <<registry, fibers, cur, target, mode, hostYield, forceFail, ran, usedQ, clock,
                  waited>>
  BY DEF vars, switchVars
<1>2. TargetMayRun'
  BY <1>1 DEF FiberInv, SwitchInv, TargetMayRun, ThreadRunnable, Listed, RunnableSlots, HandleOf
<1> QED BY <1>1, <1>2 DEF FiberInv, RegistryInv, CountsInv, SwitchInv

LEMMA NextInv == FiberInv /\ [Next]_vars => FiberInv'
<1> SUFFICES ASSUME FiberInv, [Next]_vars PROVE FiberInv'
  OBVIOUS
<1>1. CASE HostStep
  BY <1>1, CallReturnsInv, WaitBlocksInv, SleepContinuesInv, PollInv, PrepareInv DEF HostStep
<1>2. CASE Run \/ ServiceCall \/ Yield \/ EnterCall
  BY <1>2, RunInv, ServiceCallInv, YieldInv, EnterCallInv
<1>3. CASE ThreadExits \/ FiberEnds \/ TitleEnds \/ Abort
  BY <1>3, ThreadExitsInv, FiberEndsInv, TitleEndsInv, AbortInv
<1>4. CASE Ended \/ UNCHANGED vars
  BY <1>4, StutterInv DEF Ended
<1> QED BY <1>1, <1>2, <1>3, <1>4 DEF Next

(* The inductive invariant the theorems below follow from: slots, queues and *)
(* deadlines of the fibers agree with the threads at every step.             *)
THEOREM InvHolds == Spec => []FiberInv
<1> QED BY InitInv, NextInv, PTL DEF Spec

-----------------------------------------------------------------------------
(* Every thread has a fiber.  A thread's fiber is never taken from the list, *)
(* so this needs room for a fiber of every thread the title ever creates.    *)

AllHave(fs) == \A s \in RunnableSlots : \E i \in 1 .. Len(fs) : fs[i].thread = HandleOf(s)

(* Thread s of generation g, in the order of slots, and before them the     *)
(* primary thread: so many threads there are.                               *)
LEMMA ThreadsCounted ==
    /\ IsFiniteSet(Threads) /\ Cardinality(Threads) \in Nat
    /\ Cardinality(Threads) <= NumSlots * MaxGen + 1
<1> DEFINE number == [t \in Threads |-> IF t = Primary THEN 0 ELSE (t[1] - 1) * MaxGen + t[2]]
           last == NumSlots * MaxGen
<1> USE SchedulerAssumption
<1>1. last \in Nat
  OBVIOUS
<1>2. \A s, t \in Slots : s <= t => s * MaxGen <= t * MaxGen
  BY DEF Slots
<1>3. ASSUME NEW s \in Slots, NEW g \in 1 .. MaxGen
      PROVE  /\ (s - 1) * MaxGen + g \in 1 .. last
             /\ (s - 1) * MaxGen + g <= s * MaxGen
  <2>1. /\ s * MaxGen \in Nat /\ (s - 1) * MaxGen = s * MaxGen - MaxGen
        /\ (s - 1) * MaxGen \in Nat
    BY DEF Slots
  <2>2. s * MaxGen <= last
    BY <1>2 DEF Slots
  <2> HIDE DEF last
  <2> QED BY <1>1, <2>1, <2>2
<1>4. ASSUME NEW s \in Slots, NEW g \in 1 .. MaxGen, NEW t \in Slots, NEW h \in 1 .. MaxGen,
             (s - 1) * MaxGen + g = (t - 1) * MaxGen + h
      PROVE  s = t /\ g = h
  <2>1. ASSUME NEW a \in Slots, NEW b \in Slots, a < b, NEW x \in 1 .. MaxGen,
               NEW y \in 1 .. MaxGen
        PROVE  (a - 1) * MaxGen + x < (b - 1) * MaxGen + y
    <3>1. a * MaxGen <= (b - 1) * MaxGen
      <4>1. b - 1 \in Slots /\ a <= b - 1
        BY <2>1 DEF Slots
      <4> QED BY <4>1, <1>2
    <3>2. (a - 1) * MaxGen + x <= a * MaxGen
      BY <1>3
    <3>3. /\ (a - 1) * MaxGen \in Int /\ a * MaxGen \in Int /\ (b - 1) * MaxGen \in Int
      BY DEF Slots
    <3> QED BY <3>1, <3>2, <3>3
  <2>2. ~(s < t) /\ ~(t < s)
    <3>1. (s - 1) * MaxGen + g \in Int
      BY DEF Slots
    <3> QED BY <2>1, <1>4, <3>1
  <2>3. s = t
    BY <2>2 DEF Slots
  <2>4. (s - 1) * MaxGen \in Int
    BY DEF Slots
  <2> QED BY <2>3, <2>4, <1>4
<1>5. ASSUME NEW t \in Threads, t # Primary
      PROVE  t[1] \in Slots /\ t[2] \in 1 .. MaxGen /\ t = <<t[1], t[2]>>
             /\ number[t] = (t[1] - 1) * MaxGen + t[2] /\ number[t] \in 1 .. last
  <2>1. t[1] \in Slots /\ t[2] \in 1 .. MaxGen /\ t = <<t[1], t[2]>>
    BY <1>5 DEF Threads
  <2> QED BY <2>1, <1>3, <1>5
<1>6. Primary \in Threads => number[Primary] = 0
  OBVIOUS
<1> HIDE DEF last
<1>7. number \in Injection(Threads, 0 .. last)
  <2>1. \A t \in Threads : number[t] \in 0 .. last
    BY <1>1, <1>5, <1>6
  <2>2. number \in [Threads -> 0 .. last]
    BY <2>1
  <2>3. ASSUME NEW t \in Threads, NEW u \in Threads, number[t] = number[u]
        PROVE  t = u
    <3> HIDE DEF number
    <3>1. CASE t = Primary /\ u # Primary
      BY <2>3, <3>1, <1>1, <1>5, <1>6
    <3>2. CASE u = Primary /\ t # Primary
      BY <2>3, <3>2, <1>1, <1>5, <1>6
    <3>3. CASE t # Primary /\ u # Primary
      <4>1. t[1] = u[1] /\ t[2] = u[2]
        BY <2>3, <3>3, <1>4, <1>5
      <4> QED BY <4>1, <3>3, <1>5
    <3> QED BY <3>1, <3>2, <3>3
  <2> HIDE DEF number
  <2> QED BY <2>2, <2>3, Fun_IsInj
<1>8. IsFiniteSet(0 .. last) /\ Cardinality(0 .. last) = last + 1
  BY <1>1, FS_Interval
<1>9. IsFiniteSet(Threads) /\ Cardinality(Threads) <= last + 1
  <2> HIDE DEF number
  <2> QED BY <1>7, <1>8, FS_Injection
<1> QED BY <1>9, FS_CardinalityType DEF last

(* Every runnable thread is in the list of the registry.                    *)
LEMMA AllListed ==
    ASSUME RoomForAll, RegistryInv
    PROVE  Listed = RunnableSlots
<1> USE SchedulerAssumption
<1>1. ASSUME NEW s \in RunnableSlots
      PROVE  Cardinality({r \in RunnableSlots : r < s}) < MaxFibers
  <2> DEFINE B == {r \in RunnableSlots : r < s}
  <2>1. s \in Slots /\ registry[s].gen \in 1 .. MaxGen /\ s \in 1 .. NumSlots
    BY DEF RunnableSlots, RegistryInv, Slots
  <2>2. MaxGen >= 1
    BY <2>1
  <2>3. NumSlots <= NumSlots * MaxGen
    BY <2>2
  <2>4. NumSlots < MaxFibers
    BY <2>3 DEF RoomForAll
  <2>5. B \in SUBSET (1 .. s - 1)
    BY DEF RunnableSlots, Slots
  <2>6. IsFiniteSet(1 .. s - 1) /\ Cardinality(1 .. s - 1) = s - 1
    BY <2>1, FS_Interval
  <2>7. Cardinality(B) <= s - 1 /\ Cardinality(B) \in Nat
    <3> DEFINE I == 1 .. s - 1
    <3> HIDE DEF B, I
    <3>1. IsFiniteSet(I) /\ B \in SUBSET I /\ Cardinality(I) = s - 1
      BY <2>5, <2>6 DEF I
    <3>2. IsFiniteSet(B) /\ Cardinality(B) <= Cardinality(I)
      BY <3>1, FS_Subset
    <3> QED BY <3>1, <3>2, FS_CardinalityType
  <2> HIDE DEF B
  <2>8. Cardinality(B) < MaxFibers
    BY <2>1, <2>4, <2>7
  <2> QED BY <2>8 DEF B
<1> QED BY <1>1 DEF Listed, RunnableSlots

(* No two fibers belong to one thread, so the list and the threads without  *)
(* a fiber are together no more than the threads.                           *)
LEMMA AllAdopted ==
    ASSUME RoomForAll, RegistryInv, NEW fs, FiberList(fs, cur, ran, clock)
    PROVE  Adopted(fs) = Unknown(fs)
<1> DEFINE U == Unknown(fs)
           n == Len(fs)
           m == Cardinality(U)
           owner == [k \in 1 .. n + m |->
                        IF k <= n THEN fs[k].thread
                        ELSE HandleOf(CHOOSE s \in U : Rank(U, s) = k - n)]
<1> USE SchedulerAssumption
<1>1. /\ fs \in Seq(Fiber) /\ n \in 1 .. MaxFibers
      /\ \A i \in 1 .. n : fs[i].thread \in Threads
      /\ \A i, j \in 1 .. n : fs[i].thread = fs[j].thread => i = j
  <2>1. fs \in Seq(Fiber) /\ n \in 1 .. MaxFibers
    BY DEF FiberList
  <2>2. \A i \in 1 .. n : fs[i] \in Fiber
    BY <2>1, ElementOfSeq
  <2> QED BY <2>1, <2>2 DEF Fiber, FiberList
<1>2. U \in SUBSET Nat /\ IsFiniteSet(U) /\ U \subseteq Slots
  <2>1. IsFiniteSet(Slots) /\ Slots \subseteq Nat
    BY FS_Interval DEF Slots
  <2>2. U \subseteq Slots
    BY DEF Unknown, Listed, RunnableSlots
  <2> QED BY <2>1, <2>2, FS_Subset
<1>3. ASSUME NEW s \in U
      PROVE  /\ HandleOf(s) \in Threads
             /\ \A i \in 1 .. n : fs[i].thread # HandleOf(s)
  <2>1. s \in Slots /\ registry[s].gen \in 1 .. MaxGen
    BY DEF Unknown, Listed, RunnableSlots, RegistryInv
  <2>2. DOMAIN fs = 1 .. n
    BY <1>1, LenProperties
  <2> QED BY <2>1, <2>2 DEF HandleOf, Threads, Unknown
<1>4. \A s, t \in U : HandleOf(s) = HandleOf(t) => s = t
  BY DEF HandleOf
<1>5. \A s \in U : fs \in Seq(Fiber) => Rank(U, s) \in 1 .. m
  <2> HIDE DEF U
  <2> QED BY <1>2, RankCounts
<1>6. m \in Nat /\ \A k \in 1 .. m : \E s \in U : Rank(U, s) = k
  <2> HIDE DEF U
  <2> QED BY <1>2, RankCounts
<1> HIDE DEF U, m, n
<1>7. ASSUME NEW k \in 1 .. n + m, ~(k <= n)
      PROVE  \E s \in U : owner[k] = HandleOf(s) /\ Rank(U, s) = k - n
  <2>1. k - n \in 1 .. m
    BY <1>1, <1>6, <1>7
  <2>2. \E s \in U : Rank(U, s) = k - n
    BY <2>1, <1>6
  <2> QED BY <2>2, <1>7
<1>8. ASSUME NEW k \in 1 .. n + m, k <= n
      PROVE  owner[k] = fs[k].thread /\ k \in 1 .. n
  BY <1>1, <1>8
<1> HIDE DEF owner
<1>9. owner \in [1 .. n + m -> Threads]
  <2>1. \A k \in 1 .. n + m : owner[k] \in Threads
    BY <1>1, <1>3, <1>7, <1>8
  <2>2. owner = [k \in 1 .. n + m |-> owner[k]]
    BY DEF owner
  <2> QED BY <2>1, <2>2
<1>10. ASSUME NEW k \in 1 .. n + m, NEW l \in 1 .. n + m, owner[k] = owner[l]
       PROVE  k = l
  <2>1. CASE k <= n /\ l <= n
    BY <2>1, <1>1, <1>8, <1>10
  <2>2. CASE k <= n /\ ~(l <= n)
    BY <2>2, <1>3, <1>7, <1>8, <1>10
  <2>3. CASE ~(k <= n) /\ l <= n
    BY <2>3, <1>3, <1>7, <1>8, <1>10
  <2>4. CASE ~(k <= n) /\ ~(l <= n)
    <3>1. PICK s \in U : owner[k] = HandleOf(s) /\ Rank(U, s) = k - n
      BY <2>4, <1>7
    <3>2. PICK t \in U : owner[l] = HandleOf(t) /\ Rank(U, t) = l - n
      BY <2>4, <1>7
    <3>3. s = t
      BY <3>1, <3>2, <1>4, <1>10
    <3> QED BY <3>1, <3>2, <3>3, <1>1, <1>6
  <2> QED BY <2>1, <2>2, <2>3, <2>4
<1>11. n + m <= MaxFibers
  <2>1. owner \in Injection(1 .. n + m, Threads)
    BY <1>9, <1>10, Fun_IsInj
  <2>2. IsFiniteSet(1 .. n + m) /\ Cardinality(1 .. n + m) = n + m
    BY <1>1, <1>6, FS_Interval
  <2>3. n + m <= Cardinality(Threads)
    BY <2>1, <2>2, ThreadsCounted, FS_Injection
  <2>4. NumSlots * MaxGen + 1 <= MaxFibers
    BY DEF RoomForAll
  <2>5. Cardinality(Threads) \in Nat /\ Cardinality(Threads) <= NumSlots * MaxGen + 1
    BY ThreadsCounted
  <2>6. n + m \in Nat /\ NumSlots * MaxGen \in Nat
    BY <1>1, <1>6
  <2> HIDE SchedulerAssumption
  <2> QED BY <2>3, <2>4, <2>5, <2>6, SchedulerAssumption
<1>12. \A s \in U : Rank(U, s) + n <= MaxFibers
  BY <1>1, <1>5, <1>6, <1>11
<1> QED BY <1>12 DEF Adopted, U, n

LEMMA AllHaveAfterChoice ==
    ASSUME RoomForAll, RegistryInv, NEW fs, FiberList(fs, cur, ran, clock),
           NEW gs, IsExtended(fs, gs)
    PROVE  AllHave(gs)
<1> SUFFICES ASSUME NEW s \in RunnableSlots
             PROVE  \E i \in 1 .. Len(gs) : gs[i].thread = HandleOf(s)
  BY DEF AllHave
<1>1. s \in Listed
  BY AllListed
<1>2. CASE s \in Unknown(fs)
  BY <1>2, AllAdopted DEF IsExtended
<1>3. CASE s \notin Unknown(fs)
  <2>1. PICK i \in DOMAIN fs : fs[i].thread = HandleOf(s)
    BY <1>1, <1>3 DEF Unknown
  <2>2. DOMAIN fs = 1 .. Len(fs) /\ Len(fs) \in Nat
    BY LenProperties DEF FiberList
  <2>3. i \in 1 .. Len(gs)
    BY <2>1, <2>2, SchedulerAssumption DEF IsExtended
  <2> QED BY <2>1, <2>2, <2>3 DEF IsExtended, Keeps
<1> QED BY <1>2, <1>3

(* Leaving a fiber changes no thread's fiber.                               *)
SameThreads(fs, gs) ==
    DOMAIN gs = DOMAIN fs /\ \A i \in DOMAIN fs : gs[i].thread = fs[i].thread

LEMMA SwitchKeepsThreads ==
    ASSUME NEW fs \in Seq(Fiber), cur \in 1 .. Len(fs), NEW to, NEW leaving,
           SwitchTo(fs, to, leaving)
    PROVE  SameThreads(fs, fibers')
<1>1. fs[cur] \in Fiber /\ DOMAIN fs = 1 .. Len(fs)
  BY ElementOfSeq, LenProperties
<1>2. fibers' = [fs EXCEPT ![cur].vruntime = @ + ran, ![cur].state = leaving,
                           ![cur].noted = FALSE]
  BY DEF SwitchTo
<1> QED BY <1>1, <1>2 DEF SameThreads, Fiber

LEMMA ChoiceHasAll ==
    ASSUME RoomForAll, FiberInv, NEW fs, FiberList(fs, cur, ran, clock),
           NEW preempting \in BOOLEAN, NEW pick \in PickTarget(fs, preempting),
           SameThreads(pick.fibers, fibers'), registry' = registry
    PROVE  EveryThreadHasFiber'
<1>1. RegistryInv /\ CountsInv
  BY DEF FiberInv
<1>2. IsExtended(fs, pick.fibers)
  BY <1>1, PickOutcome
<1>3. AllHave(pick.fibers)
  BY <1>1, <1>2, AllHaveAfterChoice
<1>4. DOMAIN pick.fibers = 1 .. Len(pick.fibers)
  BY <1>2, LenProperties DEF IsExtended
<1>5. RunnableSlots' = RunnableSlots /\ \A s : HandleOf(s)' = HandleOf(s)
  BY DEF RunnableSlots, HandleOf
<1> QED BY <1>3, <1>4, <1>5 DEF AllHave, SameThreads, EveryThreadHasFiber

(* The same for a step that leaves the running fiber.                       *)
LEMMA SwitchHasAll ==
    ASSUME RoomForAll, FiberInv, mode \notin EndModes,
           NEW fs, FiberList(fs, cur, ran, clock),
           NEW preempting \in BOOLEAN, NEW pick \in PickTarget(fs, preempting),
           NEW wake, NEW to, NEW leaving,
           \/ SwitchTo(pick.fibers, to, leaving)
           \/ SwitchTo([pick.fibers EXCEPT ![cur].wake = wake], to, leaving),
           registry' = registry
    PROVE  EveryThreadHasFiber'
<1> DEFINE gs == [pick.fibers EXCEPT ![cur].wake = wake]
<1>1. RegistryInv /\ CountsInv
  BY DEF FiberInv
<1>2. pick.fibers \in Seq(Fiber) /\ cur \in 1 .. Len(pick.fibers)
  BY <1>1, PickOutcome DEF FiberList
<1>3. CASE SwitchTo(pick.fibers, to, leaving)
  BY <1>2, <1>3, SwitchKeepsThreads, ChoiceHasAll
<1>4. CASE SwitchTo(gs, to, leaving)
  <2>1. pick.fibers[cur] \in Fiber /\ DOMAIN pick.fibers = 1 .. Len(pick.fibers)
    BY <1>2, ElementOfSeq, LenProperties
  <2>2. fibers' = [gs EXCEPT ![cur].vruntime = @ + ran, ![cur].state = leaving,
                             ![cur].noted = FALSE]
    BY <1>4 DEF SwitchTo
  <2>3. SameThreads(pick.fibers, fibers')
    BY <1>2, <2>1, <2>2 DEF SameThreads, Fiber
  <2> QED BY <2>3, ChoiceHasAll
<1> QED BY <1>3, <1>4

LEMMA NextHasAll ==
    RoomForAll /\ FiberInv /\ EveryThreadHasFiber /\ [Next]_vars => EveryThreadHasFiber'
<1> SUFFICES ASSUME RoomForAll, FiberInv, EveryThreadHasFiber, [Next]_vars
             PROVE  EveryThreadHasFiber'
  OBVIOUS
<1>1. CASE Poll
  <2>1. /\ mode \in {"poll", "idlePoll"} /\ registry' = registry
    BY <1>1 DEF Poll
  <2>2. FiberList(fibers, cur, ran, clock)
    BY DEF FiberInv
  <2>3. CASE QuantumOver
    <3>1. PICK pick \in PickTarget(fibers, TRUE) :
             \/ SwitchTo(pick.fibers, pick.target, "Ready")
             \/ SwitchTo(pick.fibers, cur, "Ready")
             \/ mode' = "guest"
      BY <1>1, <2>3 DEF Poll
    <3>2. CASE mode' = "guest"
      BY <3>2 DEF EveryThreadHasFiber
    <3> QED BY <2>1, <2>2, <3>1, <3>2, SwitchHasAll DEF EndModes
  <2>4. CASE ~QuantumOver
    <3>1. target' = cur' \/ mode' = "guest"
      BY <1>1, <2>4 DEF Poll, SwitchTo
    <3> QED BY <3>1 DEF EveryThreadHasFiber
  <2> QED BY <2>3, <2>4
<1>2. CASE WaitBlocks
  <2>1. mode = "guest" /\ registry' = registry
    BY <1>2 DEF WaitBlocks, InCall
  <2>2. PICK pick \in PickTarget(fibers, FALSE) :
           \/ SwitchTo(pick.fibers, pick.target, "Blocked")
           \/ mode' \in {"poll", "idlePoll", "deadlock"}
    BY <1>2 DEF WaitBlocks, Idle
  <2>3. CASE mode' \in {"poll", "idlePoll", "deadlock"}
    BY <2>3 DEF EveryThreadHasFiber
  <2> QED BY <2>1, <2>2, <2>3, SwitchHasAll DEF EndModes, FiberInv
<1>3. CASE SleepContinues
  <2>1. mode = "guest" /\ registry' = registry
    BY <1>3 DEF SleepContinues, InCall
  <2>2. PICK pick \in PickTarget(fibers, FALSE) :
           \/ SwitchTo([pick.fibers EXCEPT ![cur].wake = fibers[cur].call.until],
                       pick.target, "Blocked")
           \/ mode' \in {"poll", "idlePoll"}
    BY <1>3 DEF SleepContinues, Idle
  <2>3. CASE mode' \in {"poll", "idlePoll"}
    BY <2>3 DEF EveryThreadHasFiber
  <2> QED BY <2>1, <2>2, <2>3, SwitchHasAll DEF EndModes, FiberInv
<1>4. CASE Yield
  <2> DEFINE fs == [fibers EXCEPT ![cur].call = Call("yield", 0)]
  <2>1. mode = "guest" /\ registry' = registry
    BY <1>4 DEF Yield, InGuest, InCall
  <2>2. PICK pick \in PickTarget(Noted(fs), FALSE) :
           \/ SwitchTo(pick.fibers, pick.target, "Ready")
           \/ mode' = mode
    BY <1>4 DEF Yield
  <2>3. /\ FiberList(fibers, cur, ran, clock) /\ Marked(fibers, {cur})
        /\ CountsInv
    BY <2>1, GuestRuns
  <2>4. Call("yield", 0) \in Calls
    BY SchedulerAssumption DEF Call, Calls, CallKinds
  <2>5. FiberList(fs, cur, ran, clock)
    BY <2>3, <2>4, CallChanged
  <2> HIDE DEF fs
  <2>6. FiberList(Noted(fs), cur, ran, clock)
    BY <2>5, NotedList
  <2>7. CASE mode' = mode
    BY <2>1, <2>7 DEF EveryThreadHasFiber
  <2> QED BY <2>1, <2>2, <2>6, <2>7, SwitchHasAll DEF EndModes
<1>5. CASE FiberEnds
  <2>1. mode = "exiting" /\ registry' = registry
    BY <1>5 DEF FiberEnds
  <2>2. PICK pick \in PickTarget(Finished(fibers), FALSE) : fibers' = pick.fibers
    BY <1>5 DEF FiberEnds
  <2>3. FiberList(Finished(fibers), cur, ran, clock)
    BY <2>1, FinishedList
  <2>4. SameThreads(pick.fibers, fibers')
    BY <2>2 DEF SameThreads
  <2> QED BY <2>1, <2>2, <2>3, <2>4, ChoiceHasAll
<1>6. CASE CallReturns \/ Run \/ ServiceCall \/ EnterCall \/ ThreadExits \/ TitleEnds
           \/ Prepare \/ Abort
  <2>1. mode' # "driver"
    BY <1>6 DEF CallReturns, Run, ServiceCall, EnterCall, ThreadExits, TitleEnds, Prepare, Abort,
                InGuest, InCall, switchVars
  <2> QED BY <2>1 DEF EveryThreadHasFiber
<1>7. CASE Ended \/ UNCHANGED vars
  <2>1. UNCHANGED <<registry, fibers, cur, target, mode>>
    BY <1>7 DEF Ended, vars, switchVars
  <2> QED BY <2>1 DEF EveryThreadHasFiber, RunnableSlots, HandleOf
<1> QED BY <1>1, <1>2, <1>3, <1>4, <1>5, <1>6, <1>7 DEF Next, HostStep

-----------------------------------------------------------------------------
(* What follows from the invariant                                          *)

LEMMA InvIsTyped == FiberInv => TypeOK
<1> SUFFICES ASSUME FiberInv PROVE TypeOK
  OBVIOUS
<1> USE SchedulerAssumption
<1>1. FiberList(fibers, cur, ran, clock) /\ RegistryInv /\ CountsInv /\ SwitchInv
  BY DEF FiberInv
<1>2. /\ fibers \in Seq(Fiber) /\ DOMAIN fibers = 1 .. Len(fibers)
      /\ Len(fibers) \in 1 .. MaxFibers /\ cur \in 1 .. Len(fibers)
  BY <1>1, LenProperties DEF FiberList
<1>3. \A i \in DOMAIN fibers :
          fibers[i] \in [thread : Threads, state : FiberStates, vruntime : 0 .. MaxClock,
                         noted : BOOLEAN, wake : 0 .. MaxClock, call : Calls]
  <2>1. \A i \in 1 .. Len(fibers) : fibers[i] \in Fiber
    BY <1>2, ElementOfSeq
  <2> QED BY <2>1, <1>2 DEF Fiber
<1>4. ran \in 0 .. MaxClock /\ usedQ \in 0 .. MaxClock /\ clock \in 1 .. MaxClock
  BY <1>1 DEF CountsInv
<1>5. waited \in [1 .. MaxFibers -> 0 .. MaxClock]
  <2>1. waited \in [1 .. MaxFibers -> 0 .. clock]
    BY <1>1 DEF CountsInv
  <2>2. \A n \in 0 .. clock : n \in 0 .. MaxClock
    BY <1>4
  <2> QED BY <2>1, <2>2
<1> QED BY <1>1, <1>2, <1>3, <1>4, <1>5 DEF TypeOK, RegistryInv, SwitchInv

LEMMA InvIsOneRunning == FiberInv => OneRunning
<1> SUFFICES ASSUME FiberInv, mode \notin EndModes
             PROVE  {i \in DOMAIN fibers : fibers[i].state = "Running"}
                      = IF mode = "driver" THEN {} ELSE {cur}
  BY DEF OneRunning
<1>1. /\ DOMAIN fibers = 1 .. Len(fibers) /\ cur \in 1 .. Len(fibers)
      /\ Marked(fibers, IF mode = "driver" THEN {} ELSE {cur})
  BY LenProperties DEF FiberInv, FiberList, SwitchInv
<1>2. CASE mode = "driver"
  BY <1>1, <1>2 DEF Marked
<1>3. CASE mode # "driver"
  BY <1>1, <1>3 DEF Marked
<1> QED BY <1>2, <1>3

LEMMA InvIsOwnDeadline == FiberInv => DeadlineIsOwn
<1> SUFFICES ASSUME FiberInv, NEW i \in DOMAIN fibers
             PROVE  fibers[i].wake = IF Asleep(fibers[i]) THEN fibers[i].call.until ELSE 0
  BY DEF DeadlineIsOwn, Asleep
<1>1. DOMAIN fibers = 1 .. Len(fibers)
  BY LenProperties DEF FiberInv, FiberList
<1> QED BY <1>1 DEF FiberInv, FiberList

(* At every moment exactly one fiber runs, the current one, or none while a *)
(* switch is pending, and the fiber switched to belongs to a thread that    *)
(* may run (SwitchTo, r360_fiber_prepare, r360_fiber_entry and the driver's *)
(* loop), for any number of threads and fibers and any quantum and lag.     *)
THEOREM OneMayRunHolds == Spec => []OneMayRun
<1>1. FiberInv => OneMayRun
  BY InvIsTyped, InvIsOneRunning DEF OneMayRun, FiberInv, SwitchInv
<1> QED BY <1>1, InvHolds, PTL

(* A fiber carries a deadline only while it sleeps, and its own: the wake-up *)
(* of a call that is over never cuts a later wait short (GuestFiberSleepUntil, *)
(* r360_fiber_prepare).                                                     *)
THEOREM DeadlineIsOwnHolds == Spec => []DeadlineIsOwn
<1> QED BY InvHolds, InvIsOwnDeadline, PTL

(* A title thread that finishes always leaves for a fiber: the primary      *)
(* thread's never ends before the run and was just told to look again, so   *)
(* r360_fiber_entry neither runs out of targets nor sets g_force_fail.      *)
THEOREM FinishFindsTargetHolds == Spec => []FinishFindsTarget
<1>1. FiberInv => FinishFindsTarget
  BY DEF FiberInv, SwitchInv, FinishFindsTarget
<1> QED BY <1>1, InvHolds, PTL

(* While the list has room for a fiber of every thread ever created, every  *)
(* choice of a target leaves each runnable thread with a fiber              *)
(* (SyncFibersWithThreads).                                                 *)
THEOREM EveryThreadGoesOnHolds ==
    ASSUME RoomForAll
    PROVE  Spec => []EveryThreadGoesOn
<1>1. Init => EveryThreadHasFiber
  BY DEF Init, EveryThreadHasFiber
<1>2. FiberInv /\ EveryThreadHasFiber /\ [Next]_vars => EveryThreadHasFiber'
  BY NextHasAll
<1>3. FiberInv /\ EveryThreadHasFiber => EveryThreadGoesOn
  BY DEF FiberInv, SwitchInv, FinishFindsTarget, EveryThreadGoesOn
<1> QED BY <1>1, <1>2, <1>3, InvHolds, PTL DEF Spec

-----------------------------------------------------------------------------
(* Fair share.  In a turn, a fiber that could run has not waited longer than *)
(* the current quantum has used; or it has been before a preempting choice,  *)
(* which brought its count to within the lag of the running one, and it was  *)
(* not behind at the last such choice.                                       *)

InTurn ==
    \/ mode \in {"guest", "poll", "idlePoll"}
    \/ mode = "driver" /\ target = cur

QuantumInv ==
    Len(fibers) > 1 => usedQ <= Quantum /\ (mode # "poll" => usedQ < Quantum)

WaitedInv ==
    \A i \in 1 .. Len(fibers) : waited[i] > usedQ =>
        /\ fibers[i].vruntime + waited[i] <= fibers[cur].vruntime + ran + MaxLag + Quantum
        /\ fibers[cur].vruntime + ran <= fibers[i].vruntime + usedQ

(* Who has waited up to a poll that ends the quantum is a candidate of it.   *)
PolledInv ==
    mode \in {"poll", "idlePoll"} /\ QuantumOver =>
        \A i \in 1 .. Len(fibers) : waited[i] > 0 => i \in Candidates(fibers, cur)

TurnInv ==
    /\ waited[cur] = 0
    /\ \A i \in 1 .. MaxFibers : i > Len(fibers) => waited[i] = 0
    /\ FairShare
    /\ InTurn => QuantumInv /\ WaitedInv /\ PolledInv
    /\ mode = "driver" /\ target = cur => ran = 0

LEMMA Intervals ==
    /\ \A m, n \in Nat : 1 .. m = 1 .. n => m = n
    /\ \A m, n \in Nat : m <= n /\ n # m => n \in m + 1 .. n
<1>1. ASSUME NEW m \in Nat, NEW n \in Nat, 1 .. m = 1 .. n
      PROVE  m = n
  <2>1. m # 0 => m \in 1 .. n
    BY <1>1
  <2>2. n # 0 => n \in 1 .. m
    BY <1>1
  <2> QED BY <2>1, <2>2
<1> QED BY <1>1

(* A choice that names no target.  If it was made to preempt, no candidate   *)
(* is behind the running fiber and none is ahead by more than the lag;       *)
(* otherwise there was no candidate, and nothing has changed.                *)
LEMMA PickStays ==
    ASSUME RegistryInv, CountsInv, NEW fs, FiberList(fs, cur, ran, clock),
           NEW preempting \in BOOLEAN, NEW pick \in PickTarget(fs, preempting),
           pick.target = 0
    PROVE  /\ pick.fibers[cur].vruntime = fs[cur].vruntime
           /\ Len(fs) <= Len(pick.fibers)
           /\ \A i \in 1 .. Len(fs) : i \in Candidates(fs, cur) =>
                 /\ pick.fibers[i].vruntime <= fs[i].vruntime
                 /\ pick.fibers[i].vruntime <= fs[cur].vruntime + ran + MaxLag
                 /\ fs[cur].vruntime + ran <= pick.fibers[i].vruntime
           /\ ~preempting =>
                 /\ Len(pick.fibers) = Len(fs)
                 /\ \A i \in 1 .. Len(fs) : pick.fibers[i].vruntime = fs[i].vruntime
<1> DEFINE ss == Synced(fs)
           gs == Lagged(ss)
<1> USE SchedulerAssumption
<1>1. PICK to \in Choice(gs, preempting) : pick = [target |-> to, fibers |-> Raised(gs, to)]
  BY DEF PickTarget
<1>2. to = 0 /\ pick.fibers = gs
  BY <1>1 DEF Raised
<1>3. /\ IsExtended(fs, ss) /\ CountsKept(fs, ss)
      /\ \A i \in 1 .. Len(fs) :
            ss[i] = IF Retired(fs[i]) THEN [fs[i] EXCEPT !.state = "Done"] ELSE fs[i]
      /\ \A i \in Len(fs) + 1 .. Len(ss) : \E s \in Adopted(fs) : ss[i].thread = HandleOf(s)
  BY SyncedExtends
<1> HIDE DEF ss
<1>4. /\ IsExtended(fs, gs) /\ CountsKept(fs, gs) /\ Recounted(ss, gs)
      /\ \A i \in 1 .. Len(ss) :
            /\ gs[i].vruntime <= ss[i].vruntime
            /\ IF i \in Candidates(ss, cur)
               THEN gs[i].vruntime <= FromCount(ss) + MaxLag
               ELSE gs[i].vruntime = ss[i].vruntime
  BY <1>3, LaggedExtends
<1> HIDE DEF gs
<1>5. /\ fs \in Seq(Fiber) /\ ss \in Seq(Fiber) /\ gs \in Seq(Fiber)
      /\ Len(gs) = Len(ss) /\ Len(fs) <= Len(ss) /\ Len(fs) \in Nat /\ Len(ss) \in Nat
      /\ cur \in 1 .. Len(fs) /\ cur \in 1 .. Len(ss)
      /\ DOMAIN fs = 1 .. Len(fs) /\ DOMAIN ss = 1 .. Len(ss) /\ DOMAIN gs = 1 .. Len(ss)
  <2>1. /\ fs \in Seq(Fiber) /\ ss \in Seq(Fiber) /\ gs \in Seq(Fiber)
        /\ Len(gs) = Len(ss) /\ Len(ss) \in Len(fs) .. MaxFibers
        /\ Len(fs) \in 1 .. MaxFibers /\ cur \in 1 .. Len(fs)
    BY <1>3, <1>4 DEF FiberList, IsExtended, Recounted
  <2> QED BY <2>1, LenProperties
<1>6. /\ \A i \in 1 .. Len(fs) : fs[i] \in Fiber /\ fs[i].vruntime \in Nat
      /\ \A i \in 1 .. Len(ss) : gs[i].vruntime \in Nat /\ ss[i].vruntime \in Nat
  <2>1. \A f \in Fiber : f.vruntime \in Nat
    BY DEF Fiber
  <2> QED BY <2>1, <1>5, ElementOfSeq
<1>7. \A i \in 1 .. Len(fs) : ss[i].vruntime = fs[i].vruntime
  BY <1>3, <1>6 DEF Fiber
<1>8. /\ FromCount(ss) = fs[cur].vruntime + ran /\ FromCount(gs) = fs[cur].vruntime + ran
      /\ gs[cur].vruntime = fs[cur].vruntime
  BY <1>3, <1>4 DEF FromCount, CountsKept
<1>9. Candidates(gs, cur) = Candidates(ss, cur)
  <2>1. \A i \in 1 .. Len(ss) : Eligible(gs[i]) <=> Eligible(ss[i])
    BY <1>4 DEF Recounted, Eligible
  <2>2. \A i \in 1 .. Len(ss) : gs[i].thread = ss[i].thread
    BY <1>4 DEF Recounted
  <2> QED BY <2>1, <2>2, <1>5 DEF Candidates
<1>10. ASSUME NEW i \in 1 .. Len(fs), i \in Candidates(fs, cur)
       PROVE  i \in Candidates(ss, cur)
  <2>1. i # cur /\ Eligible(fs[i]) /\ (i = 1 \/ ThreadRunnable(fs[i].thread))
    BY <1>10 DEF Candidates
  <2>2. ~Retired(fs[i])
    <3>1. i = 1 => fs[i].thread = Primary
      BY DEF FiberList
    <3> QED BY <2>1, <3>1 DEF Retired
  <2>3. ss[i] = fs[i]
    BY <2>2, <1>3
  <2> QED BY <2>1, <2>3, <1>5 DEF Candidates
<1>11. ASSUME NEW j \in Candidates(gs, cur)
       PROVE  preempting /\ FromCount(gs) <= gs[j].vruntime
  <2>1. PICK b \in LeastRun(gs) : TRUE
    BY <1>5, LeastRunExists
  <2>2. b \in Candidates(gs, cur) /\ Precedes(gs, b, j)
    BY <2>1 DEF LeastRun
  <2>3. b \in 1 .. Len(ss) /\ j \in 1 .. Len(ss)
    BY <2>2, <1>5 DEF Candidates
  <2>4. gs[b].vruntime <= gs[j].vruntime
    BY <2>2, <2>3, <1>6 DEF Precedes
  <2>5. preempting /\ ~(gs[b].vruntime < FromCount(gs))
    <3> DEFINE L == LeastRun(gs)
               better == {i \in L : preempting => gs[i].vruntime < FromCount(gs)}
    <3>1. L \subseteq 1 .. Len(ss)
      BY <1>5 DEF LeastRun, Candidates
    <3>2. 0 \notin better
      BY <3>1
    <3>3. 0 \in Choice(gs, preempting)
      BY <1>1, <1>2
    <3>4. Choice(gs, preempting) = IF better = {} THEN {0} ELSE better
      BY DEF Choice
    <3>5. better = {} /\ b \in L
      BY <3>2, <3>3, <3>4, <2>1
    <3> QED BY <3>5
  <2>6. FromCount(gs) \in Nat
    BY <1>5, <1>6, <1>8 DEF CountsInv
  <2> QED BY <2>3, <2>4, <2>5, <2>6, <1>6
<1>12. ASSUME NEW i \in 1 .. Len(fs), i \in Candidates(fs, cur)
       PROVE  /\ gs[i].vruntime <= fs[i].vruntime
              /\ gs[i].vruntime <= fs[cur].vruntime + ran + MaxLag
              /\ fs[cur].vruntime + ran <= gs[i].vruntime
  <2>1. i \in Candidates(ss, cur) /\ i \in Candidates(gs, cur)
    BY <1>9, <1>10, <1>12
  <2>2. i \in 1 .. Len(ss)
    BY <1>5
  <2> QED BY <2>1, <2>2, <1>4, <1>7, <1>8, <1>11
<1>13. ASSUME ~preempting
       PROVE  /\ Len(gs) = Len(fs)
              /\ \A i \in 1 .. Len(fs) : gs[i].vruntime = fs[i].vruntime
  <2>1. Candidates(gs, cur) = {}
    BY <1>11, <1>13
  <2>2. \A i \in 1 .. Len(fs) : gs[i].vruntime = fs[i].vruntime
    <3>1. \A i \in 1 .. Len(fs) : i \in 1 .. Len(ss)
      BY <1>5
    <3> QED BY <2>1, <3>1, <1>4, <1>7, <1>9
  <2>3. Len(ss) = Len(fs)
    <3>1. SUFFICES ASSUME NEW i \in Len(fs) + 1 .. Len(ss)
                   PROVE  FALSE
      <4>1. Len(ss) # Len(fs) => Len(ss) \in Len(fs) + 1 .. Len(ss)
        BY <1>5, Intervals, ZenonT(60)
      <4> QED BY <4>1
    <3>2. i \in 1 .. Len(ss) /\ i # cur
      BY <1>5
    <3>3. PICK s \in Adopted(fs) : ss[i].thread = HandleOf(s)
      BY <1>3
    <3>4. ThreadRunnable(ss[i].thread)
      BY <3>3 DEF Adopted, Unknown, ThreadRunnable
    <3>5. ss[i].state = "New"
      BY <1>3 DEF IsExtended
    <3>6. i \in Candidates(ss, cur)
      BY <3>2, <3>4, <3>5, <1>5 DEF Candidates, Eligible
    <3> QED BY <3>6, <2>1, <1>9
  <2> QED BY <2>2, <2>3, <1>5
<1>14. Len(fs) <= Len(gs)
  BY <1>5
<1> QED BY <1>2, <1>8, <1>12, <1>13, <1>14

(* A step of the turn that runs no unit, makes no preempting choice and      *)
(* changes no count.                                                         *)
LEMMA TurnGoesOn ==
    ASSUME FiberInv, TurnInv, InTurn, mode # "poll",
           Len(fibers') = Len(fibers),
           \A i \in 1 .. Len(fibers) : fibers'[i].vruntime = fibers[i].vruntime,
           UNCHANGED <<cur, target, ran, usedQ, waited>>,
           mode' \in {"guest", "poll", "idlePoll"} \cup EndModes \cup {"exiting"}
    PROVE  TurnInv'
<1> USE SchedulerAssumption
<1>1. cur \in 1 .. Len(fibers) /\ Len(fibers) \in 1 .. MaxFibers
      /\ DOMAIN fibers = 1 .. Len(fibers) /\ DOMAIN fibers' = 1 .. Len(fibers')
  BY LenProperties DEF FiberInv, FiberList
<1>2. QuantumInv /\ WaitedInv
  BY DEF TurnInv
<1>3. QuantumInv'
  BY <1>2 DEF QuantumInv
<1>4. WaitedInv'
  BY <1>1, <1>2 DEF WaitedInv
<1>5. ~QuantumOver'
  BY <1>1, <1>2 DEF QuantumOver, QuantumInv, FiberInv, CountsInv
<1>6. PolledInv'
  BY <1>5 DEF PolledInv
<1>7. FairShare'
  BY <1>1 DEF FairShare, TurnInv, FairBound
<1>8. mode' # "driver"
  BY DEF EndModes
<1> QED BY <1>3, <1>4, <1>6, <1>7, <1>8 DEF TurnInv

(* A step after which the turn is over, or the run.                          *)
LEMMA TurnEnds ==
    ASSUME FiberInv, TurnInv, FiberInv', Len(fibers) <= Len(fibers'),
           UNCHANGED <<cur, waited>>, ~InTurn'
    PROVE  TurnInv'
<1> USE SchedulerAssumption
<1>1. /\ Len(fibers) \in 1 .. MaxFibers /\ Len(fibers') \in 1 .. MaxFibers
      /\ DOMAIN fibers = 1 .. Len(fibers) /\ DOMAIN fibers' = 1 .. Len(fibers')
  BY LenProperties DEF FiberInv, FiberList
<1>2. ASSUME NEW i \in 1 .. Len(fibers')
      PROVE  waited[i] <= FairBound
  <2>1. CASE i \in 1 .. Len(fibers)
    BY <2>1, <1>1 DEF TurnInv, FairShare
  <2>2. CASE i \notin 1 .. Len(fibers)
    <3>1. i \in 1 .. MaxFibers /\ i > Len(fibers)
      BY <2>2, <1>1
    <3> QED BY <3>1 DEF TurnInv, FairBound
  <2> QED BY <2>1, <2>2
<1>3. FairShare'
  BY <1>1, <1>2 DEF FairShare, FairBound
<1>4. ~(mode' = "driver" /\ target' = cur')
  BY DEF InTurn
<1>5. \A i \in 1 .. MaxFibers : i > Len(fibers') => waited'[i] = 0
  BY <1>1 DEF TurnInv
<1> QED BY <1>3, <1>4, <1>5 DEF TurnInv

LEMMA SwitchCounts ==
    ASSUME NEW fs \in Seq(Fiber), cur \in 1 .. Len(fs), fibers' \in Seq(Fiber),
           NEW to, NEW leaving, SwitchTo(fs, to, leaving)
    PROVE  /\ Len(fibers') = Len(fs)
           /\ fibers'[cur].vruntime = fs[cur].vruntime + ran
           /\ \A i \in 1 .. Len(fs) : i # cur => fibers'[i] = fs[i]
<1>1. /\ DOMAIN fs = 1 .. Len(fs) /\ DOMAIN fibers' = 1 .. Len(fibers')
      /\ Len(fs) \in Nat /\ Len(fibers') \in Nat /\ fs[cur] \in Fiber
  BY LenProperties, ElementOfSeq
<1>2. fibers' = [fs EXCEPT ![cur].vruntime = @ + ran, ![cur].state = leaving,
                           ![cur].noted = FALSE]
  BY DEF SwitchTo
<1>3. DOMAIN fibers' = DOMAIN fs
  BY <1>2
<1>4. Len(fibers') = Len(fs)
  <2>1. 1 .. Len(fibers') = 1 .. Len(fs)
    BY <1>1, <1>3, ZenonT(60)
  <2> QED BY <1>1, <2>1, Intervals, ZenonT(60)
<1>5. /\ fibers'[cur].vruntime = fs[cur].vruntime + ran
      /\ \A i \in 1 .. Len(fs) : i # cur => fibers'[i] = fs[i]
  BY <1>1, <1>2 DEF Fiber
<1> QED BY <1>4, <1>5

(* A switch to another fiber.                                                *)
LEMMA SwitchTurn ==
    ASSUME FiberInv, TurnInv, FiberInv', NEW fs \in Seq(Fiber), cur \in 1 .. Len(fs),
           Len(fibers) <= Len(fs), NEW to, to # cur, NEW leaving, SwitchTo(fs, to, leaving),
           waited' = waited
    PROVE  TurnInv'
<1>1. fibers' \in Seq(Fiber)
  BY DEF FiberInv, FiberList
<1>2. Len(fibers') = Len(fs)
  BY <1>1, SwitchCounts
<1>3. ~InTurn' /\ cur' = cur
  BY DEF SwitchTo, InTurn
<1> QED BY <1>2, <1>3, TurnEnds

LEMMA PollTurn == FiberInv /\ TurnInv /\ Poll => TurnInv'
<1> SUFFICES ASSUME FiberInv, TurnInv, Poll PROVE TurnInv'
  OBVIOUS
<1> USE SchedulerAssumption
<1>1. /\ FiberList(fibers, cur, ran, clock) /\ Marked(fibers, {cur})
      /\ RegistryInv /\ CountsInv /\ cur \in 1 .. Len(fibers)
      /\ mode \in {"poll", "idlePoll"} /\ FiberInv'
  BY GuestRuns, PollInv DEF Poll
<1>2. PICK pick \in IF QuantumOver THEN PickTarget(fibers, TRUE)
                    ELSE {[target |-> 0, fibers |-> fibers]} :
          \/ /\ pick.target # 0
             /\ SwitchTo(pick.fibers, pick.target, "Ready")
             /\ hostYield' = FALSE
          \/ /\ pick.target = 0
             /\ SwitchTo(pick.fibers, cur, "Ready")
             /\ hostYield' = TRUE
          \/ /\ pick.target = 0
             /\ \E woken \in {FALSE, mode = "poll"} :
                   fibers' = IF woken THEN Noted(pick.fibers) ELSE pick.fibers
             /\ mode' = "guest"
             /\ UNCHANGED <<cur, target, hostYield, forceFail, ran>>
  BY DEF Poll
<1>3. waited' = waited /\ usedQ' = IF QuantumOver THEN 0 ELSE usedQ
  BY DEF Poll
<1> DEFINE hs == pick.fibers
<1>4. /\ FiberList(hs, cur, ran, clock) /\ Marked(hs, {cur})
      /\ Len(fibers) <= Len(hs) /\ cur \in 1 .. Len(hs)
      /\ pick.target # 0 => QuantumOver /\ pick.target # cur
  <2>1. CASE QuantumOver
    <3>1. pick \in PickTarget(fibers, TRUE)
      BY <2>1
    <3>2. /\ FiberList(hs, cur, ran, clock) /\ Marked(hs, {cur})
          /\ Len(fibers) <= Len(hs) /\ cur \in 1 .. Len(hs)
      BY <3>1, <1>1, PickInGuest
    <3>3. pick.target # 0 => pick.target # cur
      BY <3>1, <1>1, PickOutcome
    <3> QED BY <2>1, <3>2, <3>3
  <2>2. CASE ~QuantumOver
    BY <2>2, <1>1 DEF FiberList
  <2> QED BY <2>1, <2>2
<1>5. hs \in Seq(Fiber) /\ Len(hs) \in 1 .. MaxFibers
      /\ fibers \in Seq(Fiber) /\ Len(fibers) \in 1 .. MaxFibers
  BY <1>1, <1>4 DEF FiberList
<1>6. /\ \A i \in 1 .. Len(hs) : hs[i].vruntime \in Nat
      /\ \A i \in 1 .. Len(fibers) : fibers[i].vruntime \in Nat
      /\ ran \in Nat /\ usedQ \in Nat
      /\ \A i \in 1 .. MaxFibers : waited[i] \in Nat
  <2>1. \A f \in Fiber : f.vruntime \in Nat
    BY DEF Fiber
  <2>2. \A i \in 1 .. Len(hs) : hs[i] \in Fiber
    BY <1>5, ElementOfSeq
  <2>3. \A i \in 1 .. Len(fibers) : fibers[i] \in Fiber
    BY <1>5, ElementOfSeq
  <2> QED BY <2>1, <2>2, <2>3, <1>1 DEF CountsInv
<1>7. QuantumInv /\ WaitedInv /\ PolledInv
  BY <1>1 DEF TurnInv, InTurn
<1> HIDE DEF hs
<1>8. ASSUME pick.target = 0
      PROVE  /\ Len(hs) > 1 => usedQ' < Quantum
             /\ \A i \in 1 .. Len(hs) : waited[i] > usedQ' =>
                  /\ hs[i].vruntime + waited[i] <= hs[cur].vruntime + ran + MaxLag + Quantum
                  /\ hs[cur].vruntime + ran <= hs[i].vruntime + usedQ'
  <2>1. CASE QuantumOver
    <3>1. pick \in PickTarget(fibers, TRUE) /\ usedQ' = 0
      BY <2>1, <1>3
    <3>2. /\ hs[cur].vruntime = fibers[cur].vruntime
          /\ \A i \in 1 .. Len(fibers) : i \in Candidates(fibers, cur) =>
                /\ hs[i].vruntime <= fibers[i].vruntime
                /\ hs[i].vruntime <= fibers[cur].vruntime + ran + MaxLag
                /\ fibers[cur].vruntime + ran <= hs[i].vruntime
      BY <3>1, <1>1, <1>8, PickStays DEF hs
    <3>3. ASSUME NEW i \in 1 .. Len(hs), waited[i] > 0
          PROVE  /\ hs[i].vruntime + waited[i] <= hs[cur].vruntime + ran + MaxLag + Quantum
                 /\ hs[cur].vruntime + ran <= hs[i].vruntime
      <4>1. i \in 1 .. Len(fibers) /\ i \in 1 .. MaxFibers
        BY <3>3, <1>5 DEF TurnInv
      <4>2. i \in Candidates(fibers, cur)
        BY <4>1, <3>3, <2>1, <1>1, <1>7 DEF PolledInv
      <4>3. /\ hs[i].vruntime <= fibers[i].vruntime
            /\ hs[i].vruntime <= fibers[cur].vruntime + ran + MaxLag
            /\ fibers[cur].vruntime + ran <= hs[i].vruntime
        BY <4>1, <4>2, <3>2
      <4>4. usedQ <= Quantum
        BY <2>1, <1>7 DEF QuantumInv, QuantumOver
      <4> DEFINE now == hs[i].vruntime
                 before == fibers[i].vruntime
                 from == fibers[cur].vruntime + ran
                 w == waited[i]
      <4>5. now \in Nat /\ before \in Nat /\ from \in Nat /\ w \in Nat /\ usedQ \in Nat
        BY <4>1, <1>1, <1>6
      <4>6. hs[cur].vruntime + ran = from
        BY <3>2
      <4>7. now <= before /\ now <= from + MaxLag /\ from <= now
        BY <4>3
      <4>8. w > usedQ => before + w <= from + MaxLag + Quantum
        BY <4>1, <1>7 DEF WaitedInv
      <4>9. now + w <= from + MaxLag + Quantum
        <5> HIDE DEF now, before, from, w
        <5>1. CASE w > usedQ
          BY <5>1, <4>5, <4>7, <4>8
        <5>2. CASE ~(w > usedQ)
          BY <5>2, <4>4, <4>5, <4>7
        <5> QED BY <5>1, <5>2
      <4> QED BY <4>6, <4>7, <4>9
    <3>4. \A i \in 1 .. Len(hs) : waited[i] > usedQ' => waited[i] > 0
      BY <3>1
    <3>5. \A i \in 1 .. Len(hs) : hs[i].vruntime + usedQ' = hs[i].vruntime
      BY <3>1, <1>6
    <3> QED BY <3>1, <3>3, <3>4, <3>5
  <2>2. CASE ~QuantumOver
    <3>1. hs = fibers /\ usedQ' = usedQ
      BY <2>2, <1>3 DEF hs
    <3>2. Len(hs) > 1 => usedQ < Quantum
      BY <2>2, <3>1, <1>6 DEF QuantumOver
    <3>3. \A i \in 1 .. Len(fibers) : waited[i] > usedQ =>
            /\ fibers[i].vruntime + waited[i]
                  <= fibers[cur].vruntime + ran + MaxLag + Quantum
            /\ fibers[cur].vruntime + ran <= fibers[i].vruntime + usedQ
      BY <1>7 DEF WaitedInv
    <3> QED BY <3>1, <3>2, <3>3
  <2> QED BY <2>1, <2>2
<1>9. ASSUME cur' = cur, Len(fibers') = Len(hs),
             mode' = "guest" \/ (mode' = "driver" /\ target' = cur /\ ran' = 0),
             QuantumInv', WaitedInv'
      PROVE  TurnInv'
  <2>1. /\ DOMAIN fibers = 1 .. Len(fibers) /\ fibers' \in Seq(Fiber)
    BY <1>1, <1>5, LenProperties DEF FiberInv, FiberList
  <2>2. DOMAIN fibers' = 1 .. Len(hs)
    BY <2>1, <1>9, LenProperties
  <2>3. FairShare'
    <3>1. ASSUME NEW i \in 1 .. Len(hs)
          PROVE  waited[i] <= FairBound
      <4>1. CASE i \in 1 .. Len(fibers)
        BY <4>1, <2>1 DEF TurnInv, FairShare
      <4>2. CASE i \notin 1 .. Len(fibers)
        BY <4>2, <1>5 DEF TurnInv, FairBound
      <4> QED BY <4>1, <4>2
    <3> QED BY <3>1, <2>2, <1>3 DEF FairShare, FairBound
  <2>4. \A i \in 1 .. MaxFibers : i > Len(fibers') => waited'[i] = 0
    BY <1>3, <1>4, <1>5, <1>9 DEF TurnInv, hs
  <2>5. PolledInv'
    BY <1>9 DEF PolledInv
  <2>6. waited'[cur'] = 0
    BY <1>3, <1>9 DEF TurnInv
  <2>7. mode' = "driver" /\ target' = cur' => ran' = 0
    BY <1>9
  <2> QED BY <2>3, <2>4, <2>5, <2>6, <2>7, <1>9 DEF TurnInv
<1>10. CASE /\ pick.target # 0
            /\ SwitchTo(pick.fibers, pick.target, "Ready")
  BY <1>1, <1>3, <1>4, <1>5, <1>10, SwitchTurn DEF hs
<1>11. CASE /\ pick.target = 0
            /\ SwitchTo(pick.fibers, cur, "Ready")
  <2>1. fibers' \in Seq(Fiber)
    BY <1>1 DEF FiberInv, FiberList
  <2>2. /\ Len(fibers') = Len(hs)
        /\ fibers'[cur].vruntime = hs[cur].vruntime + ran
        /\ \A i \in 1 .. Len(hs) : i # cur => fibers'[i] = hs[i]
    BY <2>1, <1>4, <1>5, <1>11, SwitchCounts DEF hs
  <2>3. cur' = cur /\ mode' = "driver" /\ target' = cur /\ ran' = 0
    BY <1>11 DEF SwitchTo
  <2>4. QuantumInv'
    BY <2>2, <2>3, <1>5, <1>6, <1>3, <1>8, <1>11 DEF QuantumInv
  <2>5. WaitedInv'
    <3>1. ASSUME NEW i \in 1 .. Len(hs), waited[i] > usedQ'
          PROVE  /\ fibers'[i].vruntime + waited[i]
                       <= fibers'[cur].vruntime + 0 + MaxLag + Quantum
                 /\ fibers'[cur].vruntime + 0 <= fibers'[i].vruntime + usedQ'
      <4>1. i # cur
        BY <3>1, <1>3, <1>6 DEF TurnInv
      <4> QED BY <4>1, <3>1, <2>2, <1>4, <1>6, <1>8, <1>11, SMTT(60) DEF hs
    <3> QED BY <3>1, <2>2, <2>3, <1>3 DEF WaitedInv
  <2> QED BY <2>2, <2>3, <2>4, <2>5, <1>9
<1>12. CASE /\ pick.target = 0
            /\ \E woken \in {FALSE, mode = "poll"} :
                  fibers' = IF woken THEN Noted(pick.fibers) ELSE pick.fibers
            /\ mode' = "guest"
            /\ UNCHANGED <<cur, target, hostYield, forceFail, ran>>
  <2>1. fibers' = Noted(hs) \/ fibers' = hs
    BY <1>12 DEF hs
  <2>2. /\ Len(fibers') = Len(hs)
        /\ \A i \in 1 .. Len(hs) : fibers'[i].vruntime = hs[i].vruntime
    BY <2>1, <1>4, NotedList
  <2>3. QuantumInv'
    BY <2>2, <1>8, <1>12, <1>5, <1>3, <1>6 DEF QuantumInv
  <2>4. WaitedInv'
    BY <2>2, <1>8, <1>12, <1>3, <1>4 DEF WaitedInv, hs
  <2> QED BY <2>2, <2>3, <2>4, <1>9, <1>12
<1> QED BY <1>2, <1>10, <1>11, <1>12

LEMMA InitTurn == Init => TurnInv
<1> SUFFICES ASSUME Init PROVE TurnInv
  OBVIOUS
<1> USE SchedulerAssumption
<1>1. /\ Len(fibers) = 1 /\ cur = 1 /\ mode = "guest" /\ ran = 0 /\ usedQ = 0
      /\ waited = [i \in 1 .. MaxFibers |-> 0] /\ DOMAIN fibers = {1}
  BY DEF Init
<1>2. 1 \in 1 .. MaxFibers /\ \A i \in 1 .. MaxFibers : waited[i] = 0
  BY <1>1
<1>3. QuantumInv /\ WaitedInv /\ PolledInv
  <2>1. QuantumInv /\ PolledInv
    BY <1>1 DEF QuantumInv, PolledInv
  <2>2. \A i \in 1 .. Len(fibers) : i \in 1 .. MaxFibers
    BY <1>1
  <2>3. WaitedInv
    BY <2>2, <1>1, <1>2 DEF WaitedInv
  <2> QED BY <2>1, <2>3
<1>4. FairShare
  BY <1>1, <1>2 DEF FairShare, FairBound
<1> QED BY <1>1, <1>2, <1>3, <1>4 DEF TurnInv

(* A unit of guest code: those who could run have waited one more.           *)
LEMMA RunTurn == FiberInv /\ TurnInv /\ Run => TurnInv'
<1> SUFFICES ASSUME FiberInv, TurnInv, Run PROVE TurnInv'
  OBVIOUS
<1> USE SchedulerAssumption
<1>1. /\ mode = "guest" /\ clock' = clock + 1 /\ ran' = ran + 1
      /\ usedQ' = usedQ + 1 /\ mode' = "poll"
      /\ waited' = [i \in 1 .. MaxFibers |->
                       IF i \in Candidates(fibers, cur) THEN waited[i] + 1 ELSE 0]
      /\ UNCHANGED <<registry, fibers, cur, target, hostYield, forceFail>>
  BY DEF Run, InGuest, InCall
<1>2. /\ FiberList(fibers, cur, ran, clock) /\ CountsInv /\ cur \in 1 .. Len(fibers)
      /\ Len(fibers) \in 1 .. MaxFibers
  BY <1>1, GuestRuns
<1>3. /\ fibers \in Seq(Fiber) /\ DOMAIN fibers = 1 .. Len(fibers)
      /\ \A i \in 1 .. Len(fibers) : fibers[i].vruntime \in Nat /\ fibers[i].wake \in Nat
      /\ \A i \in 1 .. Len(fibers) : i \in 1 .. MaxFibers
  <2>1. fibers \in Seq(Fiber)
    BY <1>2 DEF FiberList
  <2>2. DOMAIN fibers = 1 .. Len(fibers) /\ \A i \in 1 .. Len(fibers) : fibers[i] \in Fiber
    BY <2>1, LenProperties, ElementOfSeq
  <2> QED BY <2>1, <2>2, <1>2 DEF Fiber
<1>4. /\ ran \in Nat /\ usedQ \in Nat /\ clock \in Nat
      /\ \A i \in 1 .. MaxFibers : waited[i] \in Nat
  BY <1>2 DEF CountsInv
<1>5. QuantumInv /\ WaitedInv
  BY <1>1 DEF TurnInv, InTurn
<1>6. Len(fibers) > 1 => usedQ < Quantum
  BY <1>1, <1>5 DEF QuantumInv
<1>7. ASSUME NEW i \in Candidates(fibers, cur)
      PROVE  i \in 1 .. Len(fibers) /\ i # cur /\ usedQ < Quantum
  <2>1. i \in 1 .. Len(fibers) /\ i # cur
    BY <1>3 DEF Candidates
  <2> QED BY <2>1, <1>2, <1>6
<1>8. \A i \in 1 .. MaxFibers :
         waited'[i] = IF i \in Candidates(fibers, cur) THEN waited[i] + 1 ELSE 0
  BY <1>1
<1>9. QuantumInv'
  BY <1>1, <1>4, <1>6 DEF QuantumInv
<1>10. ASSUME NEW i \in 1 .. Len(fibers), waited[i] > usedQ
       PROVE  /\ fibers[i].vruntime + waited[i]
                    <= fibers[cur].vruntime + ran + MaxLag + Quantum
              /\ fibers[cur].vruntime + ran <= fibers[i].vruntime + usedQ
  BY <1>5, <1>10 DEF WaitedInv
<1>11. ASSUME NEW i \in 1 .. Len(fibers), waited'[i] > usedQ'
       PROVE  /\ fibers[i].vruntime + waited'[i]
                    <= fibers[cur].vruntime + ran' + MaxLag + Quantum
              /\ fibers[cur].vruntime + ran' <= fibers[i].vruntime + usedQ'
  <2> DEFINE v == fibers[i].vruntime
             c == fibers[cur].vruntime
             w == waited[i]
  <2>1. v \in Nat /\ c \in Nat /\ w \in Nat
    BY <1>2, <1>3, <1>4
  <2>2. i \in Candidates(fibers, cur) /\ waited'[i] = w + 1
    BY <1>1, <1>3, <1>4, <1>8, <1>11
  <2>3. w > usedQ
    BY <2>1, <2>2, <1>1, <1>4, <1>11
  <2>4. v + w <= c + ran + MaxLag + Quantum /\ c + ran <= v + usedQ
    BY <2>3, <1>10
  <2> HIDE DEF v, c, w
  <2>5. /\ v + (w + 1) <= c + (ran + 1) + MaxLag + Quantum
        /\ c + (ran + 1) <= v + (usedQ + 1)
    BY <2>1, <2>4, <1>4
  <2> QED BY <2>2, <2>5, <1>1 DEF v, c, w
<1>12. WaitedInv'
  BY <1>1, <1>11 DEF WaitedInv
<1>13. PolledInv'
  <2>1. ASSUME NEW i \in 1 .. Len(fibers), waited'[i] > 0
        PROVE  i \in Candidates(fibers, cur)'
    <3>1. i \in Candidates(fibers, cur)
      BY <2>1, <1>3, <1>8
    <3>2. Eligible(fibers[i])'
      <4>1. Eligible(fibers[i])
        BY <3>1 DEF Candidates
      <4>2. clock >= fibers[i].wake => clock' >= fibers[i].wake
        BY <1>1, <1>3, <1>4
      <4> QED BY <4>1, <4>2, <1>1 DEF Eligible
    <3>3. ThreadRunnable(fibers[i].thread)' <=> ThreadRunnable(fibers[i].thread)
      BY <1>1 DEF ThreadRunnable, Listed, RunnableSlots, HandleOf
    <3>4. i \in DOMAIN fibers \ {cur} /\ (i = 1 \/ ThreadRunnable(fibers[i].thread))
      BY <3>1 DEF Candidates
    <3> QED BY <3>2, <3>3, <3>4, <1>1 DEF Candidates
  <2> QED BY <2>1, <1>1 DEF PolledInv
<1>14. FairShare'
  <2>1. ASSUME NEW i \in 1 .. Len(fibers)
        PROVE  waited'[i] <= FairBound
    <3>1. CASE i \notin Candidates(fibers, cur)
      BY <3>1, <1>3, <1>8 DEF FairBound
    <3>2. CASE i \in Candidates(fibers, cur)
      <4> DEFINE v == fibers[i].vruntime
                 c == fibers[cur].vruntime
                 w == waited[i]
      <4>1. v \in Nat /\ c \in Nat /\ w \in Nat
        BY <1>2, <1>3, <1>4
      <4>2. usedQ < Quantum /\ waited'[i] = w + 1
        BY <3>2, <1>3, <1>7, <1>8
      <4>3. w > usedQ => v + w <= c + ran + MaxLag + Quantum /\ c + ran <= v + usedQ
        BY <1>10
      <4> HIDE DEF v, c, w
      <4>4. w + 1 <= MaxLag + 2 * Quantum
        <5>1. CASE w > usedQ
          BY <5>1, <4>1, <4>2, <4>3, <1>4
        <5>2. CASE ~(w > usedQ)
          BY <5>2, <4>1, <4>2, <1>4
        <5> QED BY <5>1, <5>2
      <4> QED BY <4>2, <4>4 DEF FairBound
    <3> QED BY <3>1, <3>2
  <2> QED BY <2>1, <1>1, <1>3 DEF FairShare, FairBound
<1>15. waited'[cur'] = 0
  BY <1>1, <1>2, <1>3, <1>8 DEF Candidates
<1>16. \A i \in 1 .. MaxFibers : i > Len(fibers') => waited'[i] = 0
  <2>1. \A i \in 1 .. MaxFibers : i > Len(fibers) => i \notin 1 .. Len(fibers)
    BY <1>2
  <2> QED BY <2>1, <1>1, <1>7, <1>8
<1> QED BY <1>1, <1>9, <1>12, <1>13, <1>14, <1>15, <1>16 DEF TurnInv

LEMMA CallReturnsTurn == FiberInv /\ TurnInv /\ CallReturns => TurnInv'
<1> SUFFICES ASSUME FiberInv, TurnInv, CallReturns PROVE TurnInv'
  OBVIOUS
<1> DEFINE fs == [fibers EXCEPT ![cur].call = NoCall]
<1>1. /\ mode = "guest" /\ fibers' = Noted(fs)
      /\ UNCHANGED <<cur, target, mode, ran, usedQ, waited>>
  BY DEF CallReturns, InCall, switchVars
<1>2. FiberList(fibers, cur, ran, clock) /\ Marked(fibers, {cur}) /\ CountsInv
  BY <1>1, GuestRuns
<1>3. NoCall \in Calls
  BY SchedulerAssumption DEF NoCall, Call, Calls, CallKinds
<1>4. FiberList(fs, cur, ran, clock)
  BY <1>2, <1>3, CallChanged
<1>5. /\ Len(fs) = Len(fibers)
      /\ \A i \in 1 .. Len(fibers) : fs[i].vruntime = fibers[i].vruntime
  BY <1>2, <1>3, CallChanged
<1> HIDE DEF fs
<1>6. /\ Len(fibers') = Len(fibers)
      /\ \A i \in 1 .. Len(fibers) : fibers'[i].vruntime = fibers[i].vruntime
  <2>1. /\ Len(Noted(fs)) = Len(fs)
        /\ \A i \in 1 .. Len(fs) : Noted(fs)[i].vruntime = fs[i].vruntime
    BY <1>4, NotedList
  <2> QED BY <2>1, <1>1, <1>5
<1> QED BY <1>1, <1>6, TurnGoesOn DEF InTurn

LEMMA ServiceCallTurn == FiberInv /\ TurnInv /\ ServiceCall => TurnInv'
<1> SUFFICES ASSUME FiberInv, TurnInv, ServiceCall PROVE TurnInv'
  OBVIOUS
<1>1. /\ mode = "guest" /\ fibers' = Noted(fibers)
      /\ UNCHANGED <<cur, target, mode, ran, usedQ, waited>>
  BY DEF ServiceCall, InGuest, InCall, switchVars
<1>2. /\ Len(fibers') = Len(fibers)
      /\ \A i \in 1 .. Len(fibers) : fibers'[i].vruntime = fibers[i].vruntime
  BY <1>1, GuestRuns, NotedList
<1> QED BY <1>1, <1>2, TurnGoesOn DEF InTurn

LEMMA EnterCallTurn == FiberInv /\ TurnInv /\ EnterCall => TurnInv'
<1> SUFFICES ASSUME FiberInv, TurnInv, EnterCall PROVE TurnInv'
  OBVIOUS
<1>1. mode = "guest" /\ UNCHANGED <<cur, target, mode, ran, usedQ, waited>>
  BY DEF EnterCall, InGuest, InCall, switchVars
<1>2. /\ FiberList(fibers, cur, ran, clock) /\ Marked(fibers, {cur}) /\ CountsInv
      /\ clock \in Nat
  BY <1>1, GuestRuns, SchedulerAssumption DEF CountsInv
<1>3. PICK call \in Calls :
          \/ fibers' = [fibers EXCEPT ![cur].call = call]
          \/ fibers' = Noted([fibers EXCEPT ![cur].call = call])
  <2>1. Call("wait", 0) \in Calls
    BY SchedulerAssumption DEF Call, Calls, CallKinds
  <2>2. ASSUME NEW d \in Delays, clock + d <= MaxClock
        PROVE  Call("timed", clock + d) \in Calls /\ Call("sleep", clock + d) \in Calls
    <3>1. clock + d \in 0 .. MaxClock
      BY <2>2, <1>2, SchedulerAssumption
    <3> QED BY <3>1 DEF Call, Calls, CallKinds
  <2> QED BY <2>1, <2>2 DEF EnterCall
<1> DEFINE fs == [fibers EXCEPT ![cur].call = call]
<1>4. FiberList(fs, cur, ran, clock)
  BY <1>2, CallChanged
<1>5. /\ Len(fs) = Len(fibers)
      /\ \A i \in 1 .. Len(fibers) : fs[i].vruntime = fibers[i].vruntime
  BY <1>2, CallChanged
<1>6. fibers' = fs \/ fibers' = Noted(fs)
  BY <1>3
<1> HIDE DEF fs
<1>7. /\ Len(fibers') = Len(fibers)
      /\ \A i \in 1 .. Len(fibers) : fibers'[i].vruntime = fibers[i].vruntime
  <2>1. /\ Len(Noted(fs)) = Len(fs)
        /\ \A i \in 1 .. Len(fs) : Noted(fs)[i].vruntime = fs[i].vruntime
    BY <1>4, NotedList
  <2> QED BY <2>1, <1>5, <1>6
<1> QED BY <1>1, <1>7, TurnGoesOn DEF InTurn

LEMMA ThreadExitsTurn == FiberInv /\ TurnInv /\ ThreadExits => TurnInv'
<1> SUFFICES ASSUME FiberInv, TurnInv, ThreadExits PROVE TurnInv'
  OBVIOUS
<1>1. /\ mode = "guest" /\ mode' = "exiting"
      /\ UNCHANGED <<fibers, cur, target, ran, usedQ, waited>>
  BY DEF ThreadExits, InGuest, InCall
<1> QED BY <1>1, TurnGoesOn DEF InTurn

LEMMA TitleEndsTurn == FiberInv /\ TurnInv /\ TitleEnds => TurnInv'
<1> SUFFICES ASSUME FiberInv, TurnInv, TitleEnds PROVE TurnInv'
  OBVIOUS
<1>1. /\ mode = "guest" /\ mode' \in EndModes
      /\ UNCHANGED <<fibers, cur, target, ran, usedQ, waited>>
  BY DEF TitleEnds, InGuest, InCall, EndModes
<1> QED BY <1>1, TurnGoesOn DEF InTurn

LEMMA WaitBlocksTurn == FiberInv /\ TurnInv /\ WaitBlocks => TurnInv'
<1> SUFFICES ASSUME FiberInv, TurnInv, WaitBlocks PROVE TurnInv'
  OBVIOUS
<1> USE SchedulerAssumption
<1>1. mode = "guest" /\ UNCHANGED <<usedQ, waited>>
  BY DEF WaitBlocks, InCall
<1>2. /\ FiberList(fibers, cur, ran, clock) /\ Marked(fibers, {cur})
      /\ RegistryInv /\ CountsInv /\ cur \in 1 .. Len(fibers) /\ fibers[cur] \in Fiber
  BY <1>1, GuestRuns
<1>3. PICK pick \in PickTarget(fibers, FALSE) :
          \/ /\ pick.target # 0
             /\ SwitchTo(pick.fibers, pick.target, "Blocked")
          \/ /\ pick.target = 0
             /\ fibers' = [pick.fibers EXCEPT ![cur].call = Call("wait", IdleSince)]
             /\ Idle(clock + IdleStep)
          \/ /\ pick.target = 0
             /\ fibers' = pick.fibers
             /\ mode' = "deadlock"
             /\ UNCHANGED <<cur, target, hostYield, forceFail, ran, clock>>
  BY DEF WaitBlocks
<1>4. /\ FiberList(pick.fibers, cur, ran, clock) /\ Marked(pick.fibers, {cur})
      /\ Len(fibers) <= Len(pick.fibers) /\ cur \in 1 .. Len(pick.fibers)
  BY <1>2, PickInGuest
<1>5. pick.target # 0 => pick.target # cur
  BY <1>2, PickOutcome
<1>6. CASE /\ pick.target # 0
           /\ SwitchTo(pick.fibers, pick.target, "Blocked")
  <2>1. FiberInv' /\ pick.fibers \in Seq(Fiber)
    BY <1>4, WaitBlocksInv DEF FiberList
  <2> QED BY <2>1, <1>1, <1>4, <1>5, <1>6, SwitchTurn
<1>7. CASE pick.target = 0
  <2>1. /\ Len(pick.fibers) = Len(fibers)
        /\ \A i \in 1 .. Len(fibers) : pick.fibers[i].vruntime = fibers[i].vruntime
    BY <1>2, <1>7, PickStays
  <2>2. Call("wait", IdleSince) \in Calls
    <3>1. clock \in 0 .. MaxClock
      BY <1>2 DEF CountsInv
    <3>2. IdleSince \in 0 .. MaxClock
      BY <3>1, <1>2 DEF IdleSince, Fiber, Calls
    <3> QED BY <3>2 DEF Call, Calls, CallKinds
  <2>3. /\ Len(fibers') = Len(fibers)
        /\ \A i \in 1 .. Len(fibers) : fibers'[i].vruntime = fibers[i].vruntime
    <3> DEFINE gs == [pick.fibers EXCEPT ![cur].call = Call("wait", IdleSince)]
    <3>1. /\ Len(gs) = Len(pick.fibers)
          /\ \A i \in 1 .. Len(pick.fibers) : gs[i].vruntime = pick.fibers[i].vruntime
      BY <2>2, <1>2, <1>4, CallChanged
    <3>2. fibers' = gs \/ fibers' = pick.fibers
      BY <1>3, <1>7
    <3> HIDE DEF gs
    <3> QED BY <2>1, <3>1, <3>2
  <2>4. /\ UNCHANGED <<cur, target, ran>>
        /\ mode' \in {"poll", "idlePoll", "deadlock"}
    BY <1>3, <1>7 DEF Idle
  <2>5. mode' \in {"guest", "poll", "idlePoll"} \cup EndModes \cup {"exiting"}
    BY <2>4 DEF EndModes
  <2> QED BY <2>3, <2>4, <2>5, <1>1, TurnGoesOn DEF InTurn
<1> QED BY <1>3, <1>6, <1>7

LEMMA SleepContinuesTurn == FiberInv /\ TurnInv /\ SleepContinues => TurnInv'
<1> SUFFICES ASSUME FiberInv, TurnInv, SleepContinues PROVE TurnInv'
  OBVIOUS
<1> DEFINE deadline == fibers[cur].call.until
<1> USE SchedulerAssumption
<1>1. mode = "guest" /\ UNCHANGED <<usedQ, waited>>
  BY DEF SleepContinues, InCall
<1>2. /\ FiberList(fibers, cur, ran, clock) /\ Marked(fibers, {cur})
      /\ RegistryInv /\ CountsInv /\ cur \in 1 .. Len(fibers) /\ fibers[cur] \in Fiber
  BY <1>1, GuestRuns
<1>3. deadline \in 0 .. MaxClock
  BY <1>2 DEF Fiber, Calls
<1>4. PICK pick \in PickTarget(fibers, FALSE) :
          \/ /\ pick.target # 0
             /\ SwitchTo([pick.fibers EXCEPT ![cur].wake = deadline], pick.target, "Blocked")
          \/ /\ pick.target = 0
             /\ fibers' = pick.fibers
             /\ Idle(deadline)
  BY DEF SleepContinues
<1>5. /\ FiberList(pick.fibers, cur, ran, clock) /\ Marked(pick.fibers, {cur})
      /\ Len(fibers) <= Len(pick.fibers) /\ cur \in 1 .. Len(pick.fibers)
  BY <1>2, PickInGuest
<1>6. pick.target # 0 => pick.target # cur
  BY <1>2, PickOutcome
<1> HIDE DEF deadline
<1>7. CASE /\ pick.target # 0
           /\ SwitchTo([pick.fibers EXCEPT ![cur].wake = deadline], pick.target, "Blocked")
  <2> DEFINE g == [pick.fibers[cur] EXCEPT !.wake = deadline]
             gs == [pick.fibers EXCEPT ![cur] = g]
  <2>1. /\ pick.fibers \in Seq(Fiber) /\ pick.fibers[cur] \in Fiber
        /\ DOMAIN pick.fibers = 1 .. Len(pick.fibers)
    BY <1>5, LenProperties, ElementOfSeq DEF FiberList
  <2>2. g \in Fiber
    BY <2>1, <1>3 DEF Fiber
  <2>3. [pick.fibers EXCEPT ![cur].wake = deadline] = gs
    BY <2>1, <1>5
  <2> HIDE DEF g
  <2>4. gs \in Seq(Fiber) /\ Len(gs) = Len(pick.fibers)
    BY <2>1, <2>2, <1>5, ExceptSeq
  <2>5. SwitchTo(gs, pick.target, "Blocked")
    BY <2>3, <1>7
  <2> HIDE DEF gs
  <2>6. FiberInv' /\ cur \in 1 .. Len(gs) /\ Len(fibers) <= Len(gs)
    BY <2>4, <1>5, SleepContinuesInv
  <2> QED BY <2>4, <2>5, <2>6, <1>1, <1>6, <1>7, SwitchTurn
<1>8. CASE pick.target = 0 /\ fibers' = pick.fibers /\ Idle(deadline)
  <2>1. /\ Len(pick.fibers) = Len(fibers)
        /\ \A i \in 1 .. Len(fibers) : pick.fibers[i].vruntime = fibers[i].vruntime
    BY <1>2, <1>8, PickStays
  <2>2. UNCHANGED <<cur, target, ran>> /\ mode' \in {"poll", "idlePoll"}
    BY <1>8 DEF Idle
  <2> QED BY <2>1, <2>2, <1>1, <1>8, TurnGoesOn DEF InTurn
<1> QED BY <1>4, <1>7, <1>8

LEMMA YieldTurn == FiberInv /\ TurnInv /\ Yield => TurnInv'
<1> SUFFICES ASSUME FiberInv, TurnInv, Yield PROVE TurnInv'
  OBVIOUS
<1> DEFINE fs == [fibers EXCEPT ![cur].call = Call("yield", 0)]
           gs == Noted(fs)
<1> USE SchedulerAssumption
<1>1. mode = "guest" /\ UNCHANGED <<usedQ, waited>>
  BY DEF Yield, InGuest, InCall
<1>2. PICK pick \in PickTarget(gs, FALSE) :
          \/ /\ pick.target # 0
             /\ SwitchTo(pick.fibers, pick.target, "Ready")
          \/ /\ pick.target = 0
             /\ fibers' = pick.fibers
             /\ UNCHANGED <<cur, target, mode, forceFail, ran>>
  BY DEF Yield
<1>3. /\ FiberList(fibers, cur, ran, clock) /\ Marked(fibers, {cur})
      /\ RegistryInv /\ CountsInv
  BY <1>1, GuestRuns
<1>4. Call("yield", 0) \in Calls
  BY DEF Call, Calls, CallKinds
<1>5. FiberList(fs, cur, ran, clock) /\ Marked(fs, {cur})
  BY <1>3, <1>4, CallChanged
<1>6. /\ Len(fs) = Len(fibers)
      /\ \A i \in 1 .. Len(fibers) : fs[i].vruntime = fibers[i].vruntime
  BY <1>3, <1>4, CallChanged
<1> HIDE DEF fs
<1>7. FiberList(gs, cur, ran, clock) /\ Marked(gs, {cur}) /\ Len(gs) = Len(fs)
  BY <1>5, NotedList
<1>8. \A i \in 1 .. Len(fs) : gs[i].vruntime = fs[i].vruntime
  BY <1>5, NotedList
<1> HIDE DEF gs
<1>9. /\ FiberList(pick.fibers, cur, ran, clock) /\ Len(fibers) <= Len(pick.fibers)
      /\ cur \in 1 .. Len(pick.fibers)
  BY <1>6, <1>7, PickInGuest
<1>10. pick.target # 0 => pick.target # cur
  BY <1>3, <1>7, PickOutcome
<1>11. CASE pick.target # 0 /\ SwitchTo(pick.fibers, pick.target, "Ready")
  <2>1. FiberInv' /\ pick.fibers \in Seq(Fiber)
    BY <1>9, YieldInv DEF FiberList
  <2> QED BY <2>1, <1>1, <1>9, <1>10, <1>11, SwitchTurn
<1>12. CASE /\ pick.target = 0 /\ fibers' = pick.fibers
            /\ UNCHANGED <<cur, target, mode, ran>>
  <2>1. /\ Len(pick.fibers) = Len(gs)
        /\ \A i \in 1 .. Len(gs) : pick.fibers[i].vruntime = gs[i].vruntime
    BY <1>3, <1>7, <1>12, PickStays
  <2>2. /\ Len(fibers') = Len(fibers)
        /\ \A i \in 1 .. Len(fibers) : fibers'[i].vruntime = fibers[i].vruntime
    BY <2>1, <1>6, <1>7, <1>8, <1>12
  <2> QED BY <2>2, <1>1, <1>12, TurnGoesOn DEF InTurn
<1> QED BY <1>2, <1>11, <1>12

(* A thread that is over: its fiber leaves for another.                      *)
LEMMA FiberEndsTurn == FiberInv /\ TurnInv /\ FiberEnds => TurnInv'
<1> SUFFICES ASSUME FiberInv, TurnInv, FiberEnds PROVE TurnInv'
  OBVIOUS
<1> DEFINE fs == Finished(fibers)
<1>1. mode = "exiting" /\ UNCHANGED <<cur, waited>> /\ RegistryInv /\ CountsInv
  BY DEF FiberEnds, FiberInv
<1>2. PICK pick \in PickTarget(fs, FALSE) :
          /\ fibers' = pick.fibers
          /\ target' = IF pick.target # 0 THEN pick.target ELSE 1
          /\ mode' \in {"driver", "noTarget"}
  BY DEF FiberEnds
<1>3. FiberList(fs, cur, ran, clock) /\ Len(fs) = Len(fibers) /\ cur # 1
  BY <1>1, FinishedList
<1> HIDE DEF fs
<1>4. IsExtended(fs, pick.fibers) /\ (pick.target # 0 => pick.target # cur)
  BY <1>1, <1>3, PickOutcome
<1>5. Len(fibers) <= Len(fibers')
  BY <1>2, <1>3, <1>4, SchedulerAssumption DEF IsExtended, FiberList
<1>6. ~InTurn'
  BY <1>1, <1>2, <1>3, <1>4 DEF InTurn
<1> QED BY <1>1, <1>5, <1>6, FiberEndsInv, TurnEnds

(* The driver: the same fiber goes on, or another one's turn begins.         *)
LEMMA PrepareTurn == FiberInv /\ TurnInv /\ Prepare => TurnInv'
<1> SUFFICES ASSUME FiberInv, TurnInv, Prepare PROVE TurnInv'
  OBVIOUS
<1> DEFINE g == Resumed(fibers[target])
<1> USE SchedulerAssumption
<1>1. /\ mode = "driver" /\ cur' = target /\ mode' = "guest"
      /\ ran' = 0 /\ usedQ' = QuantumAfterSwitch /\ target' = target
      /\ waited' = IF target = cur THEN waited ELSE [i \in 1 .. MaxFibers |-> 0]
      /\ fibers' = [fibers EXCEPT ![target] = g]
  BY DEF Prepare
<1>2. /\ FiberList(fibers, cur, ran, clock) /\ CountsInv /\ target \in 1 .. Len(fibers)
      /\ fibers \in Seq(Fiber) /\ Len(fibers) \in 1 .. MaxFibers
  BY DEF FiberInv, SwitchInv, FiberList
<1>3. fibers[target] \in Fiber
  BY <1>2, ElementOfSeq
<1>4. g \in Fiber /\ g.vruntime = fibers[target].vruntime
  <2>1. 0 \in 0 .. MaxClock
    OBVIOUS
  <2>2. g = [fibers[target] EXCEPT !.state = "Running", !.wake = 0]
    BY DEF Resumed
  <2> HIDE DEF g
  <2> QED BY <2>1, <2>2, <1>3 DEF Fiber, FiberStates
<1> HIDE DEF g
<1>5. Replaced(fibers, target, g, fibers')
  BY <1>1, <1>2, <1>4, ReplacedBy
<1>6. /\ Len(fibers') = Len(fibers)
      /\ \A i \in 1 .. Len(fibers) : fibers'[i].vruntime = fibers[i].vruntime
  BY <1>4, <1>5 DEF Replaced
<1>7. CASE target = cur
  <2>1. ran = 0
    BY <1>1, <1>7 DEF TurnInv
  <2>2. UNCHANGED <<cur, target, ran, usedQ, waited>>
    BY <2>1, <1>1, <1>7 DEF QuantumAfterSwitch
  <2> QED BY <2>2, <1>1, <1>6, <1>7, TurnGoesOn DEF InTurn
<1>8. CASE target # cur
  <2>1. usedQ' = 0 /\ \A i \in 1 .. MaxFibers : waited'[i] = 0
    BY <1>1, <1>8 DEF QuantumAfterSwitch
  <2>2. \A i \in 1 .. Len(fibers) : i \in 1 .. MaxFibers
    BY <1>2
  <2>3. QuantumInv'
    BY <2>1, <1>1 DEF QuantumInv
  <2>4. WaitedInv'
    BY <2>1, <2>2, <1>6 DEF WaitedInv
  <2>5. PolledInv'
    BY <1>1 DEF PolledInv
  <2>6. DOMAIN fibers' = 1 .. Len(fibers)
    <3>1. fibers' \in Seq(Fiber)
      BY <1>5 DEF Replaced
    <3> QED BY <3>1, <1>6, LenProperties
  <2>7. FairShare'
    BY <2>1, <2>2, <2>6 DEF FairShare, FairBound
  <2>8. waited'[cur'] = 0
    BY <2>1, <2>2, <1>1, <1>2
  <2>9. mode' # "driver"
    BY <1>1
  <2> QED BY <2>1, <2>3, <2>4, <2>5, <2>7, <2>8, <2>9 DEF TurnInv
<1> QED BY <1>7, <1>8

LEMMA AbortTurn == FiberInv /\ TurnInv /\ Abort => TurnInv'
<1> SUFFICES ASSUME FiberInv, TurnInv, Abort PROVE TurnInv'
  OBVIOUS
<1>1. mode' = "aborted" /\ UNCHANGED <<fibers, cur, target, ran, usedQ, waited>>
  BY DEF Abort
<1>2. FiberInv' /\ ~InTurn'
  BY <1>1, AbortInv DEF InTurn
<1>3. Len(fibers) <= Len(fibers')
  <2>1. Len(fibers) \in 1 .. MaxFibers
    BY DEF FiberInv, FiberList
  <2> QED BY <2>1, <1>1, SchedulerAssumption
<1> QED BY <1>1, <1>2, <1>3, TurnEnds

LEMMA StutterTurn == TurnInv /\ UNCHANGED vars => TurnInv'
<1> SUFFICES ASSUME TurnInv, UNCHANGED vars PROVE TurnInv'
  OBVIOUS
<1>1. UNCHANGED <<registry, fibers, cur, target, mode, ran, usedQ, clock, waited>>
  BY DEF vars, switchVars
<1>2. Candidates(fibers, cur)' = Candidates(fibers, cur)
  BY <1>1 DEF Candidates, Eligible, ThreadRunnable, Listed, RunnableSlots, HandleOf
<1>3. /\ InTurn' <=> InTurn
      /\ QuantumInv' <=> QuantumInv
      /\ WaitedInv' <=> WaitedInv
      /\ PolledInv' <=> PolledInv
      /\ FairShare' <=> FairShare
  <2>1. PolledInv' <=> PolledInv
    BY <1>1, <1>2 DEF PolledInv, QuantumOver
  <2> QED BY <2>1, <1>1 DEF InTurn, QuantumInv, WaitedInv, FairShare, FairBound
<1> QED BY <1>1, <1>3 DEF TurnInv

LEMMA NextTurn == FiberInv /\ TurnInv /\ [Next]_vars => TurnInv'
<1> SUFFICES ASSUME FiberInv, TurnInv, [Next]_vars PROVE TurnInv'
  OBVIOUS
<1>1. CASE HostStep
  BY <1>1, CallReturnsTurn, WaitBlocksTurn, SleepContinuesTurn, PollTurn, PrepareTurn
     DEF HostStep
<1>2. CASE Run \/ ServiceCall \/ Yield \/ EnterCall
  BY <1>2, RunTurn, ServiceCallTurn, YieldTurn, EnterCallTurn
<1>3. CASE ThreadExits \/ FiberEnds \/ TitleEnds \/ Abort
  BY <1>3, ThreadExitsTurn, FiberEndsTurn, TitleEndsTurn, AbortTurn
<1>4. CASE Ended \/ UNCHANGED vars
  BY <1>4, StutterTurn DEF Ended
<1> QED BY <1>1, <1>2, <1>3, <1>4 DEF Next

(* FairShare: for every quantum and lag, and however many fibers there are,  *)
(* a fiber that could run all the while is passed over in one turn of        *)
(* another for at most the lag and two quanta.                               *)
THEOREM FairShareHolds == Spec => []FairShare
<1>1. FiberInv /\ TurnInv /\ [Next]_vars => (FiberInv /\ TurnInv)'
  BY NextInv, NextTurn
<1>2. TurnInv => FairShare
  BY DEF TurnInv
<1> QED BY <1>1, <1>2, InitInv, InitTurn, PTL DEF Spec

=============================================================================
