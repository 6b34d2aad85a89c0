------------------------- MODULE KernelWaitsProofs -------------------------
(***************************************************************************)
(* That nobody sleeps through what he waits for, that nobody holds what    *)
(* another does, and that every call but a timed wait takes effect exactly *)
(* once: for every set of threads, objects and calls, as far as the code   *)
(* keeps these promises.                                                   *)
(***************************************************************************)
EXTENDS KernelWaits, DataLemmas

-----------------------------------------------------------------------------
(* Hypotheses: what the code's known defects, each shown by a run of its    *)
(* own, leave to be proved.                                                 *)

\* NtSignalAndWaitForSingleObjectEx, which signals again at every retry and
\* signals without waking, is not called.
NoSignalAndWait == \A c \in TitleCalls : c.signal = NoObject

\* ... or no mutant is what it signals.
SignalsNoMutant == \A c \in TitleCalls : c.signal \notin Mutants

\* A wait with a timeout, which may end as another thread, is not for a mutant.
TimedNotOnMutants ==
    \A c \in TitleCalls : c.timed => \A i \in DOMAIN c.objects : c.objects[i] \notin Mutants

\* A wait with a timeout, whose end the dispatcher may overlook, is for one
\* event that the wait resets.
TimedOnEvents ==
    \A c \in TitleCalls : c.timed => \E e \in SynchronizationEvents : c.objects = <<e>>

-----------------------------------------------------------------------------
(* The inductive invariant *)

Header == [signal : Int, owner : Threads \cup {Nobody}, depth : Int]

Holdings == [Threads -> [Objects -> 0 .. MaxDepth]]

\* Types, as far as the steps need them.
ControlInv ==
    /\ call \in [Threads -> TitleCalls \cup {NoCall}]
    /\ at \in [Threads -> {"guest", "dispatch", "retry", "timed", "unseen"}]
    /\ fiber \in [Threads -> {"Running", "Ready", "Blocked"}]
    /\ noted \in [Threads -> BOOLEAN] /\ passed \in [Threads -> BOOLEAN]
    /\ cur \in Threads /\ caller \in Threads
    /\ status \in {"success", "wouldBlock"}
    /\ mode \in {"run", "deadlock"}

DataInv ==
    /\ ControlInv
    /\ objects \in [Objects -> Header]
    /\ holds \in Holdings

\* Where the threads are: only the running thread is being dispatched, and
\* then the caller's registers are its own; the others are in guest code, or
\* blocked in a call.
FlowInv ==
    /\ \A t \in Threads : at[t] = "guest" <=> call[t] = NoCall
    /\ \A t \in Threads : at[t] \in {"timed", "unseen"} => call[t].timed
    /\ \A t \in Threads : at[t] \in {"dispatch", "unseen"} => t = cur
    /\ at[cur] = "dispatch" => caller = cur
    /\ \A t \in Threads : fiber[t] = "Running" <=> t = cur
    /\ \A t \in Threads : fiber[t] = "Ready" => at[t] = "guest"
    /\ \A t \in Threads : fiber[t] = "Blocked" => at[t] \in {"retry", "timed"}

\* What a thread's discipline allowed when it made a call stays true until the
\* call returns, since only the thread's own calls change what it holds.
AllowedFor(hs, t, c) ==
    /\ c.op \in {"Leave", "ReleaseLock"} => hs[t][c.objects[1]] > 0
    /\ \A i \in DOMAIN c.objects :
          c.op \notin {"Leave", "ReleaseLock"} => hs[t][c.objects[i]] < MaxDepth

AllowedInv == \A t \in Threads : AllowedFor(holds, t, call[t])

\* Only t holds o.
OnlyHolder(hs, o, t) == \A u \in Threads \ {t} : hs[u][o] = 0

\* A mutant is free, or its owner is its one holder and the signal state counts
\* how often.
MutantOk(r, hs, o) ==
    \/ r.owner = Nobody /\ r.signal = 1 /\ OnlyHolder(hs, o, Nobody)
    \/ /\ r.owner \in Threads /\ OnlyHolder(hs, o, r.owner)
       /\ r.signal <= 0 /\ hs[r.owner][o] = 1 - r.signal

\* A section likewise; both its counts agree.
SectionOk(r, hs, o) ==
    \/ r.owner = Nobody /\ r.signal = -1 /\ r.depth = 0 /\ OnlyHolder(hs, o, Nobody)
    \/ /\ r.owner \in Threads /\ OnlyHolder(hs, o, r.owner)
       /\ r.depth > 0 /\ r.signal = r.depth - 1 /\ hs[r.owner][o] = r.depth

\* How often o is held, and how often t holds it, as sets to be counted.
Held1(hs, o) == {h \in Threads \X (1 .. MaxDepth) : h[2] <= hs[h[1]][o]}

\* A lock counts its holders; it is free, held once exclusively, or shared.
LockOk(r, hs, o) ==
    LET total == Cardinality(Held1(hs, o))
    IN  /\ total = r.signal + 1
        /\ r.depth \in {0, total}
        /\ r.depth = 0 => total <= 1

HeldOk(os, hs) ==
    /\ \A o \in Mutants : MutantOk(os[o], hs, o)
    /\ \A o \in Sections : SectionOk(os[o], hs, o)
    /\ \A o \in Locks : LockOk(os[o], hs, o)

HeldInv == HeldOk(objects, holds)

KernelInv == DataInv /\ FlowInv /\ AllowedInv /\ HeldInv

\* Events are set or reset, and semaphores keep within their limit.
CountsOk(os) ==
    /\ \A o \in Events : os[o].signal \in {0, 1}
    /\ \A o \in Semaphores : os[o].signal \in 0 .. Limit
    /\ \A o \in Dispatchers : os[o].depth = 0

CountsInv == CountsOk(objects)

\* A wait the dispatcher overlooked has consumed its signal.
UnseenInv == at[cur] = "unseen" => ~CanComplete(objects, call[cur], cur)

-----------------------------------------------------------------------------
(* The calls                                                               *)

(* What WellFormed gives, kind by kind.                                     *)
LEMMA CallKinds ==
    ASSUME NEW c \in TitleCalls
    PROVE  /\ c # NoCall
           /\ \/ /\ c.op = "Wait" /\ c.objects \in Seq(Dispatchers) /\ c.objects # <<>>
                 /\ c.all \in BOOLEAN /\ c.timed \in BOOLEAN
                 /\ c.signal \in Dispatchers \cup {NoObject}
              \/ \E o \in Sections :
                    c.op \in {"Enter", "TryEnter", "Leave"} /\ c = Plain(c.op, o)
              \/ \E o \in Locks :
                    /\ c.op \in {"AcquireExclusive", "TryAcquireExclusive",
                                 "AcquireShared", "TryAcquireShared", "ReleaseLock"}
                    /\ c = Plain(c.op, o)
              \/ \E o \in Events :
                    c.op \in {"SetEvent", "ResetEvent", "PulseEvent"} /\ c = Plain(c.op, o)
              \/ \E o \in Semaphores : c.op = "ReleaseSemaphore" /\ c = Plain(c.op, o)
              \/ \E o \in Mutants : c.op = "ReleaseMutant" /\ c = Plain(c.op, o)
<1>1. WellFormed(c)
  BY WaitsAssumption
<1>2. \A op, o : Plain(op, o).op = op
  BY DEF Plain, CallOn
<1>3. \A op, s, a, t, g : CallOn(op, s, a, t, g).op = op
  BY DEF CallOn
<1>4. NoCall.op = "None"
  BY DEF NoCall, CallOn
<1>5. CASE /\ c = CallOn("Wait", c.objects, c.all, c.timed, c.signal)
           /\ c.objects \in Seq(Dispatchers) /\ c.objects # <<>>
           /\ c.all \in BOOLEAN /\ c.timed \in BOOLEAN
           /\ c.signal \in Dispatchers \cup {NoObject}
  <2>1. c.op = "Wait"
    BY <1>3, <1>5
  <2> QED BY <1>4, <1>5, <2>1
<1>6. CASE \E o \in Sections, op \in {"Enter", "TryEnter", "Leave"} : c = Plain(op, o)
  BY <1>2, <1>4, <1>6
<1>7. CASE \E o \in Locks, op \in {"AcquireExclusive", "TryAcquireExclusive",
                             "AcquireShared", "TryAcquireShared", "ReleaseLock"} :
              c = Plain(op, o)
  BY <1>2, <1>4, <1>7
<1>8. CASE \E o \in Events, op \in {"SetEvent", "ResetEvent", "PulseEvent"} : c = Plain(op, o)
  BY <1>2, <1>4, <1>8
<1>9. CASE \E o \in Semaphores : c = Plain("ReleaseSemaphore", o)
  BY <1>2, <1>4, <1>9
<1>10. CASE \E o \in Mutants : c = Plain("ReleaseMutant", o)
  BY <1>2, <1>4, <1>10
<1> QED BY <1>1, <1>5, <1>6, <1>7, <1>8, <1>9, <1>10 DEF WellFormed

LEMMA PlainFields ==
    ASSUME NEW op, NEW o
    PROVE  /\ Plain(op, o).op = op /\ Plain(op, o).objects = <<o>>
           /\ Plain(op, o).objects[1] = o /\ DOMAIN Plain(op, o).objects = {1}
           /\ Plain(op, o).all = FALSE /\ Plain(op, o).timed = FALSE
           /\ Plain(op, o).signal = NoObject
  BY DEF Plain, CallOn

(* The abstract specification's operators on objects are the same.          *)
LEMMA SameObjects ==
    ASSUME NEW os, NEW c, NEW t
    PROVE  /\ Lenient!CanComplete(os, c, t) = CanComplete(os, c, t)
           /\ Lenient!After(os, c, t) = After(os, c, t)
           /\ Lenient!Presignaled(os, c) = Presignaled(os, c)
<1>0. \A o : Lenient!Signaled(os, o, t) = Signaled(os, o, t)
  BY DEF Lenient!Signaled, Signaled
<1>1. Lenient!Satisfying(os, c, t) = Satisfying(os, c, t)
  BY <1>0, Zenon DEF Lenient!Satisfying, Satisfying
<1>2. Lenient!CanComplete(os, c, t) = CanComplete(os, c, t)
  BY <1>0, Zenon DEF Lenient!CanComplete, CanComplete, Lenient!CanEnter, CanEnter,
       Lenient!CanAcquireExclusive, CanAcquireExclusive, Lenient!CanAcquireShared, CanAcquireShared
<1>3. \A p : Lenient!Consumed(os, p, t) = Consumed(os, p, t)
  BY Zenon DEF Lenient!Consumed, Consumed
<1>4. Lenient!After(os, c, t) = After(os, c, t)
  BY <1>0, <1>1, <1>3, Zenon DEF Lenient!After, After, Lenient!CanEnter, CanEnter,
       Lenient!CanAcquireExclusive, CanAcquireExclusive, Lenient!CanAcquireShared, CanAcquireShared,
       Lenient!Entered, Entered, Lenient!Left, Left, Lenient!AcquiredExclusive, AcquiredExclusive,
       Lenient!AcquiredShared, AcquiredShared, Lenient!LockReleased, LockReleased,
       Lenient!SemaphoreReleased, SemaphoreReleased, Lenient!MutantReleased, MutantReleased,
       Lenient!Objects, Objects, Lenient!Dispatchers, Dispatchers, Lenient!Events, Events
<1>5. Lenient!Presignaled(os, c) = Presignaled(os, c)
  BY Zenon DEF Lenient!Presignaled, Presignaled, Lenient!Events, Events
<1> QED BY <1>2, <1>4, <1>5
-----------------------------------------------------------------------------
(* What each operation leaves on the objects *)

\* ns is os with o's fields changed to these.
Put(os, ns, o, signal, owner, depth) ==
    /\ ns \in [Objects -> Header]
    /\ \A p \in Objects \ {o} : ns[p] = os[p]
    /\ ns[o].signal = signal /\ ns[o].owner = owner /\ ns[o].depth = depth

LEMMA HeaderFields ==
    ASSUME NEW os \in [Objects -> Header], NEW o \in Objects
    PROVE  os[o].signal \in Int /\ os[o].owner \in Threads \cup {Nobody} /\ os[o].depth \in Int
<1>1. os[o] \in Header
  OBVIOUS
<1> QED BY <1>1 DEF Header

LEMMA PutHeader ==
    ASSUME NEW os \in [Objects -> Header], NEW o \in Objects, NEW ns,
           NEW x \in Int, NEW y \in Threads \cup {Nobody}, NEW z \in Int,
           ns = [os EXCEPT ![o] = [signal |-> x, owner |-> y, depth |-> z]]
    PROVE  Put(os, ns, o, x, y, z)
<1>1. [signal |-> x, owner |-> y, depth |-> z] \in Header
  BY DEF Header
<1> QED BY <1>1 DEF Put

LEMMA PutSignal ==
    ASSUME NEW os \in [Objects -> Header], NEW o \in Objects, NEW ns, NEW x \in Int,
           ns = [os EXCEPT ![o].signal = x]
    PROVE  Put(os, ns, o, x, os[o].owner, os[o].depth)
<1>1. os[o] \in Header /\ [os[o] EXCEPT !.signal = x] \in Header
  BY DEF Header
<1>2. [os[o] EXCEPT !.signal = x] = [signal |-> x, owner |-> os[o].owner, depth |-> os[o].depth]
  BY <1>1 DEF Header
<1>3. ns[o] = [os[o] EXCEPT !.signal = x] /\ ns = [os EXCEPT ![o] = [os[o] EXCEPT !.signal = x]]
  OBVIOUS
<1> QED BY <1>1, <1>2, <1>3 DEF Put

LEMMA PutSignalDepth ==
    ASSUME NEW os \in [Objects -> Header], NEW o \in Objects, NEW ns,
           NEW x \in Int, NEW z \in Int,
           ns = [os EXCEPT ![o].signal = x, ![o].depth = z]
    PROVE  Put(os, ns, o, x, os[o].owner, z)
<1> DEFINE q == [os[o] EXCEPT !.signal = x]
<1>1. os[o] \in Header /\ q \in Header /\ q.signal = x /\ q.owner = os[o].owner
  BY DEF Header
<1>2. ns = [os EXCEPT ![o] = [q EXCEPT !.depth = z]]
  OBVIOUS
<1> HIDE DEF q
<1>3. [q EXCEPT !.depth = z] \in Header
  BY <1>1 DEF Header
<1>4. ns[o] = [signal |-> x, owner |-> os[o].owner, depth |-> z]
  BY <1>1, <1>2 DEF Header
<1> QED BY <1>2, <1>3, <1>4 DEF Put

LEMMA PutSignalOwner ==
    ASSUME NEW os \in [Objects -> Header], NEW o \in Objects, NEW ns,
           NEW x \in Int, NEW y \in Threads \cup {Nobody},
           ns = [os EXCEPT ![o].signal = x, ![o].owner = y]
    PROVE  Put(os, ns, o, x, y, os[o].depth)
<1> DEFINE q == [os[o] EXCEPT !.signal = x]
<1>1. os[o] \in Header /\ q \in Header /\ q.signal = x /\ q.depth = os[o].depth
  BY DEF Header
<1>2. ns = [os EXCEPT ![o] = [q EXCEPT !.owner = y]]
  OBVIOUS
<1> HIDE DEF q
<1>3. [q EXCEPT !.owner = y] \in Header
  BY <1>1 DEF Header
<1>4. ns[o] = [signal |-> x, owner |-> y, depth |-> os[o].depth]
  BY <1>1, <1>2 DEF Header
<1> QED BY <1>2, <1>3, <1>4 DEF Put

LEMMA EnteredEffect ==
    ASSUME NEW os \in [Objects -> Header], NEW o \in Objects, NEW t \in Threads
    PROVE  IF os[o].owner = t
           THEN Put(os, Entered(os, o, t), o, os[o].signal + 1, t, os[o].depth + 1)
           ELSE Put(os, Entered(os, o, t), o, 0, t, 1)
<1>1. CASE os[o].owner = t
  <2>1. Entered(os, o, t) = [os EXCEPT ![o].signal = os[o].signal + 1, ![o].depth = os[o].depth + 1]
    BY <1>1, Zenon DEF Entered
  <2>2. os[o].signal + 1 \in Int /\ os[o].depth + 1 \in Int
    BY HeaderFields
  <2>3. Put(os, Entered(os, o, t), o, os[o].signal + 1, os[o].owner, os[o].depth + 1)
    BY <2>1, <2>2, PutSignalDepth, Zenon
  <2> QED BY <1>1, <2>3
<1>2. CASE os[o].owner # t
  <2>1. Entered(os, o, t) = [os EXCEPT ![o] = [signal |-> 0, owner |-> t, depth |-> 1]]
    BY <1>2, Zenon DEF Entered
  <2>2. 0 \in Int /\ 1 \in Int /\ t \in Threads \cup {Nobody}
    OBVIOUS
  <2>3. Put(os, Entered(os, o, t), o, 0, t, 1)
    BY <2>1, <2>2, PutHeader, Zenon
  <2> QED BY <1>2, <2>3
<1> QED BY <1>1, <1>2

LEMMA LeftEffect ==
    ASSUME NEW os \in [Objects -> Header], NEW o \in Objects
    PROVE  IF os[o].depth = 0 THEN Left(os, o) = os
           ELSE Put(os, Left(os, o), o, os[o].signal - 1,
                    IF os[o].depth = 1 THEN Nobody ELSE os[o].owner, os[o].depth - 1)
<1>1. CASE os[o].depth = 0
  BY <1>1 DEF Left
<1>2. CASE os[o].depth # 0
  <2> DEFINE y == IF os[o].depth = 1 THEN Nobody ELSE os[o].owner
  <2>1. Left(os, o) = [os EXCEPT ![o] = [signal |-> os[o].signal - 1, owner |-> y,
                                         depth |-> os[o].depth - 1]]
    BY <1>2 DEF Left
  <2>2. os[o].signal - 1 \in Int /\ os[o].depth - 1 \in Int /\ y \in Threads \cup {Nobody}
    BY HeaderFields
  <2> HIDE DEF y
  <2>3. Put(os, Left(os, o), o, os[o].signal - 1, y, os[o].depth - 1)
    BY <2>1, <2>2, PutHeader, Zenon
  <2> QED BY <1>2, <2>3 DEF y
<1> QED BY <1>1, <1>2

LEMMA LockEffects ==
    ASSUME NEW os \in [Objects -> Header], NEW o \in Objects
    PROVE  /\ Put(os, AcquiredExclusive(os, o), o, 0, os[o].owner, os[o].depth)
           /\ Put(os, AcquiredShared(os, o), o, os[o].signal + 1, os[o].owner, os[o].depth + 1)
           /\ Put(os, LockReleased(os, o), o, os[o].signal - 1, os[o].owner,
                  IF os[o].signal - 1 < 0 \/ os[o].depth = 0 THEN 0 ELSE os[o].depth - 1)
<1> DEFINE z == IF os[o].signal - 1 < 0 \/ os[o].depth = 0 THEN 0 ELSE os[o].depth - 1
<1>0. /\ os[o].signal + 1 \in Int /\ os[o].signal - 1 \in Int /\ os[o].depth + 1 \in Int
      /\ z \in Int /\ 0 \in Int
  BY HeaderFields
<1>1. Put(os, AcquiredExclusive(os, o), o, 0, os[o].owner, os[o].depth)
  BY <1>0, PutSignal, Zenon DEF AcquiredExclusive
<1>2. Put(os, AcquiredShared(os, o), o, os[o].signal + 1, os[o].owner, os[o].depth + 1)
  BY <1>0, PutSignalDepth, Zenon DEF AcquiredShared
<1>3. LockReleased(os, o) = [os EXCEPT ![o].signal = os[o].signal - 1, ![o].depth = z]
  BY Zenon DEF LockReleased
<1>4. Put(os, LockReleased(os, o), o, os[o].signal - 1, os[o].owner, z)
  <2> HIDE DEF z
  <2> QED BY <1>0, <1>3, PutSignalDepth, Zenon
<1> QED BY <1>1, <1>2, <1>4

LEMMA ReleaseEffects ==
    ASSUME NEW os \in [Objects -> Header], NEW o \in Objects, NEW t \in Threads
    PROVE  /\ IF os[o].signal + 1 > Limit THEN SemaphoreReleased(os, o) = os
              ELSE Put(os, SemaphoreReleased(os, o), o, os[o].signal + 1, os[o].owner, os[o].depth)
           /\ IF os[o].owner # t \/ os[o].signal > 0 THEN MutantReleased(os, o, t) = os
              ELSE Put(os, MutantReleased(os, o, t), o, os[o].signal + 1,
                       IF os[o].signal + 1 > 0 THEN Nobody ELSE os[o].owner, os[o].depth)
<1> DEFINE y == IF os[o].signal + 1 > 0 THEN Nobody ELSE os[o].owner
<1>0. os[o].signal + 1 \in Int /\ y \in Threads \cup {Nobody}
  BY HeaderFields
<1>1. ~(os[o].signal + 1 > Limit)
      => Put(os, SemaphoreReleased(os, o), o, os[o].signal + 1, os[o].owner, os[o].depth)
  BY <1>0, PutSignal, Zenon DEF SemaphoreReleased
<1>2. ASSUME ~(os[o].owner # t \/ os[o].signal > 0)
      PROVE  Put(os, MutantReleased(os, o, t), o, os[o].signal + 1, y, os[o].depth)
  <2>1. MutantReleased(os, o, t) = [os EXCEPT ![o].signal = os[o].signal + 1, ![o].owner = y]
    BY <1>2, Zenon DEF MutantReleased
  <2> HIDE DEF y
  <2> QED BY <1>0, <2>1, PutSignalOwner, Zenon
<1>3. os[o].signal + 1 > Limit => SemaphoreReleased(os, o) = os
  BY DEF SemaphoreReleased
<1>4. os[o].owner # t \/ os[o].signal > 0 => MutantReleased(os, o, t) = os
  BY DEF MutantReleased
<1> QED BY <1>1, <1>2, <1>3, <1>4

LEMMA ConsumedEffect ==
    ASSUME NEW os \in [Objects -> Header], NEW o \in Objects, NEW t \in Threads
    PROVE  /\ Consumed(os, o, t) \in Header
           /\ Consumed(os, o, t).depth = os[o].depth
           /\ o \in SynchronizationEvents => Consumed(os, o, t).signal = 0
           /\ o \in Semaphores => Consumed(os, o, t).signal = os[o].signal - 1
           /\ o \in Mutants => /\ Consumed(os, o, t).signal = os[o].signal - 1
                               /\ Consumed(os, o, t).owner = t
           /\ o \notin SynchronizationEvents \cup Semaphores \cup Mutants
                => Consumed(os, o, t) = os[o]
<1>0. os[o] \in Header
  OBVIOUS
<1>1. CASE o \in SynchronizationEvents
  BY <1>0, <1>1, HeaderFields, ObjectsAssumption DEF Consumed, Header, Events
<1>2. CASE o \in Semaphores
  BY <1>0, <1>2, HeaderFields, ObjectsAssumption DEF Consumed, Header, Events
<1>3. CASE o \in Mutants
  <2> DEFINE q == [os[o] EXCEPT !.signal = os[o].signal - 1]
  <2>1. q \in Header /\ q.signal = os[o].signal - 1 /\ q.depth = os[o].depth
    BY <1>0, HeaderFields DEF Header
  <2>2. Consumed(os, o, t) = [q EXCEPT !.owner = t]
    BY <1>3, ObjectsAssumption DEF Consumed, Events
  <2> HIDE DEF q
  <2>3. [q EXCEPT !.owner = t] = [signal |-> q.signal, owner |-> t, depth |-> q.depth]
    BY <2>1 DEF Header
  <2>4. Consumed(os, o, t) \in Header
    BY <2>1, <2>2 DEF Header
  <2> QED BY <1>3, <2>1, <2>2, <2>3, <2>4, ObjectsAssumption DEF Events
<1>4. CASE o \notin SynchronizationEvents \cup Semaphores \cup Mutants
  BY <1>0, <1>4 DEF Consumed
<1> QED BY <1>1, <1>2, <1>3, <1>4

-----------------------------------------------------------------------------
(* What a whole call leaves on the objects, and what it is held to take *)

\* Every object that t's wait consumes is signalled for t.
LEMMA SatisfyingSignaled ==
    ASSUME NEW os, NEW c, NEW t, c.op = "Wait", CanComplete(os, c, t),
           NEW o \in Satisfying(os, c, t)
    PROVE  Signaled(os, o, t) /\ \E i \in DOMAIN c.objects : o = c.objects[i]
<1>1. PICK i \in DOMAIN c.objects :
         /\ o = c.objects[i]
         /\ \/ c.all
            \/ /\ Signaled(os, c.objects[i], t)
               /\ \A j \in 1 .. i - 1 : ~Signaled(os, c.objects[j], t)
  BY DEF Satisfying
<1>2. c.all => \A j \in DOMAIN c.objects : Signaled(os, c.objects[j], t)
  BY Zenon DEF CanComplete
<1> QED BY <1>1, <1>2

\* What a wait does to one object.
WaitEffect(os, c, t, o) ==
    After(os, c, t)[o] = IF o \in Satisfying(os, c, t) THEN Consumed(os, o, t) ELSE os[o]

LEMMA AfterWait ==
    ASSUME NEW os \in [Objects -> Header], NEW c \in TitleCalls, NEW t \in Threads,
           c.op = "Wait"
    PROVE  /\ After(os, c, t) \in [Objects -> Header]
           /\ \A o \in Objects : WaitEffect(os, c, t, o)
<1> DEFINE ns == [p \in Objects |-> IF p \in Satisfying(os, c, t) THEN Consumed(os, p, t) ELSE os[p]]
<1>1. After(os, c, t) = ns
  BY DEF After
<1>2. \A p \in Objects : os[p] \in Header /\ Consumed(os, p, t) \in Header
  BY ConsumedEffect
<1>3. ns \in [Objects -> Header]
  BY <1>2
<1>4. \A p \in Objects : ns[p] = IF p \in Satisfying(os, c, t) THEN Consumed(os, p, t) ELSE os[p]
  OBVIOUS
<1> HIDE DEF ns
<1> QED BY <1>1, <1>3, <1>4 DEF WaitEffect

\* From os to ns, the call c by t leaves o alone and counts nothing for it ...
Untouched(os, ns, c, t, o) ==
    ns[o] = os[o] /\ o \notin Takes(os, c, t) /\ o \notin Gives(os, c, t)

\* ... takes it, or gives it back.
IsTaken(os, c, t, o) ==
    /\ o \in Takes(os, c, t) /\ o \notin Gives(os, c, t)
    /\ c.op \notin {"Leave", "ReleaseLock"}
    /\ \E i \in DOMAIN c.objects : o = c.objects[i]

IsGiven(os, c, t, o) == o \notin Takes(os, c, t) /\ o \in Gives(os, c, t)

\* The call's effect on a mutant, a section, a lock.
MutantStep(os, ns, c, t, o) ==
    \/ Untouched(os, ns, c, t, o)
    \/ /\ IsTaken(os, c, t, o) /\ Signaled(os, o, t)
       /\ ns[o].signal = os[o].signal - 1 /\ ns[o].owner = t
    \/ /\ IsGiven(os, c, t, o) /\ os[o].owner = t /\ os[o].signal <= 0
       /\ ns[o].signal = os[o].signal + 1
       /\ ns[o].owner = IF os[o].signal + 1 > 0 THEN Nobody ELSE os[o].owner

SectionStep(os, ns, c, t, o) ==
    \/ Untouched(os, ns, c, t, o)
    \/ /\ IsTaken(os, c, t, o) /\ CanEnter(os, o, t)
       /\ IF os[o].owner = t THEN Put(os, ns, o, os[o].signal + 1, t, os[o].depth + 1)
          ELSE Put(os, ns, o, 0, t, 1)
    \/ /\ IsGiven(os, c, t, o) /\ c.op = "Leave" /\ o = c.objects[1]
       /\ IF os[o].depth = 0 THEN ns = os
          ELSE Put(os, ns, o, os[o].signal - 1,
                   IF os[o].depth = 1 THEN Nobody ELSE os[o].owner, os[o].depth - 1)

LockStep(os, ns, c, t, o) ==
    \/ Untouched(os, ns, c, t, o)
    \/ /\ IsTaken(os, c, t, o) /\ CanAcquireExclusive(os, o)
       /\ Put(os, ns, o, 0, os[o].owner, os[o].depth)
    \/ /\ IsTaken(os, c, t, o) /\ CanAcquireShared(os, o)
       /\ Put(os, ns, o, os[o].signal + 1, os[o].owner, os[o].depth + 1)
    \/ /\ IsGiven(os, c, t, o) /\ c.op = "ReleaseLock" /\ o = c.objects[1]
       /\ Put(os, ns, o, os[o].signal - 1, os[o].owner,
              IF os[o].signal - 1 < 0 \/ os[o].depth = 0 THEN 0 ELSE os[o].depth - 1)

EffectIs(os, ns, c, t) ==
    /\ ns \in [Objects -> Header]
    /\ \A o \in Mutants : MutantStep(os, ns, c, t, o)
    /\ \A o \in Sections : SectionStep(os, ns, c, t, o)
    /\ \A o \in Locks : LockStep(os, ns, c, t, o)

LEMMA KindsDisjoint ==
    /\ \A o \in Mutants : o \notin Sections /\ o \notin Locks /\ o \notin Events /\ o \notin Semaphores
    /\ \A o \in Sections : o \notin Locks /\ o \notin Dispatchers
    /\ \A o \in Locks : o \notin Dispatchers
    /\ \A o \in Semaphores : o \notin Events /\ o \notin Sections /\ o \notin Locks
    /\ Mutants \subseteq Objects /\ Sections \subseteq Objects /\ Locks \subseteq Objects
    /\ Events \subseteq Objects /\ Semaphores \subseteq Objects
    /\ Mutants \subseteq Dispatchers /\ Events \subseteq Dispatchers
    /\ Semaphores \subseteq Dispatchers
  BY ObjectsAssumption DEF Dispatchers, Objects

LEMMA WaitEffectIs ==
    ASSUME NEW os \in [Objects -> Header], NEW c \in TitleCalls, NEW t \in Threads,
           c.op = "Wait", c.objects \in Seq(Dispatchers), CanComplete(os, c, t)
    PROVE  EffectIs(os, After(os, c, t), c, t)
<1> DEFINE ns == After(os, c, t)
<1>1. ns \in [Objects -> Header] /\ \A o \in Objects : WaitEffect(os, c, t, o)
  BY AfterWait
<1>2. Takes(os, c, t) = Satisfying(os, c, t) \cap Mutants /\ Gives(os, c, t) = {}
  BY DEF Takes, Gives
<1>3. \A o \in Satisfying(os, c, t) : /\ Signaled(os, o, t) /\ o \in Dispatchers
                                      /\ \E i \in DOMAIN c.objects : o = c.objects[i]
  <2>1. \A i \in DOMAIN c.objects : c.objects[i] \in Dispatchers
    OBVIOUS
  <2> QED BY <2>1, SatisfyingSignaled
<1>4. ASSUME NEW o \in Objects, o \notin Satisfying(os, c, t)
      PROVE  Untouched(os, ns, c, t, o)
  BY <1>1, <1>2, <1>4 DEF Untouched, WaitEffect
<1>5. ASSUME NEW o \in Mutants PROVE MutantStep(os, ns, c, t, o)
  <2>1. CASE o \in Satisfying(os, c, t)
    <3>1. ns[o] = Consumed(os, o, t)
      BY <1>1, <2>1, KindsDisjoint DEF WaitEffect
    <3>2. IsTaken(os, c, t, o)
      BY <1>2, <1>3, <2>1 DEF IsTaken
    <3>3. ns[o].signal = os[o].signal - 1 /\ ns[o].owner = t
      BY <3>1, ConsumedEffect, KindsDisjoint
    <3> QED BY <1>3, <2>1, <3>2, <3>3 DEF MutantStep
  <2>2. CASE o \notin Satisfying(os, c, t)
    BY <1>4, <2>2, KindsDisjoint DEF MutantStep
  <2> QED BY <2>1, <2>2
<1>6. ASSUME NEW o \in Sections PROVE SectionStep(os, ns, c, t, o)
  BY <1>3, <1>4, KindsDisjoint DEF SectionStep
<1>7. ASSUME NEW o \in Locks PROVE LockStep(os, ns, c, t, o)
  BY <1>3, <1>4, KindsDisjoint DEF LockStep
<1> QED BY <1>1, <1>5, <1>6, <1>7 DEF EffectIs

\* A call that changes at most o, takes and gives at most o.
OnlyTouches(os, ns, c, t, o) ==
    /\ ns = os \/ \E x, y, z : Put(os, ns, o, x, y, z)
    /\ Takes(os, c, t) \subseteq {o} /\ Gives(os, c, t) \subseteq {o}

LEMMA OthersUntouched ==
    ASSUME NEW os \in [Objects -> Header], NEW ns, NEW c, NEW t, NEW o \in Objects,
           OnlyTouches(os, ns, c, t, o)
    PROVE  /\ ns \in [Objects -> Header]
           /\ \A p \in Objects \ {o} : Untouched(os, ns, c, t, p)
           /\ o \notin Mutants => \A p \in Mutants : MutantStep(os, ns, c, t, p)
           /\ o \notin Sections => \A p \in Sections : SectionStep(os, ns, c, t, p)
           /\ o \notin Locks => \A p \in Locks : LockStep(os, ns, c, t, p)
           /\ MutantStep(os, ns, c, t, o) => \A p \in Mutants : MutantStep(os, ns, c, t, p)
           /\ SectionStep(os, ns, c, t, o) => \A p \in Sections : SectionStep(os, ns, c, t, p)
           /\ LockStep(os, ns, c, t, o) => \A p \in Locks : LockStep(os, ns, c, t, p)
<1>1. ns \in [Objects -> Header] /\ \A p \in Objects \ {o} : ns[p] = os[p]
  BY DEF OnlyTouches, Put
<1>2. \A p \in Objects \ {o} : Untouched(os, ns, c, t, p)
  BY <1>1 DEF OnlyTouches, Untouched
<1>3. \A p \in Objects \ {o} : /\ MutantStep(os, ns, c, t, p) /\ SectionStep(os, ns, c, t, p)
                               /\ LockStep(os, ns, c, t, p)
  BY <1>2, Zenon DEF MutantStep, SectionStep, LockStep
<1> QED BY <1>1, <1>2, <1>3, KindsDisjoint

\* The call is one of these on the object o.
Is(c, ops, o) == c.op \in ops /\ c = Plain(c.op, o)

LEMMA IsFields ==
    ASSUME NEW c, NEW ops, NEW o, Is(c, ops, o)
    PROVE  /\ c.op \in ops /\ c.objects[1] = o /\ DOMAIN c.objects = {1}
           /\ c.objects = <<o>> /\ c.timed = FALSE /\ c.signal = NoObject
<1>1. c = Plain(c.op, o) /\ c.op \in ops
  BY DEF Is
<1>2. \A op : /\ Plain(op, o).objects[1] = o /\ DOMAIN Plain(op, o).objects = {1}
              /\ Plain(op, o).objects = <<o>>
              /\ Plain(op, o).timed = FALSE /\ Plain(op, o).signal = NoObject
  <2> TAKE op
  <2> QED BY DEF Plain, CallOn
<1> QED BY <1>1, <1>2, Zenon

LEMMA SectionEffectIs ==
    ASSUME NEW os \in [Objects -> Header], NEW c \in TitleCalls, NEW t \in Threads,
           NEW o \in Sections, Is(c, {"Enter", "TryEnter", "Leave"}, o), CanComplete(os, c, t)
    PROVE  EffectIs(os, After(os, c, t), c, t)
<1> DEFINE ns == After(os, c, t)
<1>0. c.objects[1] = o /\ o \in Objects /\ DOMAIN c.objects = {1}
  <2>1. c.objects[1] = o /\ DOMAIN c.objects = {1}
    BY IsFields, Zenon
  <2> QED BY <2>1, KindsDisjoint
<1> SUFFICES OnlyTouches(os, ns, c, t, o) /\ SectionStep(os, ns, c, t, o)
  BY <1>0, OthersUntouched, KindsDisjoint DEF EffectIs
<1>1. CASE c.op = "Leave"
  <2>1. ns = Left(os, o) /\ Takes(os, c, t) = {} /\ Gives(os, c, t) = {o}
    BY <1>0, <1>1 DEF After, Takes, Gives
  <2>2. IF os[o].depth = 0 THEN ns = os
        ELSE Put(os, ns, o, os[o].signal - 1,
                 IF os[o].depth = 1 THEN Nobody ELSE os[o].owner, os[o].depth - 1)
    BY <1>0, <2>1, LeftEffect
  <2>3. OnlyTouches(os, ns, c, t, o)
    BY <2>1, <2>2 DEF OnlyTouches
  <2> QED BY <1>0, <1>1, <2>1, <2>2, <2>3, Zenon DEF SectionStep, IsGiven
<1>2. CASE c.op \in {"Enter", "TryEnter"} /\ CanEnter(os, o, t)
  <2>1. ns = Entered(os, o, t) /\ Takes(os, c, t) = {o} /\ Gives(os, c, t) = {}
    BY <1>0, <1>2 DEF After, Takes, Gives
  <2>2. IF os[o].owner = t THEN Put(os, ns, o, os[o].signal + 1, t, os[o].depth + 1)
        ELSE Put(os, ns, o, 0, t, 1)
    BY <1>0, <2>1, EnteredEffect
  <2>3. OnlyTouches(os, ns, c, t, o)
    BY <2>1, <2>2 DEF OnlyTouches
  <2>4. IsTaken(os, c, t, o)
    BY <1>0, <1>2, <2>1 DEF IsTaken
  <2> QED BY <1>2, <2>2, <2>3, <2>4, Zenon DEF SectionStep
<1>3. CASE c.op = "TryEnter" /\ ~CanEnter(os, o, t)
  <2>1. ns = os /\ Takes(os, c, t) = {} /\ Gives(os, c, t) = {}
    BY <1>0, <1>3 DEF After, Takes, Gives
  <2> QED BY <2>1 DEF OnlyTouches, SectionStep, Untouched
<1>4. c.op = "Enter" => CanEnter(os, o, t)
  BY <1>0 DEF CanComplete
<1> QED BY <1>1, <1>2, <1>3, <1>4 DEF Is

LEMMA LockEffectIs ==
    ASSUME NEW os \in [Objects -> Header], NEW c \in TitleCalls, NEW t \in Threads,
           NEW o \in Locks, CanComplete(os, c, t),
           Is(c, {"AcquireExclusive", "TryAcquireExclusive",
                  "AcquireShared", "TryAcquireShared", "ReleaseLock"}, o)
    PROVE  EffectIs(os, After(os, c, t), c, t)
<1> DEFINE ns == After(os, c, t)
<1>0. c.objects[1] = o /\ o \in Objects /\ DOMAIN c.objects = {1}
  <2>1. c.objects[1] = o /\ DOMAIN c.objects = {1}
    BY IsFields, Zenon
  <2> QED BY <2>1, KindsDisjoint
<1> SUFFICES OnlyTouches(os, ns, c, t, o) /\ LockStep(os, ns, c, t, o)
  BY <1>0, OthersUntouched, KindsDisjoint DEF EffectIs
<1>1. CASE c.op = "ReleaseLock"
  <2>1. ns = LockReleased(os, o) /\ Takes(os, c, t) = {} /\ Gives(os, c, t) = {o}
    BY <1>0, <1>1 DEF After, Takes, Gives
  <2>2. Put(os, ns, o, os[o].signal - 1, os[o].owner,
            IF os[o].signal - 1 < 0 \/ os[o].depth = 0 THEN 0 ELSE os[o].depth - 1)
    BY <1>0, <2>1, LockEffects
  <2>3. OnlyTouches(os, ns, c, t, o)
    BY <2>1, <2>2 DEF OnlyTouches
  <2> QED BY <1>0, <1>1, <2>1, <2>2, <2>3, Zenon DEF LockStep, IsGiven
<1>2. CASE c.op \in {"AcquireExclusive", "TryAcquireExclusive"} /\ CanAcquireExclusive(os, o)
  <2>1. ns = AcquiredExclusive(os, o) /\ Takes(os, c, t) = {o} /\ Gives(os, c, t) = {}
    BY <1>0, <1>2 DEF After, Takes, Gives
  <2>2. Put(os, ns, o, 0, os[o].owner, os[o].depth)
    BY <1>0, <2>1, LockEffects
  <2>3. OnlyTouches(os, ns, c, t, o)
    BY <2>1, <2>2 DEF OnlyTouches
  <2>4. IsTaken(os, c, t, o)
    BY <1>0, <1>2, <2>1 DEF IsTaken
  <2> QED BY <1>2, <2>2, <2>3, <2>4, Zenon DEF LockStep
<1>3. CASE c.op \in {"AcquireShared", "TryAcquireShared"} /\ CanAcquireShared(os, o)
  <2>1. ns = AcquiredShared(os, o) /\ Takes(os, c, t) = {o} /\ Gives(os, c, t) = {}
    BY <1>0, <1>3 DEF After, Takes, Gives
  <2>2. Put(os, ns, o, os[o].signal + 1, os[o].owner, os[o].depth + 1)
    BY <1>0, <2>1, LockEffects
  <2>3. OnlyTouches(os, ns, c, t, o)
    BY <2>1, <2>2 DEF OnlyTouches
  <2>4. IsTaken(os, c, t, o)
    BY <1>0, <1>3, <2>1 DEF IsTaken
  <2> QED BY <1>3, <2>2, <2>3, <2>4, Zenon DEF LockStep
<1>4. CASE \/ c.op = "TryAcquireExclusive" /\ ~CanAcquireExclusive(os, o)
           \/ c.op = "TryAcquireShared" /\ ~CanAcquireShared(os, o)
  <2>1. ns = os /\ Takes(os, c, t) = {} /\ Gives(os, c, t) = {}
    BY <1>0, <1>4 DEF After, Takes, Gives
  <2> QED BY <2>1 DEF OnlyTouches, LockStep, Untouched
<1>5. /\ c.op = "AcquireExclusive" => CanAcquireExclusive(os, o)
      /\ c.op = "AcquireShared" => CanAcquireShared(os, o)
  BY <1>0 DEF CanComplete
<1> QED BY <1>1, <1>2, <1>3, <1>4, <1>5 DEF Is

LEMMA EventEffectIs ==
    ASSUME NEW os \in [Objects -> Header], NEW c \in TitleCalls, NEW t \in Threads,
           NEW o \in Events, Is(c, {"SetEvent", "ResetEvent", "PulseEvent"}, o)
    PROVE  EffectIs(os, After(os, c, t), c, t)
<1> DEFINE ns == After(os, c, t)
<1>0. c.objects[1] = o /\ o \in Objects
  <2>1. c.objects[1] = o
    BY IsFields, Zenon
  <2> QED BY <2>1, KindsDisjoint
<1>1. Takes(os, c, t) = {} /\ Gives(os, c, t) = {}
  BY DEF Is, Takes, Gives
<1>2. ns = [os EXCEPT ![o].signal = 0] \/ ns = [os EXCEPT ![o].signal = 1]
  BY <1>0 DEF Is, After
<1>3. \E x, y, z : Put(os, ns, o, x, y, z)
  <2>1. 0 \in Int /\ 1 \in Int
    OBVIOUS
  <2> HIDE DEF ns
  <2> QED BY <1>0, <1>2, <2>1, PutSignal, Zenon
<1>4. OnlyTouches(os, ns, c, t, o)
  BY <1>1, <1>3 DEF OnlyTouches
<1> QED BY <1>0, <1>4, OthersUntouched, KindsDisjoint DEF EffectIs

LEMMA SemaphoreEffectIs ==
    ASSUME NEW os \in [Objects -> Header], NEW c \in TitleCalls, NEW t \in Threads,
           NEW o \in Semaphores, Is(c, {"ReleaseSemaphore"}, o)
    PROVE  EffectIs(os, After(os, c, t), c, t)
<1> DEFINE ns == After(os, c, t)
<1>0. c.objects[1] = o /\ o \in Objects
  <2>1. c.objects[1] = o
    BY IsFields, Zenon
  <2> QED BY <2>1, KindsDisjoint
<1>1. Takes(os, c, t) = {} /\ Gives(os, c, t) = {}
  BY DEF Is, Takes, Gives
<1>2. ns = SemaphoreReleased(os, o)
  BY <1>0 DEF Is, After
<1>3. OnlyTouches(os, ns, c, t, o)
  BY <1>0, <1>1, <1>2, ReleaseEffects DEF OnlyTouches
<1> QED BY <1>0, <1>3, OthersUntouched, KindsDisjoint DEF EffectIs

LEMMA MutantEffectIs ==
    ASSUME NEW os \in [Objects -> Header], NEW c \in TitleCalls, NEW t \in Threads,
           NEW o \in Mutants, Is(c, {"ReleaseMutant"}, o)
    PROVE  EffectIs(os, After(os, c, t), c, t)
<1> DEFINE ns == After(os, c, t)
<1>0. c.objects[1] = o /\ o \in Objects
  <2>1. c.objects[1] = o
    BY IsFields, Zenon
  <2> QED BY <2>1, KindsDisjoint
<1>1. Takes(os, c, t) = {}
  BY DEF Is, Takes
<1>2. ns = MutantReleased(os, o, t)
  BY <1>0 DEF Is, After
<1>3. Gives(os, c, t) = {p \in {o} : MutantReleased(os, p, t) # os}
  BY <1>0 DEF Is, Gives
<1> HIDE DEF ns
<1>4. CASE os[o].owner # t \/ os[o].signal > 0
  <2>1. ns = os /\ Gives(os, c, t) = {}
    BY <1>0, <1>2, <1>3, <1>4, ReleaseEffects
  <2>2. OnlyTouches(os, ns, c, t, o) /\ MutantStep(os, ns, c, t, o)
    BY <1>1, <2>1 DEF OnlyTouches, MutantStep, Untouched
  <2> QED BY <1>0, <2>2, OthersUntouched, KindsDisjoint DEF EffectIs, ns
<1>5. CASE ~(os[o].owner # t \/ os[o].signal > 0)
  <2>1. Put(os, ns, o, os[o].signal + 1,
            IF os[o].signal + 1 > 0 THEN Nobody ELSE os[o].owner, os[o].depth)
    BY <1>0, <1>2, <1>5, ReleaseEffects
  <2>2. ns # os
    <3>1. ns[o].signal = os[o].signal + 1 /\ os[o].signal \in Int
      BY <1>0, <2>1, HeaderFields DEF Put
    <3> QED BY <3>1
  <2>3. Gives(os, c, t) = {o}
    BY <1>2, <1>3, <2>2
  <2>4. OnlyTouches(os, ns, c, t, o)
    BY <1>1, <2>1, <2>3 DEF OnlyTouches
  <2>5. os[o].owner = t /\ os[o].signal <= 0
    BY <1>0, <1>5, HeaderFields
  <2>6. MutantStep(os, ns, c, t, o)
    BY <1>1, <2>1, <2>3, <2>5, Zenon DEF MutantStep, IsGiven, Put
  <2> QED BY <1>0, <2>4, <2>6, OthersUntouched, KindsDisjoint DEF EffectIs, ns
<1> QED BY <1>4, <1>5

(* All calls together.                                                      *)
LEMMA CallEffect ==
    ASSUME NEW os \in [Objects -> Header], NEW c \in TitleCalls, NEW t \in Threads,
           CanComplete(os, c, t)
    PROVE  EffectIs(os, After(os, c, t), c, t)
<1>1. CASE c.op = "Wait" /\ c.objects \in Seq(Dispatchers)
  BY <1>1, WaitEffectIs
<1>2. CASE \E o \in Sections : Is(c, {"Enter", "TryEnter", "Leave"}, o)
  BY <1>2, SectionEffectIs
<1>3. CASE \E o \in Locks : Is(c, {"AcquireExclusive", "TryAcquireExclusive",
                                   "AcquireShared", "TryAcquireShared", "ReleaseLock"}, o)
  BY <1>3, LockEffectIs
<1>4. CASE \E o \in Events : Is(c, {"SetEvent", "ResetEvent", "PulseEvent"}, o)
  BY <1>4, EventEffectIs
<1>5. CASE \E o \in Semaphores : Is(c, {"ReleaseSemaphore"}, o)
  BY <1>5, SemaphoreEffectIs
<1>6. CASE \E o \in Mutants : Is(c, {"ReleaseMutant"}, o)
  BY <1>6, MutantEffectIs
<1> QED BY <1>1, <1>2, <1>3, <1>4, <1>5, <1>6, CallKinds DEF Is

-----------------------------------------------------------------------------
(* Holding objects *)

LEMMA HeldCounted ==
    ASSUME NEW hs, NEW o
    PROVE  /\ IsFiniteSet(Held1(hs, o)) /\ Cardinality(Held1(hs, o)) \in Nat
           /\ Cardinality(Held1(hs, o)) <= MaxDepth * Cardinality(Threads)
<1>1. IsFiniteSet(1 .. MaxDepth) /\ Cardinality(1 .. MaxDepth) = MaxDepth
  BY FS_Interval, WaitsAssumption
<1>2. IsFiniteSet(Threads) /\ Cardinality(Threads) \in Nat
  BY WaitsAssumption, FS_CardinalityType
<1>3. /\ IsFiniteSet(Threads \X (1 .. MaxDepth))
      /\ Cardinality(Threads \X (1 .. MaxDepth)) = Cardinality(Threads) * MaxDepth
  BY <1>1, <1>2, FS_Product
<1>4. Held1(hs, o) \in SUBSET (Threads \X (1 .. MaxDepth))
  BY DEF Held1
<1>5. /\ IsFiniteSet(Held1(hs, o))
      /\ Cardinality(Held1(hs, o)) <= Cardinality(Threads \X (1 .. MaxDepth))
  BY <1>3, <1>4, FS_Subset, Zenon
<1>6. Cardinality(Held1(hs, o)) \in Nat
  BY <1>5, FS_CardinalityType
<1>7. Cardinality(Threads) * MaxDepth = MaxDepth * Cardinality(Threads)
  BY <1>2, WaitsAssumption
<1> QED BY <1>3, <1>5, <1>6, <1>7

LEMMA HeldOnce ==
    ASSUME NEW hs \in Holdings, NEW gs \in Holdings, NEW o \in Objects, NEW t \in Threads,
           \A u \in Threads \ {t} : gs[u][o] = hs[u][o], gs[t][o] = hs[t][o] + 1
    PROVE  Cardinality(Held1(gs, o)) = Cardinality(Held1(hs, o)) + 1
<1> DEFINE h == <<t, gs[t][o]>>
<1>0. \A u \in Threads : hs[u][o] \in 0 .. MaxDepth /\ gs[u][o] \in 0 .. MaxDepth
  BY DEF Holdings
<1>m. MaxDepth \in Nat
  BY WaitsAssumption
<1>1. h \notin Held1(hs, o)
  BY <1>0, <1>m DEF Held1
<1>2. Held1(gs, o) = Held1(hs, o) \cup {h}
  <2>1. ASSUME NEW u \in Threads, NEW k \in 1 .. MaxDepth
        PROVE  k <= gs[u][o] <=> (k <= hs[u][o] \/ (u = t /\ k = gs[t][o]))
    BY <1>0, <1>m
  <2>2. h \in Threads \X (1 .. MaxDepth)
    BY <1>0, <1>m
  <2>3. \A x \in Threads \X (1 .. MaxDepth) :
           x[1] \in Threads /\ x[2] \in 1 .. MaxDepth /\ x = <<x[1], x[2]>>
    OBVIOUS
  <2>4. \A x \in Threads \X (1 .. MaxDepth) : x \in Held1(gs, o) <=> x \in Held1(hs, o) \cup {h}
    <3> TAKE x \in Threads \X (1 .. MaxDepth)
    <3>1. x[2] <= gs[x[1]][o] <=> (x[2] <= hs[x[1]][o] \/ (x[1] = t /\ x[2] = gs[t][o]))
      BY <2>1, <2>3
    <3>2. x = h <=> (x[1] = t /\ x[2] = gs[t][o])
      BY <2>3
    <3> HIDE DEF h
    <3> QED BY <3>1, <3>2 DEF Held1
  <2>5. Held1(gs, o) \subseteq Threads \X (1 .. MaxDepth)
        /\ Held1(hs, o) \cup {h} \subseteq Threads \X (1 .. MaxDepth)
    BY <2>2 DEF Held1
  <2> HIDE DEF h
  <2> QED BY <2>4, <2>5
<1> HIDE DEF h
<1>3. IsFiniteSet(Held1(hs, o))
  BY HeldCounted
<1> QED BY <1>1, <1>2, <1>3, FS_AddElement

LEMMA HeldSame ==
    ASSUME NEW hs, NEW gs, NEW o, \A u \in Threads : gs[u][o] = hs[u][o]
    PROVE  Held1(gs, o) = Held1(hs, o)
  BY DEF Held1

LEMMA HeldSome ==
    ASSUME NEW hs \in Holdings, NEW o \in Objects, NEW t \in Threads, hs[t][o] > 0
    PROVE  Cardinality(Held1(hs, o)) > 0
<1>1. hs[t][o] \in 1 .. MaxDepth /\ MaxDepth \in Nat
  BY WaitsAssumption DEF Holdings
<1>2. <<t, 1>> \in Held1(hs, o)
  BY <1>1 DEF Held1
<1>3. IsFiniteSet(Held1(hs, o)) /\ Cardinality(Held1(hs, o)) \in Nat
  BY HeldCounted
<1>4. Cardinality(Held1(hs, o)) # 0
  BY <1>2, <1>3, FS_EmptySet
<1> QED BY <1>3, <1>4

(* A call takes and gives only what is held.                                *)
LEMMA TakesHeld ==
    ASSUME NEW os, NEW c \in TitleCalls, NEW t
    PROVE  Takes(os, c, t) \cup Gives(os, c, t) \subseteq Mutants \cup Sections \cup Locks
<1>1. CASE c.op = "Wait"
  BY <1>1 DEF Takes, Gives
<1>2. CASE c.op # "Wait"
  <2>1. \/ c.op \in {"SetEvent", "ResetEvent", "PulseEvent", "ReleaseSemaphore"}
        \/ c.objects[1] \in Mutants \cup Sections \cup Locks
    <3>1. \A o, ops : Is(c, ops, o) => c.objects[1] = o
      BY IsFields, Zenon
    <3>2. \A o : c = Plain(c.op, o) => c.objects[1] = o
      BY <3>1 DEF Is
    <3> QED BY <1>2, <3>2, CallKinds
  <2>2. Takes(os, c, t) \cup Gives(os, c, t) \subseteq {c.objects[1]}
    BY <1>2 DEF Takes, Gives
  <2>3. c.op \in {"SetEvent", "ResetEvent", "PulseEvent", "ReleaseSemaphore"}
        => Takes(os, c, t) \cup Gives(os, c, t) = {}
    BY DEF Takes, Gives
  <2> QED BY <2>1, <2>2, <2>3
<1> QED BY <1>1, <1>2

-----------------------------------------------------------------------------
(* A call keeps the holders right *)

\* What t holds after the call, the others' holdings unchanged.
HoldsAfter(os, hs, gs, c, t) ==
    /\ gs \in [Threads -> [Objects -> Int]]
    /\ \A u \in Threads \ {t} : gs[u] = hs[u]
    /\ \A o \in Objects : gs[t][o] = hs[t][o] + (IF o \in Takes(os, c, t) THEN 1 ELSE 0)
                                              - (IF o \in Gives(os, c, t) THEN 1 ELSE 0)

HoldingOf(os, hs, gs, c, t, o) ==
    /\ \A u \in Threads : hs[u][o] \in 0 .. MaxDepth
    /\ \A u \in Threads \ {t} : gs[u][o] = hs[u][o]
    /\ o \notin Takes(os, c, t) /\ o \notin Gives(os, c, t) => gs[t][o] = hs[t][o]
    /\ IsTaken(os, c, t, o) => gs[t][o] = hs[t][o] + 1
    /\ IsGiven(os, c, t, o) => gs[t][o] = hs[t][o] - 1

LEMMA HoldsChange ==
    ASSUME NEW os, NEW c, NEW t \in Threads, NEW hs \in Holdings, NEW gs,
           HoldsAfter(os, hs, gs, c, t), NEW o \in Objects
    PROVE  HoldingOf(os, hs, gs, c, t, o)
<1>1. \A u \in Threads : hs[u][o] \in 0 .. MaxDepth
  BY DEF Holdings
<1>2. \A u \in Threads \ {t} : gs[u][o] = hs[u][o]
  BY DEF HoldsAfter
<1>3. hs[t][o] \in Int
  BY <1>1, WaitsAssumption
<1>4. gs[t][o] = hs[t][o] + (IF o \in Takes(os, c, t) THEN 1 ELSE 0)
                          - (IF o \in Gives(os, c, t) THEN 1 ELSE 0)
  BY DEF HoldsAfter
<1> QED BY <1>1, <1>2, <1>3, <1>4 DEF HoldingOf, IsTaken, IsGiven

\* What was allowed of the call leaves what it takes in range.
LEMMA TakenInRange ==
    ASSUME NEW os, NEW c, NEW t \in Threads, NEW hs \in Holdings, NEW o \in Objects,
           AllowedFor(hs, t, c), IsTaken(os, c, t, o)
    PROVE  hs[t][o] < MaxDepth
<1>1. PICK i \in DOMAIN c.objects : o = c.objects[i]
  BY DEF IsTaken
<1>2. c.op \notin {"Leave", "ReleaseLock"}
  BY DEF IsTaken
<1> QED BY <1>1, <1>2, Zenon DEF AllowedFor

LEMMA MutantKept ==
    ASSUME NEW os \in [Objects -> Header], NEW ns \in [Objects -> Header], NEW c,
           NEW t \in Threads, NEW hs \in Holdings, NEW gs, NEW o \in Mutants,
           HoldsAfter(os, hs, gs, c, t), AllowedFor(hs, t, c),
           MutantStep(os, ns, c, t, o), MutantOk(os[o], hs, o)
    PROVE  MutantOk(ns[o], gs, o) /\ gs[t][o] \in 0 .. MaxDepth
<1>0. /\ \A u \in Threads : hs[u][o] \in 0 .. MaxDepth
      /\ \A u \in Threads \ {t} : gs[u][o] = hs[u][o]
      /\ o \notin Takes(os, c, t) /\ o \notin Gives(os, c, t) => gs[t][o] = hs[t][o]
      /\ IsTaken(os, c, t, o) => gs[t][o] = hs[t][o] + 1
      /\ IsGiven(os, c, t, o) => gs[t][o] = hs[t][o] - 1
  <2>1. o \in Objects
    BY KindsDisjoint
  <2>2. HoldingOf(os, hs, gs, c, t, o)
    BY <2>1, HoldsChange
  <2> QED BY <2>2 DEF HoldingOf
<1>t. os[o].signal \in Int /\ MaxDepth \in Nat /\ Nobody \notin Threads
  BY HeaderFields, KindsDisjoint, WaitsAssumption, ObjectsAssumption
<1>1. CASE Untouched(os, ns, c, t, o)
  <2>1. ns[o] = os[o] /\ \A u \in Threads : gs[u][o] = hs[u][o]
    BY <1>0, <1>1 DEF Untouched
  <2> QED BY <1>0, <2>1 DEF MutantOk, OnlyHolder
<1>2. CASE /\ IsTaken(os, c, t, o) /\ Signaled(os, o, t)
           /\ ns[o].signal = os[o].signal - 1 /\ ns[o].owner = t
  <2>1. gs[t][o] = hs[t][o] + 1 /\ hs[t][o] < MaxDepth
    BY <1>0, <1>2, TakenInRange, KindsDisjoint
  <2>2. os[o].signal > 0 \/ os[o].owner = t
    BY <1>2 DEF Signaled
  <2>3. /\ \A u \in Threads \ {t} : hs[u][o] = 0
        /\ hs[t][o] = 1 - os[o].signal
    BY <1>t, <2>2 DEF MutantOk, OnlyHolder
  <2>4. \A u \in Threads \ {t} : gs[u][o] = 0
    BY <1>0, <2>3
  <2>5. gs[t][o] = 1 - ns[o].signal /\ gs[t][o] \in 1 .. MaxDepth /\ ns[o].signal <= 0
    BY <1>0, <1>t, <1>2, <2>1, <2>3
  <2> QED BY <1>2, <2>4, <2>5 DEF MutantOk, OnlyHolder
<1>3. CASE /\ IsGiven(os, c, t, o) /\ os[o].owner = t /\ os[o].signal <= 0
           /\ ns[o].signal = os[o].signal + 1
           /\ ns[o].owner = IF os[o].signal + 1 > 0 THEN Nobody ELSE os[o].owner
  <2>1. \A u \in Threads \ {t} : hs[u][o] = 0
    BY <1>t, <1>3 DEF MutantOk, OnlyHolder
  <2>2. hs[t][o] = 1 - os[o].signal /\ gs[t][o] = hs[t][o] - 1
    BY <1>0, <1>t, <1>3 DEF MutantOk
  <2>3. \A u \in Threads \ {t} : gs[u][o] = 0
    BY <1>0, <2>1
  <2>4. gs[t][o] = 1 - ns[o].signal /\ gs[t][o] \in 0 .. MaxDepth
    BY <1>0, <1>t, <1>3, <2>2
  <2>5. CASE os[o].signal + 1 > 0
    <3>1. ns[o].signal = 1 /\ gs[t][o] = 0 /\ ns[o].owner = Nobody
      BY <1>t, <1>3, <2>4, <2>5
    <3> QED BY <2>3, <2>4, <3>1 DEF MutantOk, OnlyHolder
  <2>6. CASE ~(os[o].signal + 1 > 0)
    <3>1. ns[o].signal <= 0 /\ ns[o].owner = t
      BY <1>t, <1>3, <2>6
    <3> QED BY <2>3, <2>4, <3>1 DEF MutantOk, OnlyHolder
  <2> QED BY <2>5, <2>6
<1> QED BY <1>1, <1>2, <1>3 DEF MutantStep

LEMMA SectionKept ==
    ASSUME NEW os \in [Objects -> Header], NEW ns \in [Objects -> Header], NEW c,
           NEW t \in Threads, NEW hs \in Holdings, NEW gs, NEW o \in Sections,
           HoldsAfter(os, hs, gs, c, t), AllowedFor(hs, t, c),
           SectionStep(os, ns, c, t, o), SectionOk(os[o], hs, o)
    PROVE  SectionOk(ns[o], gs, o) /\ gs[t][o] \in 0 .. MaxDepth
<1>0. /\ \A u \in Threads : hs[u][o] \in 0 .. MaxDepth
      /\ \A u \in Threads \ {t} : gs[u][o] = hs[u][o]
      /\ o \notin Takes(os, c, t) /\ o \notin Gives(os, c, t) => gs[t][o] = hs[t][o]
      /\ IsTaken(os, c, t, o) => gs[t][o] = hs[t][o] + 1
      /\ IsGiven(os, c, t, o) => gs[t][o] = hs[t][o] - 1
  <2>1. o \in Objects
    BY KindsDisjoint
  <2>2. HoldingOf(os, hs, gs, c, t, o)
    BY <2>1, HoldsChange
  <2> QED BY <2>2 DEF HoldingOf
<1>t. /\ os[o].signal \in Int /\ os[o].depth \in Int
      /\ MaxDepth \in Nat /\ Nobody \notin Threads
  BY HeaderFields, KindsDisjoint, WaitsAssumption, ObjectsAssumption
<1>1. CASE Untouched(os, ns, c, t, o)
  <2>1. ns[o] = os[o] /\ \A u \in Threads : gs[u][o] = hs[u][o]
    BY <1>0, <1>1 DEF Untouched
  <2> QED BY <1>0, <2>1 DEF SectionOk, OnlyHolder
<1>2. CASE /\ IsTaken(os, c, t, o) /\ CanEnter(os, o, t)
           /\ IF os[o].owner = t THEN Put(os, ns, o, os[o].signal + 1, t, os[o].depth + 1)
              ELSE Put(os, ns, o, 0, t, 1)
  <2>1. gs[t][o] = hs[t][o] + 1 /\ hs[t][o] < MaxDepth
    BY <1>0, <1>2, TakenInRange, KindsDisjoint
  <2>2. os[o].owner = t \/ os[o].signal = -1
    BY <1>2 DEF CanEnter
  <2>3. /\ \A u \in Threads \ {t} : hs[u][o] = 0
        /\ os[o].owner = t => /\ hs[t][o] = os[o].depth /\ os[o].signal = os[o].depth - 1
                              /\ os[o].depth > 0
        /\ os[o].owner # t => hs[t][o] = 0
    BY <1>t, <2>2 DEF SectionOk, OnlyHolder
  <2>4. \A u \in Threads \ {t} : gs[u][o] = 0
    BY <1>0, <2>3
  <2>5. CASE os[o].owner = t
    <3>1. ns[o].signal = os[o].signal + 1 /\ ns[o].depth = os[o].depth + 1 /\ ns[o].owner = t
      BY <1>2, <2>5 DEF Put
    <3>2. /\ gs[t][o] = ns[o].depth /\ ns[o].depth > 0 /\ ns[o].signal = ns[o].depth - 1
          /\ gs[t][o] \in 0 .. MaxDepth
      BY <1>0, <1>t, <2>1, <2>3, <2>5, <3>1
    <3> QED BY <2>4, <3>1, <3>2 DEF SectionOk, OnlyHolder
  <2>6. CASE os[o].owner # t
    <3>1. ns[o].signal = 0 /\ ns[o].depth = 1 /\ ns[o].owner = t
      BY <1>2, <2>6 DEF Put
    <3>2. gs[t][o] = 1 /\ gs[t][o] \in 0 .. MaxDepth
      BY <1>0, <1>t, <2>1, <2>3, <2>6
    <3> QED BY <2>4, <3>1, <3>2 DEF SectionOk, OnlyHolder
  <2> QED BY <2>5, <2>6
<1>3. CASE /\ IsGiven(os, c, t, o) /\ c.op = "Leave" /\ o = c.objects[1]
           /\ IF os[o].depth = 0 THEN ns = os
              ELSE Put(os, ns, o, os[o].signal - 1,
                       IF os[o].depth = 1 THEN Nobody ELSE os[o].owner, os[o].depth - 1)
  <2>1. hs[t][o] > 0
    BY <1>3 DEF AllowedFor
  <2>2. os[o].owner = t
    <3>1. CASE os[o].owner = Nobody
      BY <1>t, <2>1, <3>1 DEF SectionOk, OnlyHolder
    <3>2. CASE os[o].owner # Nobody /\ os[o].owner # t
      BY <1>t, <2>1, <3>2 DEF SectionOk, OnlyHolder
    <3> QED BY <3>1, <3>2
  <2>3. /\ \A u \in Threads \ {t} : hs[u][o] = 0
        /\ hs[t][o] = os[o].depth /\ os[o].signal = os[o].depth - 1 /\ os[o].depth > 0
    BY <1>t, <2>2 DEF SectionOk, OnlyHolder
  <2>4. \A u \in Threads \ {t} : gs[u][o] = 0
    BY <1>0, <2>3
  <2>5. /\ ns[o].signal = os[o].signal - 1 /\ ns[o].depth = os[o].depth - 1
        /\ ns[o].owner = IF os[o].depth = 1 THEN Nobody ELSE os[o].owner
    <3>1. os[o].depth # 0
      BY <1>t, <2>3
    <3> QED BY <1>3, <3>1 DEF Put
  <2>6. gs[t][o] = ns[o].depth /\ ns[o].signal = ns[o].depth - 1 /\ gs[t][o] \in 0 .. MaxDepth
    BY <1>0, <1>t, <1>3, <2>3, <2>5
  <2>7. CASE os[o].depth = 1
    <3>1. ns[o].owner = Nobody /\ ns[o].depth = 0 /\ ns[o].signal = -1 /\ gs[t][o] = 0
      BY <1>t, <2>3, <2>5, <2>6, <2>7
    <3> QED BY <2>4, <2>6, <3>1 DEF SectionOk, OnlyHolder
  <2>8. CASE os[o].depth # 1
    <3>1. ns[o].owner = t /\ ns[o].depth > 0
      BY <1>t, <2>2, <2>3, <2>5, <2>8
    <3> QED BY <2>4, <2>6, <3>1 DEF SectionOk, OnlyHolder
  <2> QED BY <2>7, <2>8
<1> QED BY <1>1, <1>2, <1>3 DEF SectionStep

LEMMA LockKept ==
    ASSUME NEW os \in [Objects -> Header], NEW ns \in [Objects -> Header], NEW c,
           NEW t \in Threads, NEW hs \in Holdings, NEW gs \in Holdings, NEW o \in Locks,
           HoldsAfter(os, hs, gs, c, t), AllowedFor(hs, t, c),
           LockStep(os, ns, c, t, o), LockOk(os[o], hs, o)
    PROVE  LockOk(ns[o], gs, o)
<1> DEFINE total == Cardinality(Held1(hs, o))
           count == Cardinality(Held1(gs, o))
<1>o. o \in Objects
  BY KindsDisjoint
<1>0. /\ \A u \in Threads : hs[u][o] \in 0 .. MaxDepth
      /\ \A u \in Threads \ {t} : gs[u][o] = hs[u][o]
      /\ o \notin Takes(os, c, t) /\ o \notin Gives(os, c, t) => gs[t][o] = hs[t][o]
      /\ IsTaken(os, c, t, o) => gs[t][o] = hs[t][o] + 1
      /\ IsGiven(os, c, t, o) => gs[t][o] = hs[t][o] - 1
  <2>1. HoldingOf(os, hs, gs, c, t, o)
    BY <1>o, HoldsChange
  <2> QED BY <2>1 DEF HoldingOf
<1>t. /\ os[o].signal \in Int /\ os[o].depth \in Int /\ MaxDepth \in Nat
      /\ total \in Nat /\ count \in Nat
  BY <1>o, HeaderFields, WaitsAssumption, HeldCounted
<1>l. /\ total = os[o].signal + 1 /\ os[o].depth \in {0, total}
      /\ os[o].depth = 0 => total <= 1
  BY Zenon DEF LockOk
<1>taken. IsTaken(os, c, t, o) => count = total + 1
  BY <1>o, <1>0, HeldOnce
<1>given. IsGiven(os, c, t, o) => total = count + 1
  <2>1. ASSUME IsGiven(os, c, t, o) PROVE hs[t][o] = gs[t][o] + 1
    <3>1. gs[t][o] = hs[t][o] - 1 /\ hs[t][o] \in Int
      BY <1>0, <1>t, <2>1
    <3> QED BY <3>1
  <2>2. \A u \in Threads \ {t} : hs[u][o] = gs[u][o]
    BY <1>0
  <2> QED BY <1>o, <2>1, <2>2, HeldOnce
<1> SUFFICES /\ count = ns[o].signal + 1 /\ ns[o].depth \in {0, count}
             /\ ns[o].depth = 0 => count <= 1
  BY Zenon DEF LockOk
<1>1. CASE Untouched(os, ns, c, t, o)
  <2>1. ns[o] = os[o] /\ \A u \in Threads : gs[u][o] = hs[u][o]
    BY <1>0, <1>1 DEF Untouched
  <2>2. count = total
    BY <2>1, HeldSame
  <2> QED BY <1>l, <2>1, <2>2
<1>2. CASE /\ IsTaken(os, c, t, o) /\ CanAcquireExclusive(os, o)
           /\ Put(os, ns, o, 0, os[o].owner, os[o].depth)
  <2>1. os[o].signal < 0 /\ ns[o].signal = 0 /\ ns[o].depth = os[o].depth
    BY <1>2 DEF CanAcquireExclusive, Put
  <2>2. count = total + 1
    BY <1>2, <1>taken
  <2> HIDE DEF total, count
  <2> QED BY <1>t, <1>l, <2>1, <2>2
<1>3. CASE /\ IsTaken(os, c, t, o) /\ CanAcquireShared(os, o)
           /\ Put(os, ns, o, os[o].signal + 1, os[o].owner, os[o].depth + 1)
  <2>1. /\ os[o].signal < 0 \/ os[o].depth # 0
        /\ ns[o].signal = os[o].signal + 1 /\ ns[o].depth = os[o].depth + 1
    BY <1>3 DEF CanAcquireShared, Put
  <2>2. count = total + 1
    BY <1>3, <1>taken
  <2> HIDE DEF total, count
  <2> QED BY <1>t, <1>l, <2>1, <2>2
<1>4. CASE /\ IsGiven(os, c, t, o) /\ c.op = "ReleaseLock" /\ o = c.objects[1]
           /\ Put(os, ns, o, os[o].signal - 1, os[o].owner,
                  IF os[o].signal - 1 < 0 \/ os[o].depth = 0 THEN 0 ELSE os[o].depth - 1)
  <2>1. /\ ns[o].signal = os[o].signal - 1
        /\ ns[o].depth = IF os[o].signal - 1 < 0 \/ os[o].depth = 0 THEN 0 ELSE os[o].depth - 1
    BY <1>4 DEF Put
  <2>2. total = count + 1
    BY <1>4, <1>given
  <2> HIDE DEF total, count
  <2> QED BY <1>t, <1>l, <2>1, <2>2
<1> QED BY <1>1, <1>2, <1>3, <1>4 DEF LockStep

(* A lock that is given back was held.                                      *)
LEMMA LockInRange ==
    ASSUME NEW os, NEW ns, NEW c, NEW t \in Threads, NEW hs \in Holdings, NEW gs, NEW o \in Locks,
           HoldsAfter(os, hs, gs, c, t), AllowedFor(hs, t, c), LockStep(os, ns, c, t, o)
    PROVE  gs[t][o] \in 0 .. MaxDepth
<1>o. o \in Objects
  BY KindsDisjoint
<1>0. /\ \A u \in Threads : hs[u][o] \in 0 .. MaxDepth
      /\ o \notin Takes(os, c, t) /\ o \notin Gives(os, c, t) => gs[t][o] = hs[t][o]
      /\ IsTaken(os, c, t, o) => gs[t][o] = hs[t][o] + 1
      /\ IsGiven(os, c, t, o) => gs[t][o] = hs[t][o] - 1
  <2>1. HoldingOf(os, hs, gs, c, t, o)
    BY <1>o, HoldsChange
  <2> QED BY <2>1 DEF HoldingOf
<1>m. MaxDepth \in Nat
  BY WaitsAssumption
<1>1. CASE Untouched(os, ns, c, t, o)
  BY <1>0, <1>1 DEF Untouched
<1>2. CASE IsTaken(os, c, t, o)
  <2>1. hs[t][o] < MaxDepth
    BY <1>o, <1>2, TakenInRange
  <2> QED BY <1>0, <1>m, <1>2, <2>1
<1>3. CASE IsGiven(os, c, t, o) /\ c.op = "ReleaseLock" /\ o = c.objects[1]
  <2>1. hs[t][o] > 0
    BY <1>3 DEF AllowedFor
  <2> QED BY <1>0, <1>m, <1>3, <2>1
<1> QED BY <1>1, <1>2, <1>3 DEF LockStep

(* All kinds together.                                                      *)
LEMMA HoldersKept ==
    ASSUME NEW os \in [Objects -> Header], NEW c \in TitleCalls, NEW t \in Threads,
           NEW hs \in Holdings, NEW gs, CanComplete(os, c, t),
           HoldsAfter(os, hs, gs, c, t), AllowedFor(hs, t, c), HeldOk(os, hs)
    PROVE  gs \in Holdings /\ HeldOk(After(os, c, t), gs)
<1> DEFINE ns == After(os, c, t)
<1>1. EffectIs(os, ns, c, t)
  BY CallEffect
<1> HIDE DEF ns
<1>2. ns \in [Objects -> Header]
  BY <1>1 DEF EffectIs
<1>3. ASSUME NEW o \in Mutants
      PROVE  MutantOk(ns[o], gs, o) /\ gs[t][o] \in 0 .. MaxDepth
  <2>1. MutantStep(os, ns, c, t, o) /\ MutantOk(os[o], hs, o)
    BY <1>1 DEF EffectIs, HeldOk
  <2> QED BY <1>2, <2>1, MutantKept
<1>4. ASSUME NEW o \in Sections
      PROVE  SectionOk(ns[o], gs, o) /\ gs[t][o] \in 0 .. MaxDepth
  <2>1. SectionStep(os, ns, c, t, o) /\ SectionOk(os[o], hs, o)
    BY <1>1 DEF EffectIs, HeldOk
  <2> QED BY <1>2, <2>1, SectionKept
<1>5. ASSUME NEW o \in Locks PROVE gs[t][o] \in 0 .. MaxDepth
  BY <1>1, LockInRange DEF EffectIs
<1>6. \A o \in Objects : gs[t][o] \in 0 .. MaxDepth
  <2> TAKE o \in Objects
  <2>1. CASE o \in Mutants \cup Sections \cup Locks
    BY <1>3, <1>4, <1>5, <2>1
  <2>2. CASE o \notin Mutants \cup Sections \cup Locks
    <3>1. o \notin Takes(os, c, t) /\ o \notin Gives(os, c, t)
      BY <2>2, TakesHeld
    <3>2. gs[t][o] = hs[t][o]
      BY <3>1, HoldsChange DEF HoldingOf
    <3> QED BY <3>2 DEF Holdings
  <2> QED BY <2>1, <2>2
<1>7. gs \in Holdings
  <2>1. \A u \in Threads : gs[u] \in [Objects -> 0 .. MaxDepth]
    <3>1. gs[t] \in [Objects -> Int]
      BY DEF HoldsAfter
    <3>2. gs[t] \in [Objects -> 0 .. MaxDepth]
      BY <1>6, <3>1
    <3>3. \A u \in Threads \ {t} : gs[u] = hs[u] /\ hs[u] \in [Objects -> 0 .. MaxDepth]
      BY DEF HoldsAfter, Holdings
    <3> QED BY <3>2, <3>3
  <2>2. gs \in [Threads -> [Objects -> Int]]
    BY DEF HoldsAfter
  <2> QED BY <2>1, <2>2 DEF Holdings
<1>8. ASSUME NEW o \in Locks PROVE LockOk(ns[o], gs, o)
  <2>1. LockStep(os, ns, c, t, o) /\ LockOk(os[o], hs, o)
    BY <1>1 DEF EffectIs, HeldOk
  <2> QED BY <1>2, <1>7, <2>1, LockKept
<1> QED BY <1>3, <1>4, <1>7, <1>8 DEF HeldOk, ns

-----------------------------------------------------------------------------
(* What the steps are made of *)

\* Only events and semaphores differ.
Quiet(os, ns) ==
    ns \in [Objects -> Header] /\ \A o \in Mutants \cup Sections \cup Locks : ns[o] = os[o]

LEMMA QuietKeepsHeld ==
    ASSUME NEW os, NEW ns, NEW hs, Quiet(os, ns), HeldOk(os, hs)
    PROVE  HeldOk(ns, hs)
<1>1. \A o \in Mutants \cup Sections \cup Locks : ns[o] = os[o]
  BY DEF Quiet
<1>2. /\ \A o \in Mutants : MutantOk(os[o], hs, o)
      /\ \A o \in Sections : SectionOk(os[o], hs, o)
      /\ \A o \in Locks : LockOk(os[o], hs, o)
  BY DEF HeldOk
<1> QED BY <1>1, <1>2, Zenon DEF HeldOk

LEMMA EventSetQuiet ==
    ASSUME NEW os \in [Objects -> Header], NEW e \in Events, NEW ns,
           ns = [os EXCEPT ![e].signal = 1]
    PROVE  Quiet(os, ns) /\ \E y, z : Put(os, ns, e, 1, y, z)
<1>1. e \in Objects /\ 1 \in Int
  BY KindsDisjoint
<1>2. Put(os, ns, e, 1, os[e].owner, os[e].depth)
  BY <1>1, PutSignal, Zenon
<1>3. \A o \in Mutants \cup Sections \cup Locks : o # e /\ o \in Objects
  BY KindsDisjoint
<1> QED BY <1>2, <1>3 DEF Quiet, Put

LEMMA PresignaledQuiet ==
    ASSUME NEW os \in [Objects -> Header], NEW c \in TitleCalls, SignalsNoMutant
    PROVE  Quiet(os, Presignaled(os, c))
<1> DEFINE e == c.signal
<1>0. e = NoObject \/ e \in Events \/ e \in Semaphores
  <2>1. e \in Dispatchers \cup {NoObject}
    <3>1. \A ops, o : Is(c, ops, o) => c.signal = NoObject
      BY IsFields, Zenon
    <3>2. \A o : c = Plain(c.op, o) => c.signal = NoObject
      BY <3>1 DEF Is
    <3> QED BY <3>2, CallKinds
  <2>2. e \notin Mutants
    BY DEF SignalsNoMutant
  <2> QED BY <2>1, <2>2 DEF Dispatchers
<1>1. CASE e = NoObject
  BY <1>1 DEF Presignaled, Quiet
<1>2. CASE e \in Events
  <2>1. Presignaled(os, c) = [os EXCEPT ![e].signal = 1]
    BY <1>2, ObjectsAssumption, KindsDisjoint DEF Presignaled
  <2> QED BY <1>2, <2>1, EventSetQuiet
<1>3. CASE e \in Semaphores
  <2>1. Presignaled(os, c) = [os EXCEPT ![e].signal = os[e].signal + 1]
    BY <1>3, ObjectsAssumption, KindsDisjoint DEF Presignaled
  <2>2. e \in Objects
    BY <1>3, KindsDisjoint
  <2>3. os[e].signal + 1 \in Int
    BY <2>2, HeaderFields
  <2>4. Put(os, Presignaled(os, c), e, os[e].signal + 1, os[e].owner, os[e].depth)
    BY <2>1, <2>2, <2>3, PutSignal, Zenon
  <2>5. \A o \in Mutants \cup Sections \cup Locks : o # e /\ o \in Objects
    BY <1>3, KindsDisjoint
  <2> QED BY <2>4, <2>5 DEF Quiet, Put
<1> QED BY <1>0, <1>1, <1>2, <1>3

LEMMA NoPresignal ==
    ASSUME NEW os, NEW c \in TitleCalls, NoSignalAndWait
    PROVE  Presignaled(os, c) = os
  BY DEF Presignaled, NoSignalAndWait

\* A wait with a timeout.
LEMMA TimedWaits ==
    ASSUME NEW c \in TitleCalls, c.timed
    PROVE  c.op = "Wait" /\ c.objects \in Seq(Dispatchers) /\ c.objects # <<>>
<1>1. \A ops, o : Is(c, ops, o) => ~c.timed
  BY IsFields, Zenon
<1>2. \A o : c = Plain(c.op, o) => ~c.timed
  BY <1>1 DEF Is
<1> QED BY <1>2, CallKinds

LEMMA TimedQuiet ==
    ASSUME NEW os \in [Objects -> Header], NEW c \in TitleCalls, NEW t \in Threads,
           c.timed, TimedNotOnMutants, CanComplete(os, c, t)
    PROVE  Quiet(os, After(os, c, t)) /\ Takes(os, c, t) = {} /\ Gives(os, c, t) = {}
<1>1. c.op = "Wait" /\ c.objects \in Seq(Dispatchers)
  BY TimedWaits
<1>2. After(os, c, t) \in [Objects -> Header] /\ \A o \in Objects : WaitEffect(os, c, t, o)
  BY <1>1, AfterWait
<1>3. \A o \in Satisfying(os, c, t) : o \in Dispatchers /\ o \notin Mutants
  <2>1. \A i \in DOMAIN c.objects : c.objects[i] \in Dispatchers
    BY <1>1
  <2>2. \A i \in DOMAIN c.objects : c.objects[i] \notin Mutants
    BY DEF TimedNotOnMutants
  <2> QED BY <1>1, <2>1, <2>2, SatisfyingSignaled
<1>4. \A o \in Mutants \cup Sections \cup Locks : o \in Objects /\ o \notin Satisfying(os, c, t)
  BY <1>3, KindsDisjoint
<1>5. \A o \in Mutants \cup Sections \cup Locks : After(os, c, t)[o] = os[o]
  BY <1>2, <1>4 DEF WaitEffect
<1>6. Takes(os, c, t) = {} /\ Gives(os, c, t) = {}
  BY <1>1, <1>3 DEF Takes, Gives
<1> QED BY <1>2, <1>5, <1>6 DEF Quiet

LEMMA Restored ==
    ASSUME ControlInv, FlowInv, Dispatching
    PROVE  RestoredCaller = cur
  BY DEF ControlInv, FlowInv, Dispatching, RestoredCaller

LEMMA Switched ==
    ASSUME ControlInv, FlowInv, NEW leaving \in {"Ready", "Blocked"}, SwitchAway(leaving)
    PROVE  /\ cur' \in Threads /\ cur' # cur /\ at[cur'] \in {"guest", "retry", "timed"}
           /\ fiber' \in [Threads -> {"Running", "Ready", "Blocked"}]
           /\ noted' \in [Threads -> BOOLEAN]
           /\ fiber'[cur] = leaving
           /\ \A t \in Threads : fiber'[t] = "Running" <=> t = cur'
           /\ \A t \in Threads : t # cur /\ t # cur' => fiber'[t] = fiber[t]
           /\ noted'[cur] = FALSE /\ \A t \in Threads \ {cur} : noted'[t] = noted[t]
<1> USE DEF ControlInv
<1>1. PICK t \in Others : /\ fiber' = [fiber EXCEPT ![cur] = leaving, ![t] = "Running"]
                          /\ noted' = [noted EXCEPT ![cur] = FALSE]
                          /\ cur' = t
  BY DEF SwitchAway
<1>2. t \in Threads /\ t # cur /\ fiber[t] \in {"Ready", "Blocked"}
  BY <1>1 DEF Others, Eligible
<1>3. at[t] \in {"guest", "retry", "timed"}
  BY <1>2 DEF FlowInv
<1>4. \A u \in Threads : fiber'[u] = "Running" <=> u = cur'
  BY <1>1, <1>2 DEF FlowInv
<1> QED BY <1>1, <1>2, <1>3, <1>4

-----------------------------------------------------------------------------
(* Where the threads are, step by step *)

\* What Idle and Block leave of the objects.
IdleObjects(os) ==
    objects' = os \/ \E e \in InterruptEvents : objects' = [os EXCEPT ![e].signal = 1]

LEMMA IdleStep ==
    ASSUME ControlInv, NEW os, Idle(os)
    PROVE  /\ IdleObjects(os) /\ UNCHANGED <<fiber, cur>>
           /\ noted' \in [Threads -> BOOLEAN] /\ passed' \in [Threads -> BOOLEAN]
           /\ status' \in {"success", "wouldBlock"}
  BY DEF ControlInv, Idle, IdleObjects, Progress

LEMMA BlockStep ==
    ASSUME ControlInv, FlowInv, NEW os, Block(os), call[cur] # NoCall, mode = "run",
           caller' \in Threads
    PROVE  ControlInv' /\ FlowInv' /\ IdleObjects(os) /\ call' = call
<1> USE DEF ControlInv
<1>1. at' = [at EXCEPT ![cur] = "retry"] /\ call' = call
  BY DEF Block
<1>2. CASE SwitchAway("Blocked") /\ objects' = os /\ status' = "wouldBlock"
           /\ UNCHANGED <<passed, mode>>
  <2>1. /\ cur' \in Threads /\ cur' # cur /\ at[cur'] \in {"guest", "retry", "timed"}
        /\ fiber' \in [Threads -> {"Running", "Ready", "Blocked"}]
        /\ noted' \in [Threads -> BOOLEAN]
        /\ fiber'[cur] = "Blocked"
        /\ \A t \in Threads : fiber'[t] = "Running" <=> t = cur'
        /\ \A t \in Threads : t # cur /\ t # cur' => fiber'[t] = fiber[t]
    BY <1>2, Switched
  <2>2. ControlInv'
    BY <1>1, <1>2, <2>1
  <2>3. FlowInv'
    BY <1>1, <2>1 DEF FlowInv
  <2> QED BY <1>1, <1>2, <2>2, <2>3 DEF IdleObjects
<1>3. CASE Idle(os) /\ UNCHANGED mode
  <2>1. /\ IdleObjects(os) /\ UNCHANGED <<fiber, cur>>
        /\ noted' \in [Threads -> BOOLEAN] /\ passed' \in [Threads -> BOOLEAN]
        /\ status' \in {"success", "wouldBlock"}
    BY <1>3, IdleStep
  <2>2. ControlInv'
    BY <1>1, <1>3, <2>1
  <2>3. FlowInv'
    BY <1>1, <2>1 DEF FlowInv
  <2> QED BY <1>1, <2>1, <2>2, <2>3
<1>4. CASE /\ mode' = "deadlock" /\ objects' = os /\ status' = "wouldBlock"
           /\ UNCHANGED <<fiberVars, passed>>
  <2>2. ControlInv'
    BY <1>1, <1>4 DEF fiberVars
  <2>3. FlowInv'
    BY <1>1, <1>4 DEF FlowInv, fiberVars
  <2> QED BY <1>1, <1>4, <2>2, <2>3 DEF IdleObjects
<1> QED BY <1>2, <1>3, <1>4 DEF Block

LEMMA ReturnStep ==
    ASSUME ControlInv, FlowInv, Return, caller' \in Threads, UNCHANGED <<passed, mode>>,
           status' \in {"success", "wouldBlock"}
    PROVE  ControlInv' /\ FlowInv' /\ call' = [call EXCEPT ![cur] = NoCall]
<1> USE DEF ControlInv
<1>1. /\ at' = [at EXCEPT ![cur] = "guest"] /\ call' = [call EXCEPT ![cur] = NoCall]
      /\ noted' = [t \in Threads |-> TRUE] /\ UNCHANGED <<fiber, cur>>
  BY DEF Return, Progress
<1>2. ControlInv'
  BY <1>1
<1>3. FlowInv'
  BY <1>1 DEF FlowInv
<1> QED BY <1>1, <1>2, <1>3

LEMMA InCall ==
    ASSUME ControlInv, FlowInv, at[cur] # "guest"
    PROVE  call[cur] # NoCall /\ call[cur] \in TitleCalls
  BY DEF ControlInv, FlowInv

LEMMA FlowStep ==
    ASSUME ControlInv, FlowInv, [Next]_vars
    PROVE  ControlInv' /\ FlowInv'
<1>1. ASSUME NEW c \in TitleCalls, StartCall(c) PROVE ControlInv' /\ FlowInv'
  <2>1. c # NoCall
    BY CallKinds
  <2>2. ControlInv'
    BY <1>1 DEF ControlInv, StartCall, fiberVars
  <2>3. FlowInv'
    BY <1>1, <2>1 DEF ControlInv, FlowInv, StartCall, fiberVars
  <2> QED BY <2>2, <2>3
<1>2. ASSUME Preempt PROVE ControlInv' /\ FlowInv'
  <2>1. /\ cur' \in Threads /\ cur' # cur /\ at[cur'] \in {"guest", "retry", "timed"}
        /\ fiber' \in [Threads -> {"Running", "Ready", "Blocked"}]
        /\ noted' \in [Threads -> BOOLEAN]
        /\ fiber'[cur] = "Ready"
        /\ \A t \in Threads : fiber'[t] = "Running" <=> t = cur'
        /\ \A t \in Threads : t # cur /\ t # cur' => fiber'[t] = fiber[t]
    BY <1>2, Switched DEF Preempt
  <2>2. at[cur] = "guest" /\ UNCHANGED <<call, at, passed, caller, status, mode>>
    BY <1>2 DEF Preempt, Running
  <2>3. ControlInv'
    BY <2>1, <2>2 DEF ControlInv
  <2>4. FlowInv'
    BY <2>1, <2>2 DEF ControlInv, FlowInv
  <2> QED BY <2>3, <2>4
<1>3. ASSUME NEW e \in InterruptEvents, Interrupt(e) PROVE ControlInv' /\ FlowInv'
  BY <1>3 DEF ControlInv, FlowInv, Interrupt, Handler, Progress
<1>4. ASSUME NEW t \in Threads, DeadlinePasses(t) PROVE ControlInv' /\ FlowInv'
  BY <1>4 DEF ControlInv, FlowInv, DeadlinePasses, fiberVars
<1>5. ASSUME Completes PROVE ControlInv' /\ FlowInv'
  <2>1. caller' \in Threads
    BY <1>5, Restored DEF Completes, ControlInv
  <2> QED BY <1>5, <2>1, ReturnStep DEF Completes
<1>6. ASSUME Blocks PROVE ControlInv' /\ FlowInv'
  <2>1. caller' \in Threads
    BY <1>6, Restored DEF Blocks, ControlInv
  <2>2. call[cur] # NoCall
    BY <1>6, InCall DEF Blocks, Dispatching
  <2> QED BY <1>6, <2>1, <2>2, BlockStep DEF Blocks, Dispatching
<1>7. ASSUME StartsTimed PROVE ControlInv' /\ FlowInv'
  <2>1. caller' \in Threads
    BY <1>7, Restored DEF StartsTimed, ControlInv
  <2>2. call[cur] # NoCall
    BY <1>7, InCall DEF StartsTimed, Dispatching
  <2>3. ControlInv'
    BY <1>7, <2>1 DEF ControlInv, StartsTimed, fiberVars
  <2>4. FlowInv'
    BY <1>7, <2>2 DEF ControlInv, FlowInv, StartsTimed, Dispatching, fiberVars
  <2> QED BY <2>3, <2>4
<1>8. ASSUME TimedCompletes PROVE ControlInv' /\ FlowInv'
  <2>1. caller' \in Threads
    BY <1>8 DEF TimedCompletes, ControlInv
  <2>2. status' \in {"success", "wouldBlock"}
    BY <1>8 DEF TimedCompletes, ControlInv
  <2> QED BY <1>8, <2>1, <2>2, ReturnStep DEF TimedCompletes
<1>9. ASSUME TimedCompletesUnseen PROVE ControlInv' /\ FlowInv'
  <2>1. call[cur] # NoCall /\ call[cur].timed
    BY <1>9, InCall DEF TimedCompletesUnseen, Rechecking, FlowInv, ControlInv
  <2>2. ControlInv'
    BY <1>9 DEF ControlInv, TimedCompletesUnseen, fiberVars
  <2>3. FlowInv'
    BY <1>9, <2>1 DEF ControlInv, FlowInv, TimedCompletesUnseen, Rechecking, fiberVars
  <2> QED BY <2>2, <2>3
<1>10. ASSUME UnseenBlocks PROVE ControlInv' /\ FlowInv'
  <2>1. caller' \in Threads
    BY <1>10 DEF UnseenBlocks, ControlInv
  <2>2. call[cur] # NoCall
    BY <1>10, InCall DEF UnseenBlocks
  <2> QED BY <1>10, <2>1, <2>2, BlockStep DEF UnseenBlocks
<1>11. ASSUME TimedElapses PROVE ControlInv' /\ FlowInv'
  <2>1. caller' \in Threads
    BY <1>11 DEF TimedElapses, ControlInv
  <2>2. call[cur] # NoCall
    BY <1>11, InCall DEF TimedElapses, Rechecking
  <2>3. CASE Return /\ UNCHANGED <<objects, passed, status, mode>>
    <3>1. status' \in {"success", "wouldBlock"}
      BY <2>3 DEF ControlInv
    <3> QED BY <2>1, <2>3, <3>1, ReturnStep
  <2>4. CASE Block(objects)
    BY <1>11, <2>1, <2>2, <2>4, BlockStep DEF TimedElapses, Rechecking
  <2> QED BY <1>11, <2>3, <2>4 DEF TimedElapses
<1>12. ASSUME TimedSleeps PROVE ControlInv' /\ FlowInv'
  <2>0. at[cur] = "timed" /\ UNCHANGED <<call, at, caller, mode, holds>>
    BY <1>12 DEF TimedSleeps, Rechecking
  <2>1. CASE SwitchAway("Blocked") /\ UNCHANGED <<objects, passed, status>>
    <3>1. /\ cur' \in Threads /\ cur' # cur /\ at[cur'] \in {"guest", "retry", "timed"}
          /\ fiber' \in [Threads -> {"Running", "Ready", "Blocked"}]
          /\ noted' \in [Threads -> BOOLEAN]
          /\ fiber'[cur] = "Blocked"
          /\ \A t \in Threads : fiber'[t] = "Running" <=> t = cur'
          /\ \A t \in Threads : t # cur /\ t # cur' => fiber'[t] = fiber[t]
      BY <2>1, Switched
    <3>2. ControlInv'
      BY <2>0, <2>1, <3>1 DEF ControlInv
    <3>3. FlowInv'
      BY <2>0, <3>1 DEF ControlInv, FlowInv
    <3> QED BY <3>2, <3>3
  <2>2. CASE Idle(objects)
    <3>1. /\ UNCHANGED <<fiber, cur>>
          /\ noted' \in [Threads -> BOOLEAN] /\ passed' \in [Threads -> BOOLEAN]
          /\ status' \in {"success", "wouldBlock"}
      BY <2>2, IdleStep
    <3> QED BY <2>0, <3>1 DEF ControlInv, FlowInv
  <2> QED BY <1>12, <2>1, <2>2 DEF TimedSleeps
<1>13. ASSUME UNCHANGED vars PROVE ControlInv' /\ FlowInv'
  BY <1>13 DEF vars, fiberVars, ControlInv, FlowInv
<1>14. Ended => UNCHANGED vars
  BY DEF Ended
<1> QED BY <1>1, <1>2, <1>3, <1>4, <1>5, <1>6, <1>7, <1>8, <1>9, <1>10, <1>11, <1>12, <1>13,
           <1>14 DEF Next

-----------------------------------------------------------------------------
(* What is held, step by step *)

\* The running thread's call takes effect on os, as itself, and returns.
CallEnds(os) ==
    /\ Quiet(objects, os) /\ call[cur] \in TitleCalls /\ CanComplete(os, call[cur], cur)
    /\ objects' = After(os, call[cur], cur)
    /\ holds' = [holds EXCEPT ![cur] = Held(os, call[cur], cur)]
    /\ call' = [call EXCEPT ![cur] = NoCall]

\* Nothing that is held changes; the running thread's call starts or ends.
NothingHeld ==
    /\ Quiet(objects, objects') /\ UNCHANGED holds
    /\ \/ UNCHANGED call
       \/ \E c \in TitleCalls : Allowed(c) /\ call' = [call EXCEPT ![cur] = c]
       \/ call' = [call EXCEPT ![cur] = NoCall]

LEMMA QuietAgain ==
    ASSUME NEW os, NEW ms, NEW ns, Quiet(os, ms), Quiet(ms, ns)
    PROVE  Quiet(os, ns)
  BY DEF Quiet

LEMMA IdleQuiet ==
    ASSUME NEW os \in [Objects -> Header], IdleObjects(os)
    PROVE  Quiet(os, objects')
<1>1. CASE objects' = os
  BY <1>1 DEF Quiet
<1>2. CASE \E e \in InterruptEvents : objects' = [os EXCEPT ![e].signal = 1]
  <2>1. PICK e \in Events : objects' = [os EXCEPT ![e].signal = 1]
    BY <1>2, WaitsAssumption
  <2> QED BY <2>1, EventSetQuiet
<1> QED BY <1>1, <1>2 DEF IdleObjects

LEMMA ObjectStep ==
    ASSUME DataInv, FlowInv, SignalsNoMutant, TimedNotOnMutants, [Next]_vars
    PROVE  NothingHeld \/ \E os : CallEnds(os)
<1> USE DEF DataInv
<1>q. Quiet(objects, objects)
  BY DEF Quiet
<1>1. ASSUME NEW c \in TitleCalls, StartCall(c) PROVE NothingHeld
  BY <1>1, <1>q DEF StartCall, NothingHeld
<1>2. ASSUME Preempt PROVE NothingHeld
  BY <1>2, <1>q DEF Preempt, NothingHeld
<1>3. ASSUME NEW e \in InterruptEvents, Interrupt(e) PROVE NothingHeld
  <2>1. e \in Events /\ objects' = [objects EXCEPT ![e].signal = 1]
    BY <1>3, WaitsAssumption DEF Interrupt, Handler
  <2>2. Quiet(objects, objects')
    BY <2>1, EventSetQuiet
  <2> QED BY <1>3, <2>2 DEF Interrupt, NothingHeld
<1>4. ASSUME NEW t \in Threads, DeadlinePasses(t) PROVE NothingHeld
  BY <1>4, <1>q DEF DeadlinePasses, NothingHeld
<1>p. call[cur] \in TitleCalls => Quiet(objects, Presignaled(objects, call[cur]))
  BY PresignaledQuiet
<1>c. at[cur] # "guest" => call[cur] \in TitleCalls /\ call[cur] # NoCall
  BY InCall
<1>5. ASSUME Completes PROVE \E os : CallEnds(os)
  <2>1. RestoredCaller = cur
    BY <1>5, Restored DEF Completes
  <2>2. call[cur] \in TitleCalls
    BY <1>5, <1>c DEF Completes, Dispatching
  <2> DEFINE os == Presignaled(objects, call[cur])
  <2>3. /\ CanComplete(os, call[cur], cur)
        /\ objects' = After(os, call[cur], cur)
        /\ holds' = [holds EXCEPT ![cur] = Held(os, call[cur], cur)]
        /\ call' = [call EXCEPT ![cur] = NoCall]
    BY <1>5, <2>1, Zenon DEF Completes, CanReturn, TakesEffect, Return
  <2>4. CallEnds(os)
    BY <1>p, <2>2, <2>3, Zenon DEF CallEnds
  <2> QED BY <2>4
<1>6. ASSUME Blocks PROVE NothingHeld
  <2>1. call[cur] \in TitleCalls /\ call[cur] # NoCall
    BY <1>6, <1>c DEF Blocks, Dispatching
  <2>2. caller' \in Threads
    BY <1>6, Restored DEF Blocks, ControlInv
  <2>3. IdleObjects(Presignaled(objects, call[cur])) /\ call' = call /\ holds' = holds
    BY <1>6, <2>1, <2>2, BlockStep DEF Blocks, Dispatching
  <2>4. Quiet(objects, Presignaled(objects, call[cur]))
    BY <1>p, <2>1
  <2>5. Presignaled(objects, call[cur]) \in [Objects -> Header]
    BY <2>4 DEF Quiet
  <2>6. Quiet(Presignaled(objects, call[cur]), objects')
    BY <2>3, <2>5, IdleQuiet
  <2>7. Quiet(objects, objects')
    BY <2>4, <2>6, QuietAgain
  <2> QED BY <2>3, <2>7 DEF NothingHeld
<1>7. ASSUME StartsTimed PROVE NothingHeld
  BY <1>7, <1>q DEF StartsTimed, NothingHeld
<1>t. ASSUME Rechecking, Satisfied
      PROVE  /\ Quiet(objects, After(objects, call[cur], caller))
             /\ holds = [holds EXCEPT ![cur] = Held(objects, call[cur], caller)]
  <2>1. call[cur] \in TitleCalls /\ call[cur].timed
    BY <1>c, <1>t DEF Rechecking, FlowInv, ControlInv
  <2>2. caller \in Threads /\ cur \in Threads
    BY DEF ControlInv
  <2>3. /\ Quiet(objects, After(objects, call[cur], caller))
        /\ Takes(objects, call[cur], caller) = {} /\ Gives(objects, call[cur], caller) = {}
    BY <1>t, <2>1, <2>2, TimedQuiet DEF Satisfied
  <2>4. \A o \in Objects : holds[cur][o] \in Int
    BY <2>2, WaitsAssumption DEF Holdings
  <2>5. Held(objects, call[cur], caller) = [o \in Objects |-> holds[cur][o]]
    <3>1. \A o \in Objects : holds[cur][o] + 0 - 0 = holds[cur][o]
      BY <2>4
    <3> QED BY <2>3, <3>1, Zenon DEF Held
  <2>6. holds[cur] \in [Objects -> 0 .. MaxDepth] /\ holds \in [Threads -> [Objects -> 0 .. MaxDepth]]
    BY <2>2 DEF Holdings
  <2>7. Held(objects, call[cur], caller) = holds[cur]
    BY <2>5, <2>6
  <2> QED BY <2>3, <2>6, <2>7
<1>8. ASSUME TimedCompletes PROVE NothingHeld
  <2>1. /\ objects' = After(objects, call[cur], caller)
        /\ holds' = [holds EXCEPT ![cur] = Held(objects, call[cur], caller)]
        /\ call' = [call EXCEPT ![cur] = NoCall]
    BY <1>8 DEF TimedCompletes, TakesEffect, Return
  <2> QED BY <1>8, <1>t, <2>1, Zenon DEF TimedCompletes, NothingHeld
<1>9. ASSUME TimedCompletesUnseen PROVE NothingHeld
  BY <1>9, <1>t, Zenon DEF TimedCompletesUnseen, NothingHeld
<1>10. ASSUME UnseenBlocks PROVE NothingHeld
  <2>1. caller' \in Threads /\ holds' = holds
    BY <1>10 DEF UnseenBlocks, ControlInv
  <2>2. call[cur] # NoCall
    BY <1>10, InCall DEF UnseenBlocks
  <2>3. IdleObjects(objects) /\ call' = call
    BY <1>10, <2>1, <2>2, BlockStep DEF UnseenBlocks
  <2> QED BY <2>1, <2>3, IdleQuiet DEF NothingHeld
<1>11. ASSUME TimedElapses PROVE NothingHeld
  <2>1. caller' \in Threads /\ holds' = holds
    BY <1>11 DEF TimedElapses, ControlInv
  <2>2. call[cur] # NoCall
    BY <1>11, InCall DEF TimedElapses, Rechecking
  <2>3. CASE Return /\ UNCHANGED objects
    BY <1>q, <2>1, <2>3 DEF Return, NothingHeld
  <2>4. CASE Block(objects)
    <3>1. IdleObjects(objects) /\ call' = call
      BY <1>11, <2>1, <2>2, <2>4, BlockStep DEF TimedElapses, Rechecking
    <3> QED BY <2>1, <3>1, IdleQuiet DEF NothingHeld
  <2> QED BY <1>11, <2>3, <2>4 DEF TimedElapses
<1>12. ASSUME TimedSleeps PROVE NothingHeld
  <2>1. CASE UNCHANGED objects
    BY <1>12, <1>q, <2>1 DEF TimedSleeps, NothingHeld
  <2>2. CASE Idle(objects)
    <3>1. IdleObjects(objects)
      BY <2>2, IdleStep
    <3> QED BY <1>12, <3>1, IdleQuiet DEF TimedSleeps, NothingHeld
  <2> QED BY <1>12, <2>1, <2>2 DEF TimedSleeps
<1>13. ASSUME UNCHANGED vars PROVE NothingHeld
  BY <1>13, <1>q DEF vars, NothingHeld
<1>14. Ended => UNCHANGED vars
  BY DEF Ended
<1> QED BY <1>1, <1>2, <1>3, <1>4, <1>5, <1>6, <1>7, <1>8, <1>9, <1>10, <1>11, <1>12, <1>13,
           <1>14 DEF Next

LEMMA HoldersStep ==
    ASSUME KernelInv, SignalsNoMutant, TimedNotOnMutants, [Next]_vars
    PROVE  /\ objects' \in [Objects -> Header] /\ holds' \in Holdings
           /\ HeldInv' /\ AllowedInv'
<1> USE DEF KernelInv, DataInv
<1>n. \A t : AllowedFor(holds', t, NoCall)
  BY DEF AllowedFor, NoCall, CallOn
<1>1. CASE NothingHeld
  <2>1. objects' \in [Objects -> Header] /\ holds' = holds
    BY <1>1 DEF NothingHeld, Quiet
  <2>2. HeldInv'
    BY <1>1, <2>1, QuietKeepsHeld DEF NothingHeld, HeldInv
  <2>3. ASSUME NEW t \in Threads PROVE AllowedFor(holds', t, call'[t])
    <3>1. AllowedFor(holds', t, call[t])
      BY <2>1 DEF AllowedInv
    <3>2. CASE call'[t] = call[t]
      BY <3>1, <3>2
    <3>3. CASE call'[t] # call[t]
      <4>1. t = cur
        BY <1>1, <3>3 DEF NothingHeld, ControlInv
      <4>2. call'[cur] = NoCall \/ Allowed(call'[cur])
        BY <1>1, <3>3 DEF NothingHeld, ControlInv
      <4>3. \A c : Allowed(c) => AllowedFor(holds, cur, c)
        BY DEF Allowed, AllowedFor
      <4> QED BY <1>n, <2>1, <4>1, <4>2, <4>3
    <3> QED BY <3>2, <3>3
  <2> QED BY <2>1, <2>2, <2>3 DEF AllowedInv
<1>2. ASSUME NEW os, CallEnds(os) PROVE /\ objects' \in [Objects -> Header] /\ holds' \in Holdings
                                        /\ HeldInv' /\ AllowedInv'
  <2> DEFINE c == call[cur]
  <2>1. cur \in Threads /\ c \in TitleCalls /\ CanComplete(os, c, cur)
    BY <1>2 DEF CallEnds, ControlInv
  <2>2. os \in [Objects -> Header] /\ HeldOk(os, holds)
    BY <1>2, QuietKeepsHeld DEF CallEnds, Quiet, HeldInv
  <2>3. AllowedFor(holds, cur, c)
    BY <2>1 DEF AllowedInv
  <2>4. HoldsAfter(os, holds, holds', c, cur)
    <3>1. holds' = [holds EXCEPT ![cur] = Held(os, c, cur)]
      BY <1>2 DEF CallEnds
    <3>2. \A o \in Objects : holds[cur][o] \in Int
      BY <2>1, WaitsAssumption DEF Holdings
    <3>3. Held(os, c, cur) \in [Objects -> Int]
      BY <3>2 DEF Held
    <3>4. holds \in [Threads -> [Objects -> Int]]
      <4>1. holds \in [Threads -> [Objects -> 0 .. MaxDepth]] /\ 0 .. MaxDepth \subseteq Int
        BY WaitsAssumption DEF Holdings
      <4> QED BY <4>1
    <3>5. \A o \in Objects : Held(os, c, cur)[o]
             = holds[cur][o] + (IF o \in Takes(os, c, cur) THEN 1 ELSE 0)
                             - (IF o \in Gives(os, c, cur) THEN 1 ELSE 0)
      BY DEF Held
    <3> HIDE DEF c
    <3> QED BY <2>1, <3>1, <3>3, <3>4, <3>5 DEF HoldsAfter
  <2>5. holds' \in Holdings /\ HeldOk(objects', holds')
    <3>1. objects' = After(os, c, cur)
      BY <1>2 DEF CallEnds
    <3> HIDE DEF c
    <3>2. holds' \in Holdings /\ HeldOk(After(os, c, cur), holds')
      BY <2>1, <2>2, <2>3, <2>4, HoldersKept
    <3> QED BY <3>1, <3>2
  <2>6. objects' \in [Objects -> Header]
    BY <1>2, <2>1, <2>2, CallEffect DEF CallEnds, EffectIs
  <2>7. ASSUME NEW t \in Threads PROVE AllowedFor(holds', t, call'[t])
    <3>1. CASE t = cur
      BY <1>2, <1>n, <3>1 DEF CallEnds, ControlInv
    <3>2. CASE t # cur
      <4>1. call'[t] = call[t] /\ holds'[t] = holds[t]
        BY <1>2, <3>2 DEF CallEnds, ControlInv, Holdings
      <4> QED BY <4>1 DEF AllowedInv, AllowedFor
    <3> QED BY <3>1, <3>2
  <2> QED BY <2>5, <2>6, <2>7 DEF HeldInv, AllowedInv
<1> QED BY <1>1, <1>2, ObjectStep

-----------------------------------------------------------------------------
(* The counts, when every call does all it does at once *)

LEMMA PlainTouches ==
    ASSUME NEW os \in [Objects -> Header], NEW c, NEW t \in Threads, NEW o \in Objects,
           c.objects[1] = o,
           c.op \in {"Enter", "TryEnter", "Leave", "AcquireExclusive", "TryAcquireExclusive",
                     "AcquireShared", "TryAcquireShared", "ReleaseLock"}
    PROVE  After(os, c, t) = os \/ \E x, y, z : Put(os, After(os, c, t), o, x, y, z)
<1>1. \/ After(os, c, t) = os \/ After(os, c, t) = Entered(os, o, t)
      \/ After(os, c, t) = Left(os, o) \/ After(os, c, t) = AcquiredExclusive(os, o)
      \/ After(os, c, t) = AcquiredShared(os, o) \/ After(os, c, t) = LockReleased(os, o)
  BY DEF After
<1> DEFINE ns == After(os, c, t)
<1> HIDE DEF ns
<1>2. ns = Entered(os, o, t) => \E x, y, z : Put(os, ns, o, x, y, z)
  BY EnteredEffect
<1>3. ns = Left(os, o) => ns = os \/ \E x, y, z : Put(os, ns, o, x, y, z)
  BY LeftEffect
<1>4. ns = AcquiredExclusive(os, o) => \E x, y, z : Put(os, ns, o, x, y, z)
  BY LockEffects
<1>5. ns = AcquiredShared(os, o) => \E x, y, z : Put(os, ns, o, x, y, z)
  BY LockEffects
<1>6. ns = LockReleased(os, o) => \E x, y, z : Put(os, ns, o, x, y, z)
  BY LockEffects
<1> QED BY <1>1, <1>2, <1>3, <1>4, <1>5, <1>6 DEF ns

LEMMA CountsElsewhere ==
    ASSUME NEW os, NEW ns, NEW o, CountsOk(os), \A p \in Dispatchers \ {o} : ns[p] = os[p],
           o \notin Dispatchers \/
             /\ o \in Events => ns[o].signal \in {0, 1}
             /\ o \in Semaphores => ns[o].signal \in 0 .. Limit
             /\ ns[o].depth = 0
    PROVE  CountsOk(ns)
  BY KindsDisjoint DEF CountsOk

LEMMA CountsPut ==
    ASSUME NEW os, NEW ns, NEW o, CountsOk(os), NEW x, NEW y, NEW z, Put(os, ns, o, x, y, z),
           o \notin Dispatchers \/
             /\ o \in Events => x \in {0, 1}
             /\ o \in Semaphores => x \in 0 .. Limit
             /\ z = 0
    PROVE  CountsOk(ns)
<1>1. \A p \in Dispatchers \ {o} : ns[p] = os[p]
  BY DEF Put, Objects
<1>2. ns[o].signal = x /\ ns[o].depth = z
  BY DEF Put
<1> QED BY <1>1, <1>2, CountsElsewhere

LEMMA CountsAfter ==
    ASSUME NEW os \in [Objects -> Header], NEW c \in TitleCalls, NEW t \in Threads,
           CanComplete(os, c, t), CountsOk(os)
    PROVE  CountsOk(After(os, c, t))
<1> DEFINE ns == After(os, c, t)
<1>1. CASE c.op = "Wait" /\ c.objects \in Seq(Dispatchers)
  <2>1. \A o \in Objects : WaitEffect(os, c, t, o)
    BY <1>1, AfterWait
  <2>2. ASSUME NEW o \in Dispatchers, o \in Satisfying(os, c, t)
        PROVE  /\ o \in Events => ns[o].signal \in {0, 1}
               /\ o \in Semaphores => ns[o].signal \in 0 .. Limit
               /\ ns[o].depth = 0
    <3>0. o \in Objects
      BY DEF Objects
    <3>1. ns[o] = Consumed(os, o, t) /\ os[o].depth = 0
      BY <2>1, <2>2, <3>0 DEF WaitEffect, CountsOk
    <3>2. Signaled(os, o, t)
      BY <1>1, <2>2, SatisfyingSignaled
    <3>3. ns[o].depth = 0
      BY <3>0, <3>1, ConsumedEffect
    <3>4. ASSUME o \in Semaphores PROVE ns[o].signal \in 0 .. Limit
      <4>1. os[o].signal > 0 /\ os[o].signal \in 0 .. Limit
        BY <3>2, <3>4, KindsDisjoint, ObjectsAssumption DEF Signaled, CountsOk
      <4>2. ns[o].signal = os[o].signal - 1
        BY <3>0, <3>1, <3>4, ConsumedEffect
      <4> QED BY <4>1, <4>2, ObjectsAssumption
    <3>5. ASSUME o \in Events PROVE ns[o].signal \in {0, 1}
      <4>1. CASE o \in SynchronizationEvents
        BY <3>0, <3>1, <4>1, ConsumedEffect
      <4>2. CASE o \notin SynchronizationEvents
        <5>1. ns[o] = os[o]
          BY <3>0, <3>1, <3>5, <4>2, ConsumedEffect, KindsDisjoint
        <5> QED BY <3>5, <5>1 DEF CountsOk
      <4> QED BY <4>1, <4>2
    <3> QED BY <3>3, <3>4, <3>5
  <2>3. ASSUME NEW o \in Dispatchers, o \notin Satisfying(os, c, t)
        PROVE  ns[o] = os[o]
    BY <2>1, <2>3 DEF WaitEffect, Objects
  <2> HIDE DEF ns
  <2>4. \A o \in Dispatchers : /\ o \in Events => ns[o].signal \in {0, 1}
                               /\ o \in Semaphores => ns[o].signal \in 0 .. Limit
                               /\ ns[o].depth = 0
    BY <2>2, <2>3 DEF CountsOk
  <2>5. CountsOk(ns)
    BY <2>4, KindsDisjoint DEF CountsOk
  <2> QED BY <2>5 DEF ns
<1>2. ASSUME NEW o \in Sections, Is(c, {"Enter", "TryEnter", "Leave"}, o)
      PROVE  CountsOk(ns)
  <2>1. c.objects[1] = o
    BY <1>2, IsFields, Zenon
  <2>2. ns = os \/ \E x, y, z : Put(os, ns, o, x, y, z)
    BY <1>2, <2>1, KindsDisjoint, PlainTouches DEF Is
  <2>3. o \notin Dispatchers
    BY KindsDisjoint
  <2> HIDE DEF ns
  <2> QED BY <2>2, <2>3, CountsPut
<1>3. ASSUME NEW o \in Locks,
             Is(c, {"AcquireExclusive", "TryAcquireExclusive",
                    "AcquireShared", "TryAcquireShared", "ReleaseLock"}, o)
      PROVE  CountsOk(ns)
  <2>1. c.objects[1] = o
    BY <1>3, IsFields, Zenon
  <2>2. ns = os \/ \E x, y, z : Put(os, ns, o, x, y, z)
    BY <1>3, <2>1, KindsDisjoint, PlainTouches DEF Is
  <2>3. o \notin Dispatchers
    BY KindsDisjoint
  <2> HIDE DEF ns
  <2> QED BY <2>2, <2>3, CountsPut
<1>4. ASSUME NEW o \in Events, Is(c, {"SetEvent", "ResetEvent", "PulseEvent"}, o)
      PROVE  CountsOk(ns)
  <2>1. c.objects[1] = o
    BY <1>4, IsFields, Zenon
  <2>2. ns = [os EXCEPT ![o].signal = 0] \/ ns = [os EXCEPT ![o].signal = 1]
    BY <1>4, <2>1 DEF Is, After
  <2>3. o \in Objects /\ os[o].depth = 0 /\ 0 \in Int /\ 1 \in Int
    BY KindsDisjoint DEF CountsOk
  <2> HIDE DEF ns
  <2>4. Put(os, ns, o, 0, os[o].owner, os[o].depth) \/ Put(os, ns, o, 1, os[o].owner, os[o].depth)
    BY <2>2, <2>3, PutSignal, Zenon
  <2>5. o \notin Semaphores
    BY KindsDisjoint
  <2> QED BY <2>3, <2>4, <2>5, CountsPut
<1>5. ASSUME NEW o \in Semaphores, Is(c, {"ReleaseSemaphore"}, o)
      PROVE  CountsOk(ns)
  <2>1. c.objects[1] = o
    BY <1>5, IsFields, Zenon
  <2>2. ns = SemaphoreReleased(os, o)
    BY <1>5, <2>1 DEF Is, After
  <2>3. o \in Objects /\ os[o].depth = 0 /\ os[o].signal \in 0 .. Limit /\ o \notin Events
    BY KindsDisjoint DEF CountsOk
  <2> HIDE DEF ns
  <2>4. IF os[o].signal + 1 > Limit THEN ns = os
        ELSE Put(os, ns, o, os[o].signal + 1, os[o].owner, os[o].depth)
    BY <2>2, <2>3, ReleaseEffects
  <2>5. os[o].signal + 1 > Limit \/ os[o].signal + 1 \in 0 .. Limit
    BY <2>3, ObjectsAssumption
  <2>6. CASE os[o].signal + 1 > Limit
    BY <2>4, <2>6
  <2>7. CASE ~(os[o].signal + 1 > Limit)
    BY <2>3, <2>4, <2>5, <2>7, CountsPut
  <2> QED BY <2>6, <2>7
<1>6. ASSUME NEW o \in Mutants, Is(c, {"ReleaseMutant"}, o)
      PROVE  CountsOk(ns)
  <2>1. c.objects[1] = o
    BY <1>6, IsFields, Zenon
  <2>2. ns = MutantReleased(os, o, t)
    BY <1>6, <2>1 DEF Is, After
  <2>3. o \in Objects /\ os[o].depth = 0 /\ o \notin Events /\ o \notin Semaphores
    BY KindsDisjoint DEF CountsOk
  <2> HIDE DEF ns
  <2>4. ns = os \/ \E x, y : Put(os, ns, o, x, y, os[o].depth)
    BY <2>2, <2>3, ReleaseEffects
  <2> QED BY <2>3, <2>4, CountsPut
<1> QED BY <1>1, <1>2, <1>3, <1>4, <1>5, <1>6, CallKinds DEF Is

\* Without signal-and-wait, a step changes the objects as one call or one
\* interrupt does.
OneEffect ==
    \/ IdleObjects(objects)
    \/ \E t \in Threads : /\ call[cur] \in TitleCalls /\ CanComplete(objects, call[cur], t)
                          /\ objects' = After(objects, call[cur], t)

LEMMA OneEffectStep ==
    ASSUME DataInv, FlowInv, NoSignalAndWait, [Next]_vars
    PROVE  OneEffect
<1> USE DEF DataInv
<1>c. at[cur] # "guest" => call[cur] \in TitleCalls
  BY InCall
<1>p. call[cur] \in TitleCalls => Presignaled(objects, call[cur]) = objects
  BY NoPresignal
<1>t. cur \in Threads /\ caller \in Threads
  BY DEF ControlInv
<1>u. objects' = objects => OneEffect
  BY DEF OneEffect, IdleObjects
<1>b. Block(objects) \/ Idle(objects) => OneEffect
  BY DEF Block, Idle, OneEffect, IdleObjects
<1>1. ASSUME NEW c \in TitleCalls, StartCall(c) PROVE OneEffect
  BY <1>1, <1>u DEF StartCall
<1>2. ASSUME Preempt PROVE OneEffect
  BY <1>2, <1>u DEF Preempt
<1>3. ASSUME NEW e \in InterruptEvents, Interrupt(e) PROVE OneEffect
  BY <1>3 DEF Interrupt, Handler, OneEffect, IdleObjects
<1>4. ASSUME NEW t \in Threads, DeadlinePasses(t) PROVE OneEffect
  BY <1>4, <1>u DEF DeadlinePasses
<1>5. ASSUME Completes PROVE OneEffect
  <2>1. RestoredCaller = cur
    BY <1>5, Restored DEF Completes
  <2>2. call[cur] \in TitleCalls
    BY <1>5, <1>c DEF Completes, Dispatching
  <2> QED BY <1>5, <1>p, <1>t, <2>1, <2>2, Zenon DEF Completes, CanReturn, TakesEffect, OneEffect
<1>6. ASSUME Blocks PROVE OneEffect
  <2>1. call[cur] \in TitleCalls
    BY <1>6, <1>c DEF Blocks, Dispatching
  <2> QED BY <1>6, <1>p, <1>b, <2>1 DEF Blocks
<1>7. ASSUME StartsTimed PROVE OneEffect
  BY <1>7, <1>u DEF StartsTimed
<1>8. ASSUME TimedCompletes PROVE OneEffect
  BY <1>8, <1>c, <1>t DEF TimedCompletes, Rechecking, Satisfied, TakesEffect, OneEffect
<1>9. ASSUME TimedCompletesUnseen PROVE OneEffect
  BY <1>9, <1>c, <1>t DEF TimedCompletesUnseen, Rechecking, Satisfied, OneEffect
<1>10. ASSUME UnseenBlocks PROVE OneEffect
  BY <1>10, <1>b DEF UnseenBlocks
<1>11. ASSUME TimedElapses PROVE OneEffect
  BY <1>11, <1>u, <1>b DEF TimedElapses
<1>12. ASSUME TimedSleeps PROVE OneEffect
  BY <1>12, <1>u, <1>b DEF TimedSleeps
<1>13. ASSUME UNCHANGED vars PROVE OneEffect
  BY <1>13, <1>u DEF vars
<1>14. Ended => UNCHANGED vars
  BY DEF Ended
<1> QED BY <1>1, <1>2, <1>3, <1>4, <1>5, <1>6, <1>7, <1>8, <1>9, <1>10, <1>11, <1>12, <1>13,
           <1>14 DEF Next

LEMMA CountsStep ==
    ASSUME DataInv, FlowInv, CountsInv, NoSignalAndWait, [Next]_vars
    PROVE  CountsInv'
<1>1. OneEffect
  BY OneEffectStep
<1>2. objects \in [Objects -> Header] /\ CountsOk(objects)
  BY DEF DataInv, CountsInv
<1>3. CASE objects' = objects
  BY <1>2, <1>3 DEF CountsInv
<1>4. ASSUME NEW e \in InterruptEvents, objects' = [objects EXCEPT ![e].signal = 1]
      PROVE  CountsOk(objects')
  <2>1. e \in Events /\ e \in Objects /\ e \notin Semaphores /\ 1 \in Int
    BY WaitsAssumption, KindsDisjoint
  <2>2. Put(objects, objects', e, 1, objects[e].owner, objects[e].depth)
    BY <1>2, <1>4, <2>1, PutSignal, Zenon
  <2>3. objects[e].depth = 0
    BY <1>2, <2>1, KindsDisjoint DEF CountsOk
  <2> QED BY <1>2, <2>1, <2>2, <2>3, CountsPut
<1>5. ASSUME NEW t \in Threads, call[cur] \in TitleCalls, CanComplete(objects, call[cur], t),
             objects' = After(objects, call[cur], t)
      PROVE  CountsOk(objects')
  BY <1>2, <1>5, CountsAfter
<1> QED BY <1>1, <1>3, <1>4, <1>5 DEF OneEffect, IdleObjects, CountsInv

-----------------------------------------------------------------------------
(* Nobody sleeps through what he waits for *)

\* Only whether e is set can decide the timed wait, and it resets e.
LEMMA TimedOnOne ==
    ASSUME NEW os \in [Objects -> Header], NEW c \in TitleCalls, c.timed,
           NEW e \in SynchronizationEvents, c.objects = <<e>>
    PROVE  /\ \A t : CanComplete(os, c, t) <=> os[e].signal > 0
           /\ \A t \in Threads : CanComplete(os, c, t) =>
                 /\ After(os, c, t) \in [Objects -> Header]
                 /\ After(os, c, t)[e].signal = 0
                 /\ \A o \in Objects \ {e} : After(os, c, t)[o] = os[o]
<1>1. c.objects = <<e>>
  OBVIOUS
<1>2. c.op = "Wait" /\ c.objects \in Seq(Dispatchers)
  BY TimedWaits
<1>3. DOMAIN c.objects = {1} /\ c.objects[1] = e
  BY <1>1
<1>4. e \in Events /\ e \in Objects /\ e \notin Mutants
  <2>1. e \in Events
    BY DEF Events
  <2> QED BY <2>1, KindsDisjoint
<1>5. \A t : Signaled(os, e, t) <=> os[e].signal > 0
  BY <1>4 DEF Signaled
<1>6. \A t : CanComplete(os, c, t) <=> os[e].signal > 0
  <2> TAKE t
  <2>1. CanComplete(os, c, t) <=> (IF c.all THEN \A i \in DOMAIN c.objects : Signaled(os, c.objects[i], t)
                                   ELSE \E i \in DOMAIN c.objects : Signaled(os, c.objects[i], t))
    BY <1>2, Zenon DEF CanComplete
  <2> QED BY <1>3, <1>5, <2>1
<1>7. ASSUME NEW t \in Threads, CanComplete(os, c, t)
      PROVE  /\ After(os, c, t) \in [Objects -> Header]
             /\ After(os, c, t)[e].signal = 0
             /\ \A o \in Objects \ {e} : After(os, c, t)[o] = os[o]
  <2>1. After(os, c, t) \in [Objects -> Header] /\ \A o \in Objects : WaitEffect(os, c, t, o)
    BY <1>2, AfterWait
  <2>2. Satisfying(os, c, t) \subseteq {e}
    BY <1>3 DEF Satisfying
  <2>3. e \in Satisfying(os, c, t)
    <3>1. 1 \in DOMAIN c.objects /\ c.objects[1] = e /\ Signaled(os, c.objects[1], t)
      BY <1>3, <1>5, <1>6, <1>7
    <3>2. \A j \in 1 .. 1 - 1 : FALSE
      OBVIOUS
    <3> QED BY <3>1, <3>2 DEF Satisfying
  <2>4. Consumed(os, e, t).signal = 0
    BY <1>4, ConsumedEffect
  <2>5. After(os, c, t)[e] = Consumed(os, e, t)
    BY <1>4, <2>1, <2>3 DEF WaitEffect
  <2>6. \A o \in Objects \ {e} : After(os, c, t)[o] = os[o]
    BY <2>1, <2>2 DEF WaitEffect
  <2> QED BY <2>1, <2>4, <2>5, <2>6
<1> QED BY <1>6, <1>7

\* Resetting an event lets no call complete that could not before.
LEMMA ResetLowers ==
    ASSUME NEW os \in [Objects -> Header], NEW ns \in [Objects -> Header], NEW e \in Events,
           \A o \in Objects \ {e} : ns[o] = os[o], ns[e].signal = 0,
           NEW d \in TitleCalls, NEW u \in Threads, CanComplete(ns, d, u)
    PROVE  CanComplete(os, d, u)
<1>0. e \in Objects /\ e \notin Mutants /\ e \in Dispatchers
  BY KindsDisjoint
<1>1. CASE d.op = "Wait" /\ d.objects \in Seq(Dispatchers)
  <2>1. \A o \in Dispatchers : Signaled(ns, o, u) => Signaled(os, o, u)
    BY <1>0 DEF Signaled, Objects
  <2>2. \A i \in DOMAIN d.objects : d.objects[i] \in Dispatchers
    BY <1>1
  <2>3. \A i \in DOMAIN d.objects : Signaled(ns, d.objects[i], u) => Signaled(os, d.objects[i], u)
    BY <2>1, <2>2
  <2>4. \A ms : CanComplete(ms, d, u) <=> (IF d.all THEN \A i \in DOMAIN d.objects : Signaled(ms, d.objects[i], u)
                                   ELSE \E i \in DOMAIN d.objects : Signaled(ms, d.objects[i], u))
    BY <1>1, Zenon DEF CanComplete
  <2> QED BY <2>3, <2>4
<1>2. CASE \E o \in Sections \cup Locks : d = Plain(d.op, o) /\ d.op # "Wait"
  <2>1. PICK o \in Sections \cup Locks : d = Plain(d.op, o) /\ d.op # "Wait"
    BY <1>2
  <2>2. Is(d, {d.op}, o)
    BY <2>1 DEF Is
  <2>3. d.objects[1] = o
    BY <2>2, IsFields, Zenon
  <2>4. ns[o] = os[o]
    BY <1>0, KindsDisjoint
  <2> QED BY <2>1, <2>3, <2>4 DEF CanComplete, CanEnter, CanAcquireExclusive, CanAcquireShared
<1>3. CASE d.op \in {"SetEvent", "ResetEvent", "PulseEvent", "ReleaseSemaphore", "ReleaseMutant"}
  BY <1>3 DEF CanComplete
<1> QED BY <1>1, <1>2, <1>3, CallKinds

WakeInv == NoLostWakeup /\ NobodyCanRun /\ UnseenInv

LEMMA ProgressWakes ==
    ASSUME noted' = Progress
    PROVE  NoLostWakeup'
  BY DEF Progress, NoLostWakeup

\* Whoever was blocked before stays as he was, whoever is blocked now cannot go
\* on, and no call can complete that could not before.
LEMMA StillWakes ==
    ASSUME NoLostWakeup,
           \A t \in Threads : fiber'[t] = "Blocked"
             => \/ ~CanComplete(objects', call'[t], t)
                \/ /\ fiber[t] = "Blocked" /\ noted'[t] = noted[t]
                   /\ CanComplete(objects', call'[t], t) => CanComplete(objects, call[t], t)
    PROVE  NoLostWakeup'
  BY Zenon DEF NoLostWakeup

LEMMA SwitchWakes ==
    ASSUME ControlInv, FlowInv, NoLostWakeup, SwitchAway("Blocked"), objects' = objects,
           call' = call, NEW a, at' = [at EXCEPT ![cur] = a],
           ~CanComplete(objects, call[cur], cur)
    PROVE  NoLostWakeup' /\ at'[cur'] # "unseen"
<1>1. /\ cur' \in Threads /\ cur' # cur /\ at[cur'] \in {"guest", "retry", "timed"}
      /\ \A t \in Threads : fiber'[t] = "Running" <=> t = cur'
      /\ \A t \in Threads : t # cur /\ t # cur' => fiber'[t] = fiber[t]
      /\ \A t \in Threads \ {cur} : noted'[t] = noted[t]
  BY Switched
<1>2. cur \in Threads /\ at \in [Threads -> {"guest", "dispatch", "retry", "timed", "unseen"}]
  BY DEF ControlInv
<1>3. ASSUME NEW t \in Threads, fiber'[t] = "Blocked"
      PROVE  \/ ~CanComplete(objects', call'[t], t)
             \/ /\ fiber[t] = "Blocked" /\ noted'[t] = noted[t]
                /\ CanComplete(objects', call'[t], t) => CanComplete(objects, call[t], t)
  <2>1. CASE t = cur
    BY <2>1
  <2>2. CASE t # cur
    <3>1. t # cur'
      BY <1>1, <1>3
    <3>2. fiber[t] = "Blocked" /\ noted'[t] = noted[t]
      BY <1>1, <1>3, <2>2, <3>1
    <3> QED BY <3>2
  <2> QED BY <2>1, <2>2
<1>4. NoLostWakeup'
  BY <1>3, StillWakes
<1> QED BY <1>1, <1>2, <1>4

LEMMA BlockWakes ==
    ASSUME ControlInv, FlowInv, NoLostWakeup, mode = "run", Block(objects),
           ~CanComplete(objects, call[cur], cur)
    PROVE  WakeInv'
<1>1. at' = [at EXCEPT ![cur] = "retry"] /\ call' = call
  BY DEF Block
<1>2. cur \in Threads /\ at \in [Threads -> {"guest", "dispatch", "retry", "timed", "unseen"}]
  BY DEF ControlInv
<1>r. mode' = "run" => NobodyCanRun'
  BY DEF NobodyCanRun
<1>u. at'[cur'] # "unseen" => UnseenInv'
  BY DEF UnseenInv
<1>3. CASE SwitchAway("Blocked") /\ objects' = objects /\ UNCHANGED mode
  <2>1. NoLostWakeup' /\ at'[cur'] # "unseen"
    BY <1>1, <1>3, SwitchWakes
  <2> QED BY <1>3, <1>r, <1>u, <2>1 DEF WakeInv
<1>4. CASE Idle(objects) /\ UNCHANGED mode
  <2>1. cur' = cur /\ fiber' = fiber
    BY <1>4 DEF Idle
  <2>2. at'[cur'] # "unseen"
    BY <1>1, <1>2, <2>1
  <2>3. CASE noted' = Progress
    BY <1>4, <1>r, <1>u, <2>2, <2>3, ProgressWakes DEF WakeInv
  <2>4. CASE objects' = objects /\ UNCHANGED noted
    <3>2. NoLostWakeup'
      BY <1>1, <2>1, <2>4, StillWakes
    <3> QED BY <1>4, <1>r, <1>u, <2>2, <3>2 DEF WakeInv
  <2> QED BY <1>4, <2>3, <2>4 DEF Idle
<1>5. CASE /\ Others = {} /\ mode' = "deadlock" /\ objects' = objects
           /\ UNCHANGED <<fiberVars, passed>>
  <2>1. cur' = cur /\ fiber' = fiber /\ noted' = noted
    BY <1>5 DEF fiberVars
  <2>2. ASSUME NEW t \in Threads, t # cur
        PROVE  /\ at'[t] = "retry" \/ (at'[t] = "timed" /\ ~passed[t])
               /\ ~CanComplete(objects, call[t], t)
    <3>1. ~Eligible(t)
      BY <1>5, <2>2 DEF Others
    <3>2. fiber[t] = "Blocked" /\ noted[t] = FALSE /\ ~(at[t] = "timed" /\ passed[t])
      BY <2>2, <3>1 DEF Eligible, FlowInv, ControlInv
    <3>3. at[t] \in {"retry", "timed"}
      BY <3>2 DEF FlowInv
    <3>4. at'[t] = at[t]
      BY <1>1, <1>2, <2>2
    <3>6. ~CanComplete(objects, call[t], t)
      BY <3>2 DEF NoLostWakeup
    <3> QED BY <3>2, <3>3, <3>4, <3>6
  <2>3. at'[cur] = "retry"
    BY <1>1, <1>2
  <2>4. ASSUME NEW t \in Threads
        PROVE  /\ at'[t] = "retry" \/ (at'[t] = "timed" /\ ~passed'[t])
               /\ ~CanComplete(objects', call'[t], t)
    <3>1. CASE t = cur
      BY <1>1, <1>5, <2>3, <3>1
    <3>2. CASE t # cur
      BY <1>1, <1>5, <2>2, <3>2
    <3> QED BY <3>1, <3>2
  <2>5. NoLostWakeup' /\ NobodyCanRun'
    BY <2>4, Zenon DEF NoLostWakeup, NobodyCanRun
  <2> QED BY <1>u, <2>1, <2>3, <2>5 DEF WakeInv
<1> QED BY <1>3, <1>4, <1>5 DEF Block

LEMMA WakeStep ==
    ASSUME DataInv, FlowInv, WakeInv, NoSignalAndWait, TimedOnEvents, [Next]_vars
    PROVE  WakeInv'
<1> USE DEF DataInv
<1>t. /\ cur \in Threads /\ caller \in Threads
      /\ at \in [Threads -> {"guest", "dispatch", "retry", "timed", "unseen"}]
  BY DEF ControlInv
<1>c. at[cur] # "guest" => call[cur] \in TitleCalls /\ call[cur] # NoCall
  BY InCall
<1>p. call[cur] \in TitleCalls => Presignaled(objects, call[cur]) = objects
  BY NoPresignal
<1>r. mode' = "run" => NobodyCanRun'
  BY DEF NobodyCanRun
<1>u. at'[cur'] # "unseen" => UnseenInv'
  BY DEF UnseenInv
<1>w. NoLostWakeup
  BY DEF WakeInv
<1>progress. noted' = Progress /\ mode' = "run" /\ at'[cur'] # "unseen" => WakeInv'
  BY <1>r, <1>u, ProgressWakes DEF WakeInv
\* Nobody blocks or wakes, and the objects stay.
<1>same. ASSUME objects' = objects, mode' = "run", UNCHANGED fiberVars, at'[cur] # "unseen",
                \A u \in Threads \ {cur} : at'[u] = at[u] /\ call'[u] = call[u]
         PROVE  WakeInv'
  <2>1. cur' = cur /\ fiber' = fiber /\ noted' = noted
    BY <1>same DEF fiberVars
  <2>2. ASSUME NEW u \in Threads, fiber'[u] = "Blocked"
        PROVE  fiber[u] = "Blocked" /\ call'[u] = call[u] /\ noted'[u] = noted[u]
    <3>1. u # cur
      BY <2>1, <2>2 DEF FlowInv
    <3> QED BY <1>same, <2>1, <2>2, <3>1
  <2>3. NoLostWakeup'
    BY <1>same, <1>w, <2>2, StillWakes
  <2> QED BY <1>r, <1>u, <1>same, <2>1, <2>3 DEF WakeInv
<1>1. ASSUME NEW c \in TitleCalls, StartCall(c) PROVE WakeInv'
  <2>1. /\ objects' = objects /\ mode' = "run" /\ UNCHANGED fiberVars
        /\ at' = [at EXCEPT ![cur] = "dispatch"] /\ call' = [call EXCEPT ![cur] = c]
    BY <1>1 DEF StartCall, Running
  <2>2. at'[cur] = "dispatch" /\ \A u \in Threads \ {cur} : at'[u] = at[u] /\ call'[u] = call[u]
    BY <1>t, <2>1 DEF ControlInv
  <2> QED BY <1>same, <2>1, <2>2
<1>2. ASSUME Preempt PROVE WakeInv'
  <2>0. /\ at[cur] = "guest" /\ mode = "run" /\ SwitchAway("Ready")
        /\ UNCHANGED <<objects, call, at, mode>>
    BY <1>2 DEF Preempt, Running
  <2>1. /\ cur' \in Threads /\ cur' # cur /\ at[cur'] \in {"guest", "retry", "timed"}
        /\ fiber'[cur] = "Ready"
        /\ \A u \in Threads : fiber'[u] = "Running" <=> u = cur'
        /\ \A u \in Threads : u # cur /\ u # cur' => fiber'[u] = fiber[u]
        /\ \A u \in Threads \ {cur} : noted'[u] = noted[u]
    BY <2>0, Switched
  <2>2. ASSUME NEW u \in Threads, fiber'[u] = "Blocked"
        PROVE  fiber[u] = "Blocked" /\ noted'[u] = noted[u]
    <3>1. u # cur /\ u # cur'
      BY <2>0, <2>1, <2>2
    <3> QED BY <2>0, <2>1, <2>2, <3>1
  <2>3. NoLostWakeup'
    BY <1>w, <2>0, <2>2, StillWakes
  <2> QED BY <1>r, <1>u, <2>0, <2>1, <2>3 DEF WakeInv
<1>3. ASSUME NEW e \in InterruptEvents, Interrupt(e) PROVE WakeInv'
  <2>1. noted' = Progress /\ mode' = "run" /\ at'[cur'] = "guest"
    BY <1>3 DEF Interrupt, Handler, Running
  <2> QED BY <1>progress, <2>1
<1>4. ASSUME NEW t \in Threads, DeadlinePasses(t) PROVE WakeInv'
  <2>1. /\ objects' = objects /\ mode' = "run" /\ UNCHANGED <<fiberVars, at, call>>
        /\ at'[cur] # "unseen"
    BY <1>4 DEF DeadlinePasses, Running
  <2> QED BY <1>same, <2>1
<1>ret. ASSUME Return, mode' = "run" PROVE WakeInv'
  <2>1. noted' = Progress /\ at' = [at EXCEPT ![cur] = "guest"] /\ cur' = cur
    BY <1>ret DEF Return
  <2>2. at'[cur'] # "unseen"
    BY <1>t, <2>1
  <2> QED BY <1>progress, <1>ret, <2>1, <2>2
<1>5. ASSUME Completes PROVE WakeInv'
  BY <1>5, <1>ret DEF Completes, Dispatching
<1>6. ASSUME Blocks PROVE WakeInv'
  <2>1. call[cur] \in TitleCalls /\ RestoredCaller = cur /\ mode = "run"
    BY <1>6, <1>c, Restored DEF Blocks, Dispatching
  <2>2. Block(objects) /\ ~CanComplete(objects, call[cur], cur)
    BY <1>6, <1>p, <2>1 DEF Blocks, CanReturn
  <2> QED BY <1>w, <2>1, <2>2, BlockWakes
<1>7. ASSUME StartsTimed PROVE WakeInv'
  <2>1. /\ objects' = objects /\ mode' = "run" /\ UNCHANGED <<fiberVars, call>>
        /\ at' = [at EXCEPT ![cur] = "timed"]
    BY <1>7 DEF StartsTimed, Dispatching
  <2>2. at'[cur] = "timed" /\ \A u \in Threads \ {cur} : at'[u] = at[u]
    BY <1>t, <2>1
  <2> QED BY <1>same, <2>1, <2>2
<1>8. ASSUME TimedCompletes PROVE WakeInv'
  BY <1>8, <1>ret DEF TimedCompletes, Rechecking
<1>d. at[cur] \in {"timed", "unseen"} => call[cur] \in TitleCalls /\ call[cur].timed
  BY <1>t, <1>c DEF FlowInv
<1>9. ASSUME TimedCompletesUnseen PROVE WakeInv'
  <2>0. /\ mode' = "run" /\ UNCHANGED <<call, fiberVars>> /\ at' = [at EXCEPT ![cur] = "unseen"]
        /\ objects' = After(objects, call[cur], caller)
        /\ CanComplete(objects, call[cur], caller) /\ at[cur] = "timed"
    BY <1>9 DEF TimedCompletesUnseen, Rechecking, Satisfied
  <2>1. call[cur] \in TitleCalls /\ call[cur].timed
    BY <1>d, <2>0
  <2>e. PICK e \in SynchronizationEvents : call[cur].objects = <<e>>
    BY <2>1 DEF TimedOnEvents
  <2>2. /\ objects' \in [Objects -> Header] /\ objects'[e].signal = 0
        /\ \A o \in Objects \ {e} : objects'[o] = objects[o]
    BY <1>t, <2>0, <2>1, <2>e, TimedOnOne
  <2>3. e \in Events
    BY DEF Events
  <2>4. cur' = cur /\ fiber' = fiber /\ noted' = noted
    BY <2>0 DEF fiberVars
  <2>5. ASSUME NEW u \in Threads, fiber'[u] = "Blocked"
        PROVE  /\ fiber[u] = "Blocked" /\ noted'[u] = noted[u]
               /\ CanComplete(objects', call'[u], u) => CanComplete(objects, call[u], u)
    <3>1. u # cur
      BY <2>4, <2>5 DEF FlowInv
    <3>2. fiber[u] = "Blocked" /\ call'[u] = call[u]
      BY <2>0, <2>4, <2>5
    <3>3. call[u] \in TitleCalls
      BY <3>2 DEF FlowInv, ControlInv
    <3>4. CanComplete(objects', call[u], u) => CanComplete(objects, call[u], u)
      BY <2>2, <2>3, <3>3, ResetLowers
    <3> QED BY <2>4, <2>5, <3>2, <3>4
  <2>6. NoLostWakeup'
    BY <1>w, <2>5, StillWakes
  <2>7. ~CanComplete(objects', call[cur], cur)
    <3>1. CanComplete(objects', call[cur], cur) <=> objects'[e].signal > 0
      BY <2>1, <2>2, <2>e, TimedOnOne
    <3> QED BY <2>2, <3>1
  <2>8. UnseenInv'
    BY <2>0, <2>4, <2>7 DEF UnseenInv
  <2> QED BY <1>r, <2>0, <2>6, <2>8 DEF WakeInv
<1>10. ASSUME UnseenBlocks PROVE WakeInv'
  <2>1. mode = "run" /\ at[cur] = "unseen" /\ Block(objects)
    BY <1>10 DEF UnseenBlocks
  <2>2. ~CanComplete(objects, call[cur], cur)
    BY <2>1 DEF WakeInv, UnseenInv
  <2> QED BY <1>w, <2>1, <2>2, BlockWakes
<1>n. ASSUME Rechecking, ~Satisfied PROVE ~CanComplete(objects, call[cur], cur)
  <2>1. call[cur] \in TitleCalls /\ call[cur].timed
    BY <1>d, <1>n DEF Rechecking
  <2>2. PICK e \in SynchronizationEvents : call[cur].objects = <<e>>
    BY <2>1 DEF TimedOnEvents
  <2>3. \A t : CanComplete(objects, call[cur], t) <=> objects[e].signal > 0
    BY <2>1, <2>2, TimedOnOne
  <2> QED BY <1>n, <2>3 DEF Satisfied
<1>11. ASSUME TimedElapses PROVE WakeInv'
  <2>1. CASE Return /\ UNCHANGED mode
    BY <1>11, <1>ret, <2>1 DEF TimedElapses, Rechecking
  <2>2. CASE Block(objects)
    <3>1. mode = "run" /\ ~CanComplete(objects, call[cur], cur)
      BY <1>11, <1>n DEF TimedElapses, Rechecking
    <3> QED BY <1>w, <2>2, <3>1, BlockWakes
  <2> QED BY <1>11, <2>1, <2>2 DEF TimedElapses
<1>12. ASSUME TimedSleeps PROVE WakeInv'
  <2>0. /\ at[cur] = "timed" /\ mode' = "run" /\ UNCHANGED <<call, at>>
    BY <1>12 DEF TimedSleeps, Rechecking
  <2>1. CASE SwitchAway("Blocked") /\ UNCHANGED objects
    <3>1. at' = [at EXCEPT ![cur] = "timed"]
      BY <1>t, <2>0
    <3>2. NoLostWakeup' /\ at'[cur'] # "unseen"
      BY <1>w, <1>12, <1>n, <2>0, <2>1, <3>1, SwitchWakes DEF TimedSleeps
    <3> QED BY <1>r, <1>u, <2>0, <3>2 DEF WakeInv
  <2>2. CASE Idle(objects)
    <3>1. cur' = cur /\ fiber' = fiber
      BY <2>2 DEF Idle
    <3>2. CASE noted' = Progress
      BY <1>progress, <2>0, <3>1, <3>2
    <3>3. CASE objects' = objects /\ UNCHANGED noted
      BY <1>same, <2>0, <3>1, <3>3 DEF fiberVars
    <3> QED BY <2>2, <3>2, <3>3 DEF Idle
  <2> QED BY <1>12, <2>1, <2>2 DEF TimedSleeps
<1>13. ASSUME UNCHANGED vars PROVE WakeInv'
  <2>1. UNCHANGED <<objects, call, at, fiber, noted, passed, cur, mode>>
    BY <1>13 DEF vars, fiberVars
  <2> QED BY <2>1 DEF WakeInv, NoLostWakeup, NobodyCanRun, UnseenInv
<1>14. Ended => UNCHANGED vars
  BY DEF Ended
<1> QED BY <1>1, <1>2, <1>3, <1>4, <1>5, <1>6, <1>7, <1>8, <1>9, <1>10, <1>11, <1>12, <1>13,
           <1>14 DEF Next

-----------------------------------------------------------------------------
(* The initial state *)

LEMMA InitiallyFree ==
    ASSUME Init, NEW o \in Objects
    PROVE  /\ objects[o].owner = Nobody /\ objects[o].depth = 0
           /\ o \in Events \cup Semaphores => objects[o].signal = 0
           /\ o \in Mutants => objects[o].signal = 1
           /\ o \in Sections \cup Locks => objects[o].signal = -1
           /\ \A t \in Threads : holds[t][o] = 0
<1>1. objects[o] = InitialObject(o)
  BY DEF Init
<1>2. o \in Mutants \cup Sections \cup Locks => o \notin Events \cup Semaphores
  BY KindsDisjoint
<1>3. o \in Sections \cup Locks => o \notin Mutants
  BY KindsDisjoint
<1> QED BY <1>1, <1>2, <1>3 DEF Init, InitialObject

LEMMA InitTypes ==
    ASSUME Init
    PROVE  DataInv /\ FlowInv
<1>1. objects \in [Objects -> Header]
  <2>1. \A o \in Objects : InitialObject(o) \in Header
    BY DEF InitialObject, Header
  <2> QED BY <2>1 DEF Init
<1>2. holds \in Holdings
  BY WaitsAssumption DEF Init, Holdings
<1>3. ControlInv
  BY DEF Init, ControlInv
<1>4. FlowInv
  BY DEF Init, FlowInv
<1> QED BY <1>1, <1>2, <1>3, <1>4 DEF DataInv

LEMMA InitKernel ==
    ASSUME Init
    PROVE  KernelInv /\ CountsInv /\ WakeInv
<1>1. DataInv /\ FlowInv
  BY InitTypes
<1>2. AllowedInv
  <2>1. \A t : AllowedFor(holds, t, NoCall)
    BY DEF AllowedFor, NoCall, CallOn
  <2>2. \A t \in Threads : call[t] = NoCall
    BY DEF Init
  <2> QED BY <2>1, <2>2 DEF AllowedInv
<1>3. \A o \in Mutants : MutantOk(objects[o], holds, o)
  BY InitiallyFree, KindsDisjoint DEF MutantOk, OnlyHolder
<1>4. \A o \in Sections : SectionOk(objects[o], holds, o)
  BY InitiallyFree, KindsDisjoint DEF SectionOk, OnlyHolder
<1>5. ASSUME NEW o \in Locks PROVE LockOk(objects[o], holds, o)
  <2>1. /\ objects[o].signal = -1 /\ objects[o].depth = 0
        /\ \A t \in Threads : holds[t][o] = 0
    BY InitiallyFree, KindsDisjoint
  <2>2. Held1(holds, o) = {}
    BY <2>1, WaitsAssumption DEF Held1
  <2>3. Cardinality(Held1(holds, o)) = 0
    BY <2>2, FS_EmptySet
  <2> QED BY <2>1, <2>3 DEF LockOk
<1>6. CountsInv
  <2>1. \A o \in Events \cup Semaphores : objects[o].signal = 0
    BY InitiallyFree, KindsDisjoint
  <2>2. \A o \in Dispatchers : objects[o].depth = 0
    BY InitiallyFree DEF Objects
  <2> QED BY <2>1, <2>2, ObjectsAssumption DEF CountsInv, CountsOk
<1>7. WakeInv
  BY DEF Init, WakeInv, NoLostWakeup, NobodyCanRun, UnseenInv
<1> QED BY <1>1, <1>2, <1>3, <1>4, <1>5, <1>6, <1>7 DEF KernelInv, HeldInv, HeldOk

-----------------------------------------------------------------------------
(* The theorems *)

\* The objects, what the threads hold and where they are in their calls agree,
\* however the threads' calls are blocked, retried and interrupted.
THEOREM KernelInvHolds ==
    ASSUME SignalsNoMutant, TimedNotOnMutants
    PROVE  Spec => []KernelInv
<1>1. Init => KernelInv
  BY InitKernel
<1>2. KernelInv /\ [Next]_vars => KernelInv'
  <2> SUFFICES ASSUME KernelInv, [Next]_vars PROVE KernelInv'
    OBVIOUS
  <2>1. ControlInv' /\ FlowInv'
    BY FlowStep DEF KernelInv, DataInv
  <2>2. objects' \in [Objects -> Header] /\ holds' \in Holdings /\ HeldInv' /\ AllowedInv'
    BY HoldersStep
  <2> QED BY <2>1, <2>2 DEF KernelInv, DataInv
<1> QED BY <1>1, <1>2, PTL DEF Spec

\* HoldersAgree, of KernelWaits: nobody holds what another does, and every
\* count says how often, if no mutant is waited for with a timeout or signalled
\* by a signal-and-wait.
THEOREM HoldersAgreeHolds ==
    ASSUME SignalsNoMutant, TimedNotOnMutants
    PROVE  Spec => []HoldersAgree
<1>1. KernelInv => HoldersAgree
  <2> SUFFICES ASSUME KernelInv PROVE HoldersAgree
    OBVIOUS
  <2>0. /\ \A o \in Mutants : MutantOk(objects[o], holds, o)
        /\ \A o \in Sections : SectionOk(objects[o], holds, o)
        /\ \A o \in Locks : LockOk(objects[o], holds, o)
    BY DEF KernelInv, HeldInv, HeldOk
  <2>1. ASSUME NEW o \in Mutants, NEW t \in Threads, holds[t][o] > 0
        PROVE  objects[o].owner = t /\ holds[t][o] = 1 - objects[o].signal
    BY <2>0, <2>1, ObjectsAssumption DEF MutantOk, OnlyHolder
  <2>2. ASSUME NEW o \in Sections, NEW t \in Threads, holds[t][o] > 0
        PROVE  objects[o].owner = t /\ holds[t][o] = objects[o].depth
    BY <2>0, <2>2, ObjectsAssumption DEF SectionOk, OnlyHolder
  <2>3. \A o \in Sections : o \notin Mutants
    BY KindsDisjoint
  <2>4. \A o \in Locks :
          LET total == Cardinality({h \in Threads \X (1 .. MaxDepth) : h[2] <= holds[h[1]][o]})
          IN  /\ total = objects[o].signal + 1
              /\ objects[o].depth \in {0, total}
              /\ objects[o].depth = 0 => total <= 1
    BY <2>0, Zenon DEF LockOk, Held1
  <2>5. \A o \in Mutants \cup Sections, t \in Threads :
          holds[t][o] > 0 => /\ objects[o].owner = t
                             /\ holds[t][o] = IF o \in Mutants THEN 1 - objects[o].signal
                                              ELSE objects[o].depth
    BY <2>1, <2>2, <2>3
  <2> QED BY <2>4, <2>5, Zenon DEF HoldersAgree
<1> QED BY <1>1, KernelInvHolds, PTL

\* Without signal-and-wait no mutant is signalled by one.
LEMMA NoneSignalsNone ==
    ASSUME NoSignalAndWait
    PROVE  SignalsNoMutant
<1>1. NoObject \notin Mutants
  BY ObjectsAssumption DEF Objects, Dispatchers
<1> QED BY <1>1 DEF NoSignalAndWait, SignalsNoMutant

\* ... and events stay set or reset, and semaphores within their limit, if no
\* signal-and-wait is called.
THEOREM CountsInvHolds ==
    ASSUME NoSignalAndWait, TimedNotOnMutants
    PROVE  Spec => [](KernelInv /\ CountsInv)
<1>1. Spec => []KernelInv
  BY KernelInvHolds, NoneSignalsNone
<1>2. Init => CountsInv
  BY InitKernel
<1>3. KernelInv /\ CountsInv /\ [Next]_vars => CountsInv'
  BY CountsStep DEF KernelInv
<1> QED BY <1>1, <1>2, <1>3, PTL DEF Spec

LEMMA CountsInRange ==
    ASSUME KernelInv, CountsInv, NEW o \in Objects
    PROVE  /\ objects[o].signal \in -MaxDepth .. Limit + MaxDepth * Cardinality(Threads)
           /\ objects[o].depth \in Nat
<1> DEFINE most == MaxDepth * Cardinality(Threads)
<1>1. /\ objects[o].signal \in Int /\ objects[o].depth \in Int
      /\ \A t \in Threads : holds[t][o] \in 0 .. MaxDepth
  BY HeaderFields DEF KernelInv, DataInv, Holdings
<1>2. MaxDepth \in Nat \ {0} /\ Limit \in Nat \ {0}
  BY WaitsAssumption, ObjectsAssumption
<1>3. Cardinality(Threads) \in Nat \ {0}
  <2>1. IsFiniteSet(Threads) /\ Threads # {}
    BY WaitsAssumption DEF KernelInv, DataInv, ControlInv
  <2> QED BY <2>1, FS_EmptySet, FS_CardinalityType
<1>4. most \in Nat /\ most >= MaxDepth
  BY <1>2, <1>3
<1> HIDE DEF most
<1>5. CASE o \in Dispatchers
  <2>1. objects[o].depth = 0
    BY <1>5 DEF CountsInv, CountsOk
  <2>2. o \in Mutants => MutantOk(objects[o], holds, o)
    BY DEF KernelInv, HeldInv, HeldOk
  <2>3. o \in Mutants => objects[o].signal \in -MaxDepth .. Limit + most
    BY <1>1, <1>2, <1>4, <2>2 DEF MutantOk
  <2>4. o \notin Mutants => objects[o].signal \in {0, 1} \/ objects[o].signal \in 0 .. Limit
    BY <1>5 DEF CountsInv, CountsOk, Dispatchers
  <2> QED BY <1>2, <1>4, <2>1, <2>3, <2>4 DEF most
<1>6. CASE o \in Sections
  <2>1. SectionOk(objects[o], holds, o)
    BY <1>6 DEF KernelInv, HeldInv, HeldOk
  <2> QED BY <1>1, <1>2, <1>4, <2>1 DEF SectionOk, most
<1>7. CASE o \in Locks
  <2>1. LockOk(objects[o], holds, o)
    BY <1>7 DEF KernelInv, HeldInv, HeldOk
  <2>2. Cardinality(Held1(holds, o)) \in Nat /\ Cardinality(Held1(holds, o)) <= most
    BY HeldCounted DEF most
  <2>3. /\ objects[o].signal = Cardinality(Held1(holds, o)) - 1
        /\ objects[o].depth \in {0, Cardinality(Held1(holds, o))}
    BY <1>1, <2>1, <2>2 DEF LockOk
  <2> QED BY <1>1, <1>2, <1>4, <2>2, <2>3 DEF most
<1> QED BY <1>5, <1>6, <1>7 DEF Objects

\* TypeOK, of KernelWaits: no count leaves its range, whatever mix of waits,
\* releases, recursion and refused calls a title makes, if it calls no
\* signal-and-wait, which counts past the limit, and waits for no mutant with a
\* timeout.
THEOREM TypeOKHolds ==
    ASSUME NoSignalAndWait, TimedNotOnMutants
    PROVE  Spec => []TypeOK
<1>1. KernelInv /\ CountsInv => TypeOK
  <2> SUFFICES ASSUME KernelInv, CountsInv PROVE TypeOK
    OBVIOUS
  <2>1. objects \in [Objects -> Header] /\ ControlInv /\ holds \in Holdings
    BY DEF KernelInv, DataInv
  <2>2. objects \in [Objects -> [signal : -MaxDepth .. Limit + MaxDepth * Cardinality(Threads),
                                 owner : Threads \cup {Nobody},
                                 depth : Nat]]
    <3>1. ASSUME NEW o \in Objects
          PROVE  objects[o] \in [signal : -MaxDepth .. Limit + MaxDepth * Cardinality(Threads),
                                 owner : Threads \cup {Nobody},
                                 depth : Nat]
      <4>1. objects[o] \in [signal : Int, owner : Threads \cup {Nobody}, depth : Int]
        BY <2>1 DEF Header
      <4>2. /\ objects[o].signal \in -MaxDepth .. Limit + MaxDepth * Cardinality(Threads)
            /\ objects[o].depth \in Nat
        BY CountsInRange
      <4> QED BY <4>1, <4>2
    <3> QED BY <2>1, <3>1
  <2>3. /\ \A o \in Semaphores : objects[o].signal \in 0 .. Limit
        /\ \A o \in Events : objects[o].signal \in {0, 1}
    BY DEF CountsInv, CountsOk
  <2> QED BY <2>1, <2>2, <2>3 DEF TypeOK, ControlInv, Holdings
<1> QED BY <1>1, CountsInvHolds, PTL

\* WaitsAgree, of KernelWaits: no wakeup is lost, when a deadlock is reported
\* nobody can go on but by a deadline to come, and the holders agree, for every title that calls no signal-and-wait and
\* waits with a timeout only for a single event.
THEOREM WaitsAgreeHolds ==
    ASSUME NoSignalAndWait, TimedOnEvents
    PROVE  Spec => []WaitsAgree
<1>0. SignalsNoMutant
  BY NoneSignalsNone
<1>1. TimedNotOnMutants
  <2> SUFFICES ASSUME NEW c \in TitleCalls, c.timed, NEW i \in DOMAIN c.objects
               PROVE  c.objects[i] \notin Mutants
    BY DEF TimedNotOnMutants
  <2>1. PICK e \in SynchronizationEvents : c.objects = <<e>>
    BY DEF TimedOnEvents
  <2>2. e \in Events
    BY DEF Events
  <2>3. e \notin Mutants
    BY <2>2, KindsDisjoint
  <2> QED BY <2>1, <2>3
<1>2. Spec => []KernelInv
  BY <1>0, <1>1, KernelInvHolds
<1>3. Spec => []HoldersAgree
  BY <1>0, <1>1, HoldersAgreeHolds
<1>4. Init => WakeInv
  BY InitKernel
<1>5. KernelInv /\ WakeInv /\ [Next]_vars => WakeInv'
  BY WakeStep DEF KernelInv
<1>6. WakeInv /\ HoldersAgree => WaitsAgree
  BY DEF WakeInv, WaitsAgree
<1> QED BY <1>2, <1>3, <1>4, <1>5, <1>6, PTL DEF Spec

-----------------------------------------------------------------------------
(* The calls the title sees *)

LEMMA NothingSignalled ==
    ASSUME NoSignalAndWait, NEW c \in TitleCalls \cup {NoCall}
    PROVE  [c EXCEPT !.signal = NoObject] = c
<1>1. c.signal = NoObject
  BY DEF NoSignalAndWait, NoCall, CallOn
<1>2. \E op, s, a, t, g : c = CallOn(op, s, a, t, g)
  <2>1. CASE c \in TitleCalls
    <3>1. WellFormed(c)
      BY <2>1, WaitsAssumption
    <3> QED BY <3>1 DEF WellFormed, Plain
  <2> QED BY <2>1 DEF NoCall
<1>3. PICK op, s, a, t, g : c = CallOn(op, s, a, t, g)
  BY <1>2
<1> QED BY <1>1, <1>3 DEF CallOn

LEMMA PendingIsCall ==
    ASSUME NoSignalAndWait, ControlInv
    PROVE  Pending = call
<1>1. \A t \in Threads : [call[t] EXCEPT !.signal = NoObject] = call[t]
  BY NothingSignalled DEF ControlInv
<1>2. Pending = [t \in Threads |-> call[t]]
  BY <1>1, Zenon DEF Pending
<1> QED BY <1>2 DEF ControlInv

LEMMA SameNoCall ==
    Lenient!NoCall = NoCall
  BY DEF Lenient!NoCall, Lenient!CallOn, NoCall, CallOn

LEMMA InitRefines ==
    ASSUME Init, NoSignalAndWait
    PROVE  Lenient!Init
<1>1. Pending = call
  BY InitTypes, PendingIsCall DEF DataInv
<1>2. objects = [o \in Objects |-> InitialObject(o)] /\ call = [t \in Threads |-> NoCall]
  BY DEF Init
<1>3. Lenient!Objects = Objects /\ \A o : Lenient!InitialObject(o) = InitialObject(o)
  BY Zenon DEF Lenient!Objects, Objects, Lenient!Dispatchers, Dispatchers, Lenient!Events, Events,
       Lenient!InitialObject, InitialObject
<1> QED BY <1>1, <1>2, <1>3, SameNoCall, Zenon DEF Lenient!Init

\* Every step is the title's: a call begins, takes effect and ends, or ends
\* without effect; a timed wait takes effect; an interrupt; or nothing.
AbstractStep ==
    \/ \E c \in TitleCalls : /\ call[cur] = NoCall /\ objects' = objects
                             /\ call' = [call EXCEPT ![cur] = c]
    \/ /\ call[cur] # NoCall /\ CanComplete(Presignaled(objects, call[cur]), call[cur], cur)
       /\ objects' = After(Presignaled(objects, call[cur]), call[cur], cur)
       /\ call' = [call EXCEPT ![cur] = NoCall]
    \/ call[cur].timed /\ objects' = objects /\ call' = [call EXCEPT ![cur] = NoCall]
    \/ /\ call[cur].timed /\ CanComplete(objects, call[cur], caller)
       /\ objects' = After(objects, call[cur], caller)
       /\ call' = call \/ call' = [call EXCEPT ![cur] = NoCall]
    \/ \E e \in InterruptEvents : objects' = [objects EXCEPT ![e].signal = 1] /\ call' = call
    \/ objects' = objects /\ call' = call

LEMMA AbstractStepRefines ==
    ASSUME ControlInv, ControlInv', NoSignalAndWait, AbstractStep
    PROVE  [Lenient!Next]_Lenient!vars
<1>p. Pending = call /\ Pending' = call'
  <2>1. Pending = call
    BY PendingIsCall
  <2>2. \A t \in Threads : [call'[t] EXCEPT !.signal = NoObject] = call'[t]
    BY NothingSignalled DEF ControlInv
  <2>3. Pending' = [t \in Threads |-> call'[t]]
    BY <2>2, Zenon DEF Pending
  <2>4. Pending' = call'
    BY <2>3 DEF ControlInv
  <2> QED BY <2>1, <2>4
<1>t. cur \in Threads /\ caller \in Threads
  BY DEF ControlInv
<1>n. Lenient!NoCall = NoCall
  BY SameNoCall
<1>1. CASE \E c \in TitleCalls : /\ call[cur] = NoCall /\ objects' = objects
                                 /\ call' = [call EXCEPT ![cur] = c]
  <2>1. Lenient!Begin(cur)
    BY <1>1, <1>p, <1>n, Zenon DEF Lenient!Begin
  <2> QED BY <1>t, <2>1 DEF Lenient!Next
<1>2. CASE /\ call[cur] # NoCall /\ CanComplete(Presignaled(objects, call[cur]), call[cur], cur)
           /\ objects' = After(Presignaled(objects, call[cur]), call[cur], cur)
           /\ call' = [call EXCEPT ![cur] = NoCall]
  <2>1. Lenient!Complete(cur)
    BY <1>2, <1>p, <1>n, SameObjects, Zenon DEF Lenient!Complete
  <2> QED BY <1>t, <2>1 DEF Lenient!Next
<1>3. CASE call[cur].timed /\ objects' = objects /\ call' = [call EXCEPT ![cur] = NoCall]
  <2>1. Lenient!TimeOut(cur)
    BY <1>3, <1>p, <1>n, Zenon DEF Lenient!TimeOut
  <2> QED BY <1>t, <2>1 DEF Lenient!Next
<1>4. CASE /\ call[cur].timed /\ CanComplete(objects, call[cur], caller)
           /\ objects' = After(objects, call[cur], caller)
           /\ call' = call \/ call' = [call EXCEPT ![cur] = NoCall]
  <2>1. Lenient!CanComplete(objects, Pending[cur], caller)
        /\ objects' = Lenient!After(objects, Pending[cur], caller)
    BY <1>4, <1>p, SameObjects, Zenon
  <2>2. Lenient!Repeat(cur)
    BY <1>4, <1>p, <1>n, <1>t, <2>1, Zenon DEF Lenient!Repeat
  <2> QED BY <1>t, <2>2 DEF Lenient!Next
<1>5. CASE \E e \in InterruptEvents : objects' = [objects EXCEPT ![e].signal = 1] /\ call' = call
  BY <1>5, <1>p DEF Lenient!Next, Lenient!Interrupt
<1>6. CASE objects' = objects /\ call' = call
  BY <1>6, <1>p DEF Lenient!vars
<1> QED BY <1>1, <1>2, <1>3, <1>4, <1>5, <1>6 DEF AbstractStep

LEMMA StepIsAbstract ==
    ASSUME ControlInv, FlowInv, NoSignalAndWait, [Next]_vars
    PROVE  AbstractStep
<1>c. at[cur] # "guest" => call[cur] \in TitleCalls /\ call[cur] # NoCall
  BY InCall
<1>d. at[cur] \in {"timed", "unseen"} => call[cur].timed
  BY DEF FlowInv, ControlInv
<1>i. IdleObjects(objects) /\ call' = call => AbstractStep
  BY DEF IdleObjects, AbstractStep
<1>u. objects' = objects /\ call' = call => AbstractStep
  BY DEF AbstractStep
<1>b. Block(objects) \/ Idle(objects) => IdleObjects(objects)
  BY DEF Block, Idle, IdleObjects
<1>1. ASSUME NEW c \in TitleCalls, StartCall(c) PROVE AbstractStep
  <2>1. call[cur] = NoCall
    BY <1>1 DEF StartCall, Running, FlowInv, ControlInv
  <2> QED BY <1>1, <2>1 DEF StartCall, AbstractStep
<1>2. ASSUME Preempt PROVE AbstractStep
  BY <1>2, <1>u DEF Preempt
<1>3. ASSUME NEW e \in InterruptEvents, Interrupt(e) PROVE AbstractStep
  BY <1>3 DEF Interrupt, Handler, AbstractStep
<1>4. ASSUME NEW t \in Threads, DeadlinePasses(t) PROVE AbstractStep
  BY <1>4, <1>u DEF DeadlinePasses
<1>5. ASSUME Completes PROVE AbstractStep
  <2>1. RestoredCaller = cur /\ call[cur] # NoCall
    BY <1>5, <1>c, Restored DEF Completes, Dispatching
  <2> QED BY <1>5, <2>1, Zenon DEF Completes, CanReturn, TakesEffect, Return, AbstractStep
<1>6. ASSUME Blocks PROVE AbstractStep
  <2>1. Presignaled(objects, call[cur]) = objects
    BY <1>6, <1>c, NoPresignal DEF Blocks, Dispatching
  <2>2. call' = call
    BY <1>6 DEF Blocks, Block
  <2> QED BY <1>6, <1>i, <1>b, <2>1, <2>2 DEF Blocks
<1>7. ASSUME StartsTimed PROVE AbstractStep
  BY <1>7, <1>u DEF StartsTimed
<1>8. ASSUME TimedCompletes PROVE AbstractStep
  <2>1. call[cur].timed /\ CanComplete(objects, call[cur], caller)
    BY <1>8, <1>d DEF TimedCompletes, Rechecking, Satisfied
  <2>2. objects' = After(objects, call[cur], caller) /\ call' = [call EXCEPT ![cur] = NoCall]
    BY <1>8 DEF TimedCompletes, TakesEffect, Return
  <2> QED BY <2>1, <2>2, Zenon DEF AbstractStep
<1>9. ASSUME TimedCompletesUnseen PROVE AbstractStep
  <2>1. call[cur].timed /\ CanComplete(objects, call[cur], caller)
    BY <1>9, <1>d DEF TimedCompletesUnseen, Rechecking, Satisfied
  <2>2. objects' = After(objects, call[cur], caller) /\ call' = call
    BY <1>9 DEF TimedCompletesUnseen
  <2> QED BY <2>1, <2>2, Zenon DEF AbstractStep
<1>10. ASSUME UnseenBlocks PROVE AbstractStep
  <2>1. call' = call
    BY <1>10 DEF UnseenBlocks, Block
  <2> QED BY <1>10, <1>i, <1>b, <2>1 DEF UnseenBlocks
<1>11. ASSUME TimedElapses PROVE AbstractStep
  <2>1. CASE Return /\ UNCHANGED objects
    <3>1. call[cur].timed
      BY <1>11, <1>d DEF TimedElapses, Rechecking
    <3> QED BY <2>1, <3>1 DEF Return, AbstractStep
  <2>2. CASE Block(objects)
    <3>1. call' = call
      BY <2>2 DEF Block
    <3> QED BY <1>i, <1>b, <2>2, <3>1
  <2> QED BY <1>11, <2>1, <2>2 DEF TimedElapses
<1>12. ASSUME TimedSleeps PROVE AbstractStep
  BY <1>12, <1>u, <1>i, <1>b DEF TimedSleeps
<1>13. ASSUME UNCHANGED vars PROVE AbstractStep
  BY <1>13, <1>u DEF vars
<1>14. Ended => UNCHANGED vars
  BY DEF Ended
<1> QED BY <1>1, <1>2, <1>3, <1>4, <1>5, <1>6, <1>7, <1>8, <1>9, <1>10, <1>11, <1>12, <1>13,
           <1>14 DEF Next

\* UntimedExactlyOnce, of KernelWaits: what the title sees of the dispatcher is
\* KernelCalls.  However often a call is dispatched, it takes effect once, as
\* the thread that made it, and only timed waits may repeat; no assumption but
\* that no signal-and-wait is called.
THEOREM UntimedExactlyOnceHolds ==
    ASSUME NoSignalAndWait
    PROVE  Spec => UntimedExactlyOnce
<1>1. Init => Lenient!Init
  BY InitRefines
<1>2. Init => ControlInv /\ FlowInv
  BY InitTypes DEF DataInv
<1>3. ControlInv /\ FlowInv /\ [Next]_vars => ControlInv' /\ FlowInv'
  BY FlowStep
<1>4. ControlInv /\ FlowInv /\ ControlInv' /\ [Next]_vars => [Lenient!Next]_Lenient!vars
  BY StepIsAbstract, AbstractStepRefines
<1> QED BY <1>1, <1>2, <1>3, <1>4, PTL DEF Spec, UntimedExactlyOnce, Lenient!Spec
=============================================================================
