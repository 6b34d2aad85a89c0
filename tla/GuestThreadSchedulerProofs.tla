--------------------- MODULE GuestThreadSchedulerProofs ---------------------
(***************************************************************************)
(* That a slice runs its own thread, on its own context, from where it was *)
(* and with current code, and that the scheduler accounts for what it ran: *)
(* for any number of threads, functions, continuation slots, generations   *)
(* and quanta, and any size of the cache of compiled modules.              *)
(***************************************************************************)
EXTENDS GuestThreadScheduler, DataLemmas

-----------------------------------------------------------------------------
(* The inductive invariant *)

Outcomes == {"none", "exit", "fail", "return", "yield"}
Described == [fn : Functions, gen : 1 .. MaxGen, tier : {"callable", "cfg"}]
\* Modules with the code of the one translation.
AsTranslated == {m \in Compiled : m.code = Translated}

Activities == [at : Steps, once : BOOLEAN, thread : Threads \cup {0}, want : SUBSET Described,
               todo : SUBSET Described, got : SUBSET AsTranslated, out : Outcomes]
Counts == 0 .. Quanta - 1

ThreadTypes ==
    /\ life \in [Threads -> {"none", "ready", "running", "dead"}]
    /\ current \in Threads \cup {0}
    /\ live \in Contexts
    /\ snapshots \in [Threads -> Contexts]
    /\ lastBlocker \in Threads \cup {0}
    /\ done \in [Threads -> Counts] /\ base \in [Threads -> Counts]

LoopTypes ==
    /\ loop \in [Loops -> Activities]
    /\ running \in BOOLEAN /\ paused \in BOOLEAN

\* A function that is callable has not been written since it was translated.
SessionInv ==
    /\ gen \in [Functions -> 1 .. MaxGen]
    /\ callable \subseteq Functions /\ cfgFn \in Functions \cup {Nothing}
    /\ \A f \in callable : gen[f] = Translated
    /\ records \subseteq AsTranslated
    /\ modules \in Seq(AsTranslated) /\ Len(modules) <= CacheLimit

Conts == [held : SUBSET [owner : Owners, slot : Slots], next : 0 .. CfgSlots,
          slot : [Slots -> Counts]]

\* Slots are numbered in the order in which they were given out.
GoodCont(c) ==
    /\ c \in Conts
    /\ \A h \in c.held : h.slot < c.next
    /\ \A h, i \in c.held : h.slot = i.slot \/ h.owner = i.owner => h = i

\* What owner o finds in its slot: nothing yet, if it has none.
ValueOf(c, o) == IF Holds(c, o) THEN c.slot[SlotOf(c, o)] ELSE 0

OneLoop ==
    /\ \A l \in Loops : loop[l].at = "off" => loop[l] = Idle
    /\ \A l, m \in Loops : l # m => loop[l].at = "off" \/ loop[m].at = "off"

\* What thread t has in its context when its slice runs.
OwnOf(t) == [of |-> t, n |-> done[t]]

InSlice(l) == loop[l].at \in {"refresh", "ran"}

SliceInv(l) ==
    /\ InSlice(l) => loop[l].thread \in Threads /\ live = OwnOf(loop[l].thread)
    /\ loop[l].at = "refresh" => life[loop[l].thread] # "dead"
    /\ loop[l].at = "ran" =>
        /\ loop[l].out # "none"
        /\ life[loop[l].thread] = "dead" => loop[l].out = "exit"

\* While functions are loaded no generation moves, as no guest code runs.
RefreshInv(l) ==
    loop[l].at = "refresh" =>
        /\ loop[l].want = Descriptors /\ loop[l].todo \subseteq loop[l].want
        /\ loop[l].want = RegistryKey => loop[l].todo = {}
        /\ loop[l].want # RegistryKey =>
              {Uncompiled(m) : m \in loop[l].got} \cup loop[l].todo = loop[l].want

HasRunNow(t) == \E l \in Loops : loop[l].at = "ran" /\ loop[l].thread = t

\* A thread that is not in a slice has its context in its snapshot.
SnapshotInv ==
    \A t \in Threads :
        \/ snapshots[t] = Reset /\ done[t] = 0
        \/ snapshots[t] = OwnOf(t)
        \/ HasRunNow(t)

Resumable(t) == cfgFn = Entry[t] /\ cfgFn \notin callable

\* The thread has returned from the function it started in.
HasReturned(t) == \E l \in Loops : loop[l].at = "ran" /\ loop[l].thread = t /\ loop[l].out = "return"

\* A continuation holds the quanta that its thread has run since it was cleared.
ContinuationInv ==
    /\ GoodCont(cont)
    /\ \A t \in Threads :
        /\ ~Resumable(t) => done[t] = 0 /\ base[t] = 0
        /\ life[t] # "dead" /\ ~HasReturned(t) =>
              ValueOf(cont, Owner(Entry[t], t)) = (done[t] + Quanta - base[t]) % Quanta

CountInv == completed \in Nat /\ CompletedAreDead

SchedulerInv ==
    /\ ThreadTypes /\ LoopTypes /\ SessionInv /\ OneLoop
    /\ \A l \in Loops : SliceInv(l) /\ RefreshInv(l)
    /\ SnapshotInv /\ ContinuationInv /\ OwnContext /\ OwnContinuation /\ OnlyCfgIsStale
    /\ RunningIsDriven /\ CountInv
-----------------------------------------------------------------------------
(* Continuation slots *)

\* The slot of an owner is the one it was given.
LEMMA SlotIsGiven ==
    ASSUME NEW c, GoodCont(c), NEW h \in c.held
    PROVE  Holds(c, h.owner) /\ SlotOf(c, h.owner) = h.slot /\ ValueOf(c, h.owner) = c.slot[h.slot]
<1>1. \A i \in c.held : i.owner = h.owner => i = h
  BY DEF GoodCont, Conts
<1>2. (CHOOSE i \in c.held : i.owner = h.owner) = h
  BY <1>1
<1>3. Holds(c, h.owner)
  BY DEF Holds
<1> QED BY <1>2, <1>3 DEF SlotOf, ValueOf

\* Whoever holds a slot has been given one.
LEMMA HolderHasSlot ==
    ASSUME NEW c, NEW o, GoodCont(c), Holds(c, o)
    PROVE  \E h \in c.held : h.owner = o /\ h.owner \in Owners /\ h.slot \in Slots /\ h.slot < c.next
                             /\ SlotOf(c, o) = h.slot /\ ValueOf(c, o) = c.slot[h.slot]
<1>1. PICK h \in c.held : h.owner = o
  BY DEF Holds
<1>2. h.slot \in Slots /\ h.owner \in Owners /\ h.slot < c.next
  <2>1. c.held \subseteq [owner : Owners, slot : Slots]
    BY DEF GoodCont, Conts
  <2>2. h.slot < c.next
    BY DEF GoodCont, Conts
  <2> QED BY <2>1, <2>2
<1> QED BY <1>1, <1>2, SlotIsGiven

\* An owner that gets a slot finds nothing in it; the others keep theirs.
LEMMA AcquiringKeeps ==
    ASSUME NEW c, NEW o \in Owners, GoodCont(c), CanAcquire(c, o)
    PROVE  /\ GoodCont(Acquired(c, o)) /\ Holds(Acquired(c, o), o)
           /\ \A p \in Owners : ValueOf(Acquired(c, o), p) = ValueOf(c, p)
<1>0. CfgSlots \in Nat /\ Quanta \in Nat \ {0} /\ c \in Conts
  BY SessionAssumption DEF GoodCont, Conts
<1>1. CASE Holds(c, o)
  BY <1>1 DEF Acquired
<1>2. CASE ~Holds(c, o)
  <2> DEFINE a == Acquired(c, o)
             new == [owner |-> o, slot |-> c.next]
  <2>1. /\ a.held = c.held \cup {new} /\ a.next = c.next + 1
        /\ a.slot = [c.slot EXCEPT ![c.next] = 0]
        /\ a = [held |-> a.held, next |-> a.next, slot |-> a.slot]
    BY <1>2 DEF Acquired
  <2>2. c.next \in Slots /\ c.next + 1 \in 0 .. CfgSlots
    BY <1>0, <1>2 DEF CanAcquire, Conts, Slots
  <2>3. a \in Conts
    <3>1. new \in [owner : Owners, slot : Slots]
      BY <2>2
    <3>2. a.held \in SUBSET [owner : Owners, slot : Slots]
      BY <3>1, <2>1, <1>0 DEF Conts
    <3>3. a.slot \in [Slots -> Counts]
      <4>1. 0 \in Counts /\ c.slot \in [Slots -> Counts]
        BY <1>0 DEF Conts, Counts
      <4> HIDE DEF a
      <4> QED BY <4>1, <2>1
    <3> QED BY <3>2, <3>3, <2>1, <2>2 DEF Conts
  <2>4. \A h \in c.held : h.slot < c.next /\ h.slot \in Slots /\ h.owner # o
    <3>1. \A h \in c.held : h.slot < c.next /\ h.owner # o
      BY <1>2 DEF GoodCont, Conts, Holds
    <3> QED BY <3>1, <1>0 DEF Conts
  <2>5. \A h \in a.held : h.slot < a.next
    <3>1. \A h \in c.held : h.slot < c.next + 1
      BY <2>4, <2>2, <1>0 DEF Slots
    <3>2. new.slot < c.next + 1
      BY <2>2, <1>0 DEF Slots
    <3> QED BY <3>1, <3>2, <2>1
  <2>6. \A h, i \in a.held : h.slot = i.slot \/ h.owner = i.owner => h = i
    <3>1. \A h, i \in c.held : h.slot = i.slot \/ h.owner = i.owner => h = i
      BY DEF GoodCont, Conts
    <3>2. \A h \in c.held : h.slot # new.slot /\ h.owner # new.owner
      BY <2>4, <2>2, <1>0 DEF Slots
    <3> QED BY <3>1, <3>2, <2>1
  <2>7. GoodCont(a)
    BY <2>3, <2>5, <2>6 DEF GoodCont, Conts
  <2>8. Holds(a, o) /\ ValueOf(a, o) = 0
    <3>1. new \in a.held /\ new.owner = o /\ new.slot = c.next
      BY <2>1
    <3>2. Holds(a, o) /\ ValueOf(a, o) = a.slot[c.next]
      BY <3>1, <2>7, SlotIsGiven
    <3> QED BY <3>2, <2>1, <2>2, <1>0 DEF Conts
  <2>9. ASSUME NEW p \in Owners, p # o
        PROVE  ValueOf(a, p) = ValueOf(c, p)
    <3>1. CASE Holds(c, p)
      <4>1. PICK h \in c.held : h.owner = p /\ ValueOf(c, p) = c.slot[h.slot]
        BY <3>1, HolderHasSlot
      <4>2. ValueOf(a, p) = a.slot[h.slot]
        BY <4>1, <2>1, <2>7, SlotIsGiven
      <4>3. a.slot[h.slot] = c.slot[h.slot]
        BY <2>1, <2>4, <2>2, <4>1, <1>0 DEF Conts, Slots
      <4> QED BY <4>1, <4>2, <4>3
    <3>2. CASE ~Holds(c, p)
      <4>1. ~Holds(a, p)
        BY <3>2, <2>1, <2>9 DEF Holds
      <4> QED BY <4>1, <3>2 DEF ValueOf
    <3> QED BY <3>1, <3>2
  <2>10. ValueOf(c, o) = 0
    BY <1>2 DEF ValueOf
  <2> QED BY <2>7, <2>8, <2>9, <2>10
<1> QED BY <1>1, <1>2

\* Another value in the slot of one owner leaves the others theirs.
LEMMA OthersKeep ==
    ASSUME NEW c, NEW o \in Owners, NEW v \in Counts, GoodCont(c), Holds(c, o),
           NEW a, a = [c EXCEPT !.slot[SlotOf(c, o)] = v]
    PROVE  /\ GoodCont(a) /\ ValueOf(a, o) = v
           /\ \A p \in Owners \ {o} : ValueOf(a, p) = ValueOf(c, p)
<1>0. c \in Conts
  BY DEF GoodCont, Conts
<1>1. PICK g \in c.held : g.owner = o /\ g.slot \in Slots /\ SlotOf(c, o) = g.slot
  BY HolderHasSlot
<1>2. a.held = c.held /\ a.next = c.next /\ a.slot = [c.slot EXCEPT ![g.slot] = v] /\ a \in Conts
  BY <1>0, <1>1 DEF Conts
<1>3. GoodCont(a)
  BY <1>2 DEF GoodCont, Conts
<1>4. ValueOf(a, o) = v
  <2>1. ValueOf(a, o) = a.slot[g.slot]
    BY <1>1, <1>2, <1>3, SlotIsGiven
  <2> QED BY <2>1, <1>0, <1>1, <1>2 DEF Conts
<1>5. ASSUME NEW p \in Owners, p # o
      PROVE  ValueOf(a, p) = ValueOf(c, p)
  <2>1. CASE Holds(c, p)
    <3>1. PICK h \in c.held : h.owner = p /\ h.slot \in Slots /\ ValueOf(c, p) = c.slot[h.slot]
      BY <2>1, HolderHasSlot
    <3>2. ValueOf(a, p) = a.slot[h.slot]
      BY <3>1, <1>2, <1>3, SlotIsGiven
    <3>3. h.slot # g.slot
      BY <3>1, <1>1, <1>5 DEF GoodCont, Conts
    <3>4. a.slot[h.slot] = c.slot[h.slot]
      BY <3>1, <3>3, <1>0, <1>2 DEF Conts
    <3> QED BY <3>1, <3>2, <3>4
  <2>2. CASE ~Holds(c, p)
    BY <2>2, <1>2 DEF Holds, ValueOf
  <2> QED BY <2>1, <2>2
<1> QED BY <1>3, <1>4, <1>5

\* The function ran on: its own slot moves by one.
LEMMA AdvancingMoves ==
    ASSUME NEW c, NEW o \in Owners, GoodCont(c), Holds(c, o)
    PROVE  /\ GoodCont(Advanced(c, o))
           /\ ValueOf(Advanced(c, o), o) = (ValueOf(c, o) + 1) % Quanta
           /\ \A p \in Owners \ {o} : ValueOf(Advanced(c, o), p) = ValueOf(c, p)
<1> DEFINE v == (ValueOf(c, o) + 1) % Quanta
<1>1. v \in Counts
  <2>1. ValueOf(c, o) \in Counts
    <3>1. PICK h \in c.held : h.slot \in Slots /\ ValueOf(c, o) = c.slot[h.slot]
      BY HolderHasSlot
    <3>2. c.slot \in [Slots -> Counts]
      BY DEF GoodCont, Conts
    <3> QED BY <3>1, <3>2
  <2> QED BY <2>1, SessionAssumption DEF Counts
<1>2. ValueOf(c, o) = c.slot[SlotOf(c, o)]
  BY DEF ValueOf
<1>3. Advanced(c, o) = [c EXCEPT !.slot[SlotOf(c, o)] = v]
  BY <1>2 DEF Advanced
<1> HIDE DEF v
<1>4. /\ GoodCont(Advanced(c, o)) /\ ValueOf(Advanced(c, o), o) = v
      /\ \A p \in Owners \ {o} : ValueOf(Advanced(c, o), p) = ValueOf(c, p)
  BY <1>1, <1>3, OthersKeep
<1> QED BY <1>4 DEF v

\* A slot that is released is reset, and the others stay.
LEMMA ReleasingKeeps ==
    ASSUME NEW c, NEW o \in Owners, GoodCont(c), Holds(c, o)
    PROVE  /\ GoodCont(Released(c, o))
           /\ \A p \in Owners \ {o} : ValueOf(Released(c, o), p) = ValueOf(c, p)
<1> DEFINE b == [c EXCEPT !.slot[SlotOf(c, o)] = 0]
           a == Released(c, o)
<1>1. 0 \in Counts
  BY SessionAssumption DEF Counts
<1>2. GoodCont(b) /\ \A p \in Owners \ {o} : ValueOf(b, p) = ValueOf(c, p)
  <2> HIDE DEF b
  <2>1. b = [c EXCEPT !.slot[SlotOf(c, o)] = 0]
    BY DEF b
  <2> QED BY <1>1, <2>1, OthersKeep
<1>3. a.held = {h \in b.held : h.owner # o} /\ a.next = b.next /\ a.slot = b.slot /\ a \in Conts
  <2>1. c \in Conts /\ b \in Conts
    BY <1>2 DEF GoodCont, Conts
  <2> QED BY <2>1 DEF Released, Conts
<1> HIDE DEF a, b
<1>4. GoodCont(a)
  BY <1>2, <1>3 DEF GoodCont, Conts
<1>5. ASSUME NEW p \in Owners, p # o
      PROVE  ValueOf(a, p) = ValueOf(b, p)
  <2>1. CASE Holds(b, p)
    <3>1. PICK h \in b.held : h.owner = p /\ ValueOf(b, p) = b.slot[h.slot]
      BY <2>1, <1>2, HolderHasSlot
    <3>2. h \in a.held
      BY <3>1, <1>3, <1>5
    <3>3. ValueOf(a, p) = a.slot[h.slot]
      BY <3>1, <3>2, <1>4, SlotIsGiven
    <3> QED BY <3>1, <3>3, <1>3
  <2>2. CASE ~Holds(b, p)
    BY <2>2, <1>3 DEF Holds, ValueOf
  <2> QED BY <2>1, <2>2
<1> QED BY <1>2, <1>4, <1>5 DEF a

\* A call from generated code to a function of the CFG tier, whether it
\* returns or not, leaves the threads' own continuations alone.
LEMMA NestedCallKeeps ==
    ASSUME NEW c, NEW g \in Functions, GoodCont(c), CanAcquire(c, Owner(g, Nested))
    PROVE  /\ GoodCont(Returned(c, g)) /\ GoodCont(Stuck(c, g))
           /\ \A p \in Owners : p # Owner(g, Nested) =>
                 ValueOf(Returned(c, g), p) = ValueOf(c, p) /\ ValueOf(Stuck(c, g), p) = ValueOf(c, p)
<1> DEFINE o == Owner(g, Nested)
           a == Acquired(c, o)
<1>1. o \in Owners
  BY SessionAssumption DEF Owner, Owners
<1>2. Returned(c, g) = Released(a, o) /\ Stuck(c, g) = Advanced(a, o)
  BY DEF Returned, Stuck
<1> HIDE DEF o
<1>3. GoodCont(a) /\ Holds(a, o) /\ \A p \in Owners : ValueOf(a, p) = ValueOf(c, p)
  BY <1>1, AcquiringKeeps DEF o
<1> HIDE DEF a
<1>4. GoodCont(Released(a, o)) /\ \A p \in Owners \ {o} : ValueOf(Released(a, o), p) = ValueOf(a, p)
  BY <1>1, <1>3, ReleasingKeeps
<1>5. GoodCont(Advanced(a, o)) /\ \A p \in Owners \ {o} : ValueOf(Advanced(a, o), p) = ValueOf(a, p)
  BY <1>1, <1>3, AdvancingMoves
<1> QED BY <1>2, <1>3, <1>4, <1>5 DEF o

\* Continuations that were cleared hold nothing.
LEMMA ClearedHoldNothing ==
    GoodCont(NoContinuations) /\ \A p : ValueOf(NoContinuations, p) = 0
<1>1. 0 \in Counts /\ 0 \in 0 .. CfgSlots
  BY SessionAssumption DEF Counts
<1> QED BY <1>1 DEF GoodCont, Conts, NoContinuations, ValueOf, Holds

-----------------------------------------------------------------------------
(* The cache of compiled modules *)

\* What is removed from the cache leaves a cache.
LEMMA RemovingKeeps ==
    ASSUME NEW S, NEW s \in Seq(S), NEW i \in 1 .. Len(s)
    PROVE  SubSeq(s, 1, i - 1) \o SubSeq(s, i + 1, Len(s)) \in Seq(S)
<1>1. Len(s) \in Nat /\ \A j \in 1 .. Len(s) : s[j] \in S
  BY LenProperties, ElementOfSeq
<1>2. SubSeq(s, 1, i - 1) \in Seq(S)
  <2>1. 1 \in Int /\ i - 1 \in Int /\ \A j \in 1 .. i - 1 : s[j] \in S
    BY <1>1
  <2> QED BY <2>1, SubSeqProperties
<1>3. SubSeq(s, i + 1, Len(s)) \in Seq(S)
  <2>1. i + 1 \in Int /\ Len(s) \in Int /\ \A j \in i + 1 .. Len(s) : s[j] \in S
    BY <1>1
  <2> QED BY <2>1, SubSeqProperties
<1> QED BY <1>2, <1>3, ConcatProperties

\* The eldest modules are dropped until the limit is kept.
LEMMA DroppingKeeps ==
    ASSUME NEW S, NEW s \in Seq(S)
    PROVE  LET t == SubSeq(s, 1 + (IF Len(s) > CacheLimit THEN Len(s) - CacheLimit ELSE 0), Len(s))
           IN  t \in Seq(S) /\ Len(t) <= CacheLimit
<1> DEFINE a == 1 + (IF Len(s) > CacheLimit THEN Len(s) - CacheLimit ELSE 0)
<1>1. Len(s) \in Nat /\ CacheLimit \in Nat /\ \A j \in 1 .. Len(s) : s[j] \in S
  BY LenProperties, ElementOfSeq, SessionAssumption
<1>2. a \in Int /\ 1 <= a /\ (Len(s) - a) + 1 <= CacheLimit
  BY <1>1
<1> HIDE DEF a
<1>3. Len(s) \in Int /\ \A j \in a .. Len(s) : s[j] \in S
  BY <1>1, <1>2
<1>4. /\ SubSeq(s, a, Len(s)) \in Seq(S)
      /\ Len(SubSeq(s, a, Len(s))) = IF a <= Len(s) THEN Len(s)-a+1 ELSE 0
  BY <1>2, <1>3, SubSeqProperties
<1>5. Len(SubSeq(s, a, Len(s))) <= CacheLimit
  BY <1>1, <1>2, <1>4
<1> QED BY <1>4, <1>5 DEF a

\* Whatever generation a function is filed under, it is loaded with the code that
\* was translated, and the cache keeps nothing else.
LEMMA LoadingKeeps ==
    ASSUME SessionInv, NEW d \in Described
    PROVE  /\ ModuleFor(d) \in AsTranslated /\ Uncompiled(ModuleFor(d)) = d
           /\ CacheAfter(d) \in Seq(AsTranslated) /\ Len(CacheAfter(d)) <= CacheLimit
<1>0. modules \in Seq(AsTranslated) /\ gen \in [Functions -> 1 .. MaxGen]
  BY DEF SessionInv
<1>1. InCache(d) => /\ PlaceOf(d) \in 1 .. Len(modules)
                    /\ Cached(d) \in AsTranslated /\ Uncompiled(Cached(d)) = d
  <2>1. SUFFICES ASSUME InCache(d)
                 PROVE  /\ PlaceOf(d) \in 1 .. Len(modules)
                        /\ Cached(d) \in AsTranslated /\ Uncompiled(Cached(d)) = d
    OBVIOUS
  <2>2. PlaceOf(d) \in DOMAIN modules /\ IsFor(modules[PlaceOf(d)], d)
    BY <2>1 DEF InCache, PlaceOf
  <2>3. DOMAIN modules = 1 .. Len(modules)
    BY <1>0, LenProperties
  <2>4. modules[PlaceOf(d)] \in AsTranslated
    BY <1>0, <2>2, <2>3, ElementOfSeq
  <2> QED BY <2>2, <2>3, <2>4 DEF Cached, IsFor
<1>2. ModuleFor(d) \in AsTranslated /\ Uncompiled(ModuleFor(d)) = d
  <2>1. CASE InCache(d)
    <3>1. Cached(d) \in AsTranslated /\ Uncompiled(Cached(d)) = d
      BY <1>1, <2>1
    <3>2. Cached(d).gen = d.gen
      BY <3>1 DEF Uncompiled
    <3>3. ModuleFor(d) = Cached(d)
      BY <2>1, <3>1, <3>2 DEF ModuleFor, AsTranslated, Compiled
    <3> QED BY <3>1, <3>3
  <2>2. CASE ~InCache(d)
    <3>1. ModuleFor(d) = [fn |-> d.fn, gen |-> d.gen, tier |-> d.tier, code |-> Translated]
      BY <2>2 DEF ModuleFor, Compile
    <3> QED BY <3>1, SessionAssumption DEF Described, AsTranslated, Compiled, Uncompiled, Translated
  <2> QED BY <2>1, <2>2
<1>3. Without(d) \in Seq(AsTranslated)
  <2>1. CASE InCache(d)
    <3>1. PlaceOf(d) \in 1 .. Len(modules)
      BY <1>1, <2>1
    <3>2. SubSeq(modules, 1, PlaceOf(d) - 1) \o SubSeq(modules, PlaceOf(d) + 1, Len(modules))
            \in Seq(AsTranslated)
      BY <1>0, <3>1, RemovingKeeps
    <3> QED BY <2>1, <3>2 DEF Without
  <2>2. CASE ~InCache(d)
    BY <1>0, <2>2 DEF Without
  <2> QED BY <2>1, <2>2
<1>4. Append(Without(d), ModuleFor(d)) \in Seq(AsTranslated)
  BY <1>2, <1>3, AppendProperties
<1>5. CacheAfter(d) \in Seq(AsTranslated) /\ Len(CacheAfter(d)) <= CacheLimit
  BY <1>4, DroppingKeeps DEF CacheAfter
<1> QED BY <1>2, <1>5

-----------------------------------------------------------------------------
(* What a slice can come to *)

\* The quanta run since the continuation was cleared.
Gap(d, b) == (d + Quanta - b) % Quanta

LEMMA GapMoves ==
    ASSUME NEW d \in Counts, NEW b \in Counts
    PROVE  /\ Gap(d, d) = 0 /\ (Gap(d, b) + 1) % Quanta = Gap((d + 1) % Quanta, b)
           /\ (d + 1) % Quanta \in Counts
<1>0. Quanta \in Nat \ {0} /\ d \in 0 .. Quanta - 1 /\ b \in 0 .. Quanta - 1
  BY SessionAssumption DEF Counts
<1>1. ASSUME NEW x \in 0 .. 2 * Quanta - 1
      PROVE  x % Quanta = IF x < Quanta THEN x ELSE x - Quanta
  <2>1. CASE x < Quanta
    BY <1>0, <2>1, Z3
  <2>2. CASE x >= Quanta
    BY <1>0, <2>2, Z3
  <2> QED BY <1>0, <2>1, <2>2
<1>2. \A e \in 0 .. Quanta - 1 : \A c \in 0 .. Quanta - 1 :
         Gap(e, c) = IF e < c THEN (e + Quanta) - c ELSE e - c
  <2> TAKE e \in 0 .. Quanta - 1
  <2> TAKE c \in 0 .. Quanta - 1
  <2>1. e + Quanta - c \in 0 .. 2 * Quanta - 1
    BY <1>0
  <2>2. (e + Quanta - c) % Quanta = IF e + Quanta - c < Quanta THEN e + Quanta - c
                                    ELSE (e + Quanta - c) - Quanta
    BY <1>1, <2>1
  <2> QED BY <1>0, <2>2 DEF Gap
<1>3. Gap(d, d) = 0
  BY <1>0, <1>2
<1>4. (d + 1) % Quanta = IF d + 1 < Quanta THEN d + 1 ELSE 0
  BY <1>0, <1>1
<1>5. (Gap(d, b) + 1) % Quanta = IF Gap(d, b) + 1 < Quanta THEN Gap(d, b) + 1 ELSE 0
  <2>1. Gap(d, b) + 1 \in 0 .. 2 * Quanta - 1 /\ Gap(d, b) + 1 <= Quanta
    BY <1>0, <1>2
  <2> QED BY <1>0, <1>1, <2>1
<1>6. (d + 1) % Quanta \in 0 .. Quanta - 1
  BY <1>0, <1>4
<1>7. Gap((d + 1) % Quanta, b) = IF (d + 1) % Quanta < b THEN (((d + 1) % Quanta) + Quanta) - b
                                 ELSE ((d + 1) % Quanta) - b
  BY <1>0, <1>2, <1>6
<1>8. (Gap(d, b) + 1) % Quanta = Gap((d + 1) % Quanta, b)
  <2>1. Gap(d, b) = IF d < b THEN (d + Quanta) - b ELSE d - b
    BY <1>0, <1>2
  <2> QED BY <1>0, <1>4, <1>5, <1>7, <2>1
<1> QED BY <1>3, <1>6, <1>8 DEF Counts

OwnerOf(t) == Owner(Entry[t], t)

\* A slice of t moves no other thread's continuation, and its own by one if it
\* yields; only a function of the CFG tier can.
LEMMA SliceComesTo ==
    ASSUME NEW c, GoodCont(c), NEW rs, NEW t \in Threads, NEW run \in Runs(c, rs, t)
    PROVE  /\ run.out \in Outcomes \ {"none"} /\ GoodCont(run.cont)
           /\ \A u \in Threads \ {t} : ValueOf(run.cont, OwnerOf(u)) = ValueOf(c, OwnerOf(u))
           /\ run.out # "yield" /\ run.out # "return" =>
                 ValueOf(run.cont, OwnerOf(t)) = ValueOf(c, OwnerOf(t))
           /\ run.out = "yield" =>
                 /\ \E r \in rs : r.fn = Entry[t]
                 /\ \A r \in rs : r.fn = Entry[t] => r.tier # "callable"
                 /\ ValueOf(run.cont, OwnerOf(t)) = (ValueOf(c, OwnerOf(t)) + 1) % Quanta
<1>0. \A u \in Threads : /\ OwnerOf(u) \in Owners
                         /\ \A v \in Threads : u # v => OwnerOf(u) # OwnerOf(v)
                         /\ \A g \in Functions : OwnerOf(u) # Owner(g, Nested)
  BY SchedulerAssumption DEF OwnerOf, Owner, Owners
<1>1. CASE run.out = "fail" /\ run.cont = c
  BY <1>1 DEF Outcomes
<1>2. CASE (\E r \in rs : r.fn = Entry[t]) /\ run \in CallableRuns(c, rs)
  <2>1. CASE run.out \in {"return", "exit", "fail"} /\ run.cont = c
    BY <2>1 DEF Outcomes
  <2>2. ASSUME NEW g \in Functions, CanAcquire(c, Owner(g, Nested)), run.out \in {"return", "fail"},
               run.cont = Returned(c, g) \/ run.cont = Stuck(c, g)
        PROVE  /\ run.out \in Outcomes \ {"none", "yield"} /\ GoodCont(run.cont)
               /\ \A u \in Threads : ValueOf(run.cont, OwnerOf(u)) = ValueOf(c, OwnerOf(u))
    <3>1. GoodCont(run.cont)
      BY <2>2, NestedCallKeeps
    <3>2. \A p \in Owners : p # Owner(g, Nested) => ValueOf(run.cont, p) = ValueOf(c, p)
      BY <2>2, NestedCallKeeps
    <3> QED BY <1>0, <2>2, <3>1, <3>2 DEF Outcomes
  <2>3. \/ run.out \in {"return", "exit", "fail"} /\ run.cont = c
        \/ \E g \in Functions : /\ CanAcquire(c, Owner(g, Nested)) /\ run.out \in {"return", "fail"}
                                /\ run.cont = Returned(c, g) \/ run.cont = Stuck(c, g)
    BY <1>2 DEF CallableRuns, Outcome
  <2> QED BY <2>1, <2>2, <2>3
<1>3. CASE /\ \E r \in rs : r.fn = Entry[t]
           /\ \A r \in rs : r.fn = Entry[t] => r.tier # "callable"
           /\ CanAcquire(c, OwnerOf(t)) /\ run \in CfgRuns(c, OwnerOf(t))
  <2> DEFINE a == Acquired(c, OwnerOf(t))
  <2>1. GoodCont(a) /\ Holds(a, OwnerOf(t)) /\ \A p \in Owners : ValueOf(a, p) = ValueOf(c, p)
    BY <1>0, <1>3, AcquiringKeeps
  <2>2. \/ run.out \in {"exit", "fail"} /\ run.cont = a
        \/ run.out = "return" /\ run.cont = Released(a, OwnerOf(t))
        \/ run.out = "yield" /\ run.cont = Advanced(a, OwnerOf(t))
    BY <1>3 DEF CfgRuns, Outcome
  <2> HIDE DEF a
  <2>3. CASE run.out \in {"exit", "fail"} /\ run.cont = a
    BY <1>0, <2>1, <2>3 DEF Outcomes
  <2>4. CASE run.out = "return" /\ run.cont = Released(a, OwnerOf(t))
    <3>1. GoodCont(run.cont) /\ \A p \in Owners \ {OwnerOf(t)} : ValueOf(run.cont, p) = ValueOf(a, p)
      BY <1>0, <2>1, <2>4, ReleasingKeeps
    <3> QED BY <1>0, <2>1, <2>4, <3>1 DEF Outcomes
  <2>5. CASE run.out = "yield" /\ run.cont = Advanced(a, OwnerOf(t))
    <3>1. /\ GoodCont(run.cont)
          /\ ValueOf(run.cont, OwnerOf(t)) = (ValueOf(a, OwnerOf(t)) + 1) % Quanta
          /\ \A p \in Owners \ {OwnerOf(t)} : ValueOf(run.cont, p) = ValueOf(a, p)
      BY <1>0, <2>1, <2>5, AdvancingMoves
    <3> QED BY <1>0, <1>3, <2>1, <2>5, <3>1 DEF Outcomes
  <2> QED BY <2>2, <2>3, <2>4, <2>5
<1>4. \/ run.out = "fail" /\ run.cont = c
      \/ (\E r \in rs : r.fn = Entry[t]) /\ run \in CallableRuns(c, rs)
      \/ /\ \E r \in rs : r.fn = Entry[t]
         /\ \A r \in rs : r.fn = Entry[t] => r.tier # "callable"
         /\ CanAcquire(c, OwnerOf(t)) /\ run \in CfgRuns(c, OwnerOf(t))
  BY DEF Runs, Outcome, OwnerOf
<1> QED BY <1>1, <1>2, <1>3, <1>4

-----------------------------------------------------------------------------
(* The initial state *)

LEMMA StartsWell == Init => SchedulerInv
<1> SUFFICES ASSUME Init
             PROVE  SchedulerInv
  OBVIOUS
<1>0. 0 \in Counts /\ Quanta \in Nat \ {0}
  BY SessionAssumption DEF Counts
<1>1. ThreadTypes
  BY <1>0 DEF Init, ThreadTypes, Contexts, Reset, Counts
<1>2. LoopTypes /\ OneLoop
  BY DEF Init, LoopTypes, Activities, OneLoop, Idle, Steps, Outcomes
<1>3. SessionInv
  <2>1. gen \in [Functions -> 1 .. MaxGen] /\ records \subseteq AsTranslated
    BY SessionAssumption DEF Init, SessionInit, Translated
  <2>2. /\ callable \subseteq Functions /\ cfgFn \in Functions \cup {Nothing}
        /\ \A f \in callable : gen[f] = Translated
    BY DEF Init, SessionInit
  <2>3. modules \in Seq(AsTranslated) /\ Len(modules) <= CacheLimit
    BY SessionAssumption DEF Init, SessionInit
  <2> QED BY <2>1, <2>2, <2>3 DEF SessionInv
<1>4. ASSUME NEW l \in Loops
      PROVE  SliceInv(l) /\ RefreshInv(l)
  BY DEF Init, Idle, SliceInv, RefreshInv, InSlice
<1>5. SnapshotInv
  BY DEF Init, SnapshotInv
<1>6. ContinuationInv
  <2>1. \A t \in Threads : done[t] = 0 /\ base[t] = 0
    BY DEF Init
  <2>2. Gap(0, 0) = 0
    BY <1>0, GapMoves
  <2> QED BY <2>1, <2>2, ClearedHoldNothing DEF Init, SessionInit, ContinuationInv, Gap
<1>7. OwnContext /\ OwnContinuation /\ OnlyCfgIsStale
  <2>1. Gap(0, 0) = 0
    BY <1>0, GapMoves
  <2> QED BY <2>1 DEF Init, OwnContext, OwnContinuation, OnlyCfgIsStale, NoRun, Gap
<1>8. RunningIsDriven /\ CountInv
  <2>1. {t \in Threads : life[t] = "dead" /\ \A l \in Loops : ~(loop[l].at = "ran" /\ loop[l].thread = t)} = {}
    BY DEF Init
  <2>2. CompletedAreDead
    BY <2>1, FS_EmptySet DEF Init, CompletedAreDead
  <2> QED BY <2>2 DEF Init, RunningIsDriven, CountInv
<1> QED BY <1>1, <1>2, <1>3, <1>4, <1>5, <1>6, <1>7, <1>8 DEF SchedulerInv

-----------------------------------------------------------------------------
(* Steps between the slices *)

\* An activity that is in no slice goes on to another such state, and nothing
\* else moves that the slices depend on.
LEMMA BetweenSlices ==
    ASSUME SchedulerInv, NEW l \in Loops, NEW a \in Activities, loop' = [loop EXCEPT ![l] = a],
           ~InSlice(l), a.at \in {"off", "top", "report"}, a.at = "off" => a = Idle,
           loop[l].at = "off" => AllOff,
           running' \in BOOLEAN, paused' \in BOOLEAN, RunningIsDriven',
           UNCHANGED <<sessionVars, threadVars, completed, lastBlocker, historyVars>>
    PROVE  SchedulerInv'
<1> USE DEF sessionVars, threadVars, historyVars
<1>0. loop \in [Loops -> Activities]
  BY DEF SchedulerInv, LoopTypes
<1>1. loop'[l] = a /\ \A m \in Loops : m # l => loop'[m] = loop[m]
  BY <1>0
<1>2. ThreadTypes' /\ LoopTypes'
  BY <1>0 DEF SchedulerInv, ThreadTypes, LoopTypes
<1>3. SessionInv'
  BY DEF SchedulerInv, SessionInv
<1>4. OneLoop'
  BY <1>1 DEF SchedulerInv, OneLoop, AllOff
<1>5. ASSUME NEW m \in Loops
      PROVE  (SliceInv(m) /\ RefreshInv(m))'
  <2>1. CASE m = l
    BY <1>1, <2>1 DEF SliceInv, RefreshInv, InSlice
  <2>2. CASE m # l
    BY <1>1, <2>2 DEF SchedulerInv, SliceInv, RefreshInv, InSlice, OwnOf, Descriptors, CfgFallback,
                      Describe, RegistryKey
  <2> QED BY <2>1, <2>2
<1>6. \A m \in Loops : (loop'[m].at = "ran") = (loop[m].at = "ran") /\
                       (loop[m].at = "ran" => loop'[m] = loop[m])
  BY <1>1 DEF InSlice
<1>7. SnapshotInv'
  BY <1>6 DEF SchedulerInv, SnapshotInv, HasRunNow, OwnOf
<1>8. ContinuationInv'
  BY <1>6 DEF SchedulerInv, ContinuationInv, HasReturned, GoodCont, Conts, ValueOf, Holds, SlotOf, Resumable
<1>9. OwnContext' /\ OwnContinuation' /\ OnlyCfgIsStale'
  BY DEF SchedulerInv, OwnContext, OwnContinuation, OnlyCfgIsStale
<1>10. CountInv'
  <2>1. \A t \in Threads : (\A m \in Loops : ~(loop'[m].at = "ran" /\ loop'[m].thread = t))
                              <=> (\A m \in Loops : ~(loop[m].at = "ran" /\ loop[m].thread = t))
    BY <1>6
  <2>2. {t \in Threads : life[t] = "dead" /\ \A m \in Loops : ~(loop[m].at = "ran" /\ loop[m].thread = t)}'
          = {t \in Threads : life[t] = "dead" /\ \A m \in Loops : ~(loop[m].at = "ran" /\ loop[m].thread = t)}
    BY <2>1
  <2>3. completed = Cardinality({t \in Threads : life[t] = "dead"
                                   /\ \A m \in Loops : ~(loop[m].at = "ran" /\ loop[m].thread = t)})
    BY DEF SchedulerInv, CountInv, CompletedAreDead
  <2> QED BY <2>2, <2>3 DEF SchedulerInv, CountInv, CompletedAreDead
<1> QED BY <1>2, <1>3, <1>4, <1>5, <1>7, <1>8, <1>9, <1>10 DEF SchedulerInv

\* A call starts an activity if there is none.
LEMMA StartingKeeps ==
    ASSUME SchedulerInv, ~RestartAnytime, NEW l \in Loops, RunLoop(l) \/ PumpOnce(l)
    PROVE  SchedulerInv'
<1>0. loop \in [Loops -> Activities] /\ running \in BOOLEAN /\ paused \in BOOLEAN /\ RunningIsDriven
  BY DEF SchedulerInv, LoopTypes
<1>1. AllOff /\ loop[l].at = "off" /\ loop[l] \in Activities
  BY <1>0 DEF RunLoop, PumpOnce
<1>2. CASE RunLoop(l)
  <2> DEFINE a == [loop[l] EXCEPT !.at = "top"]
  <2>1. a \in Activities /\ a.at = "top" /\ a.once = loop[l].once
    BY <1>1 DEF Activities, Steps
  <2>2. loop' = [loop EXCEPT ![l] = a]
    BY <1>2 DEF RunLoop
  <2>3. loop[l] = Idle
    BY <1>1 DEF SchedulerInv, OneLoop
  <2>4. RunningIsDriven'
    <3>1. loop'[l] = a
      BY <1>0, <2>2
    <3> QED BY <2>1, <2>3, <3>1 DEF RunningIsDriven, Idle
  <2> HIDE DEF a
  <2> QED BY <1>1, <1>2, <2>1, <2>2, <2>4, BetweenSlices
          DEF RunLoop, InSlice, SchedulerInv, LoopTypes, historyVars
<1>3. CASE PumpOnce(l)
  <2> DEFINE a == [loop[l] EXCEPT !.at = "top", !.once = TRUE]
  <2>1. a \in Activities /\ a.at = "top"
    BY <1>1 DEF Activities, Steps
  <2>2. loop' = [loop EXCEPT ![l] = a]
    BY <1>3 DEF PumpOnce
  <2>3. RunningIsDriven'
    BY <1>0, <1>3 DEF PumpOnce, RunningIsDriven
  <2> HIDE DEF a
  <2> QED BY <1>1, <1>3, <2>1, <2>2, <2>3, BetweenSlices
          DEF PumpOnce, InSlice, SchedulerInv, LoopTypes, historyVars
<1> QED BY <1>2, <1>3

\* An activity that ends, or finds nothing to run, or reports.
LEMMA ReportingKeeps ==
    ASSUME SchedulerInv, NEW l \in Loops, LoopEnds(l) \/ NothingToRun(l) \/ PumpEnds(l)
    PROVE  SchedulerInv'
<1>0. loop \in [Loops -> Activities] /\ running \in BOOLEAN /\ paused \in BOOLEAN /\ RunningIsDriven
  BY DEF SchedulerInv, LoopTypes
<1>1. loop[l] \in Activities /\ loop[l].at # "off" /\ ~InSlice(l)
  BY <1>0 DEF LoopEnds, NothingToRun, PumpEnds, Pumps, InSlice
<1>2. Idle \in Activities
  BY DEF Idle, Activities, Steps, Outcomes
<1>3. CASE LoopEnds(l)
  <2>1. RunningIsDriven'
    BY <1>3 DEF LoopEnds, RunningIsDriven
  <2> QED BY <1>0, <1>1, <1>2, <1>3, <2>1, BetweenSlices DEF LoopEnds, Idle
<1>4. CASE NothingToRun(l)
  <2> DEFINE a == [loop[l] EXCEPT !.at = "report", !.thread = 0]
  <2>1. a \in Activities /\ a.at = "report" /\ a.once = loop[l].once
    BY <1>1 DEF Activities, Steps
  <2>2. loop' = [loop EXCEPT ![l] = a]
    BY <1>4 DEF NothingToRun
  <2>3. RunningIsDriven'
    <3>1. running' = running
      BY <1>4 DEF NothingToRun
    <3>2. \A m \in Loops : (loop[m].at # "off" /\ ~loop[m].once) => (loop'[m].at # "off" /\ ~loop'[m].once)
      BY <1>0, <2>1, <2>2
    <3> QED BY <1>0, <3>1, <3>2 DEF RunningIsDriven
  <2> HIDE DEF a
  <2> QED BY <1>0, <1>1, <1>4, <2>1, <2>2, <2>3, BetweenSlices DEF NothingToRun
<1>5. CASE PumpEnds(l)
  <2> DEFINE a == IF loop[l].once THEN Idle ELSE [Idle EXCEPT !.at = "top"]
  <2>1. a \in Activities /\ a.at \in {"off", "top"} /\ (a.at = "off" => a = Idle)
        /\ (~loop[l].once => a.at = "top" /\ ~a.once)
    BY <1>2 DEF Activities, Steps, Idle
  <2>2. loop' = [loop EXCEPT ![l] = a]
    BY <1>5 DEF PumpEnds
  <2>3. running' \in BOOLEAN /\ (running' => running)
    BY <1>0, <1>5 DEF PumpEnds, StillRunning
  <2>4. RunningIsDriven'
    <3>1. \A m \in Loops : (loop[m].at # "off" /\ ~loop[m].once) => (loop'[m].at # "off" /\ ~loop'[m].once)
      BY <1>0, <2>1, <2>2
    <3> QED BY <1>0, <2>3, <3>1 DEF RunningIsDriven
  <2> HIDE DEF a
  <2> QED BY <1>0, <1>1, <1>5, <2>1, <2>2, <2>3, <2>4, BetweenSlices DEF PumpEnds
<1> QED BY <1>3, <1>4, <1>5

\* A new thread has never run, and is not dead.
LEMMA CreatingKeeps ==
    ASSUME SchedulerInv, NEW t \in Threads, CreateThread(t)
    PROVE  SchedulerInv'
<1> USE DEF sessionVars, historyVars
<1>0. life \in [Threads -> {"none", "ready", "running", "dead"}]
  BY DEF SchedulerInv, ThreadTypes
<1>1. life' = [life EXCEPT ![t] = "ready"] /\ life[t] = "none"
  BY DEF CreateThread
<1>2. \A u \in Threads : (life'[u] = "dead") <=> (life[u] = "dead")
  BY <1>0, <1>1
<1>3. UNCHANGED <<sessionVars, current, live, snapshots, loop, running, paused, completed,
                  lastBlocker, done, base, lastRun>>
  BY DEF CreateThread
<1>4. ThreadTypes' /\ LoopTypes'
  BY <1>0, <1>1, <1>3 DEF SchedulerInv, ThreadTypes, LoopTypes
<1>5. SessionInv' /\ OneLoop'
  BY <1>3 DEF SchedulerInv, SessionInv, OneLoop
<1>6. ASSUME NEW l \in Loops
      PROVE  (SliceInv(l) /\ RefreshInv(l))'
  <2>1. SliceInv(l)'
    BY <1>2, <1>3 DEF SchedulerInv, SliceInv, InSlice, OwnOf
  <2>2. RefreshInv(l)'
    BY <1>3 DEF SchedulerInv, RefreshInv, Descriptors, CfgFallback, Describe, RegistryKey
  <2> QED BY <2>1, <2>2
<1>7. SnapshotInv'
  BY <1>3 DEF SchedulerInv, SnapshotInv, HasRunNow, OwnOf
<1>8. ContinuationInv'
  BY <1>2, <1>3 DEF SchedulerInv, ContinuationInv, HasReturned, GoodCont, Conts, ValueOf, Holds, SlotOf, Resumable
<1>9. OwnContext' /\ OwnContinuation' /\ OnlyCfgIsStale' /\ RunningIsDriven'
  BY <1>3 DEF SchedulerInv, OwnContext, OwnContinuation, OnlyCfgIsStale, RunningIsDriven
<1>10. CountInv'
  <2>1. {u \in Threads : life'[u] = "dead" /\ \A m \in Loops : ~(loop[m].at = "ran" /\ loop[m].thread = u)}
          = {u \in Threads : life[u] = "dead" /\ \A m \in Loops : ~(loop[m].at = "ran" /\ loop[m].thread = u)}
    BY <1>2
  <2>2. completed = Cardinality({u \in Threads : life[u] = "dead"
                                   /\ \A m \in Loops : ~(loop[m].at = "ran" /\ loop[m].thread = u)})
    BY DEF SchedulerInv, CountInv, CompletedAreDead
  <2> QED BY <1>3, <2>1, <2>2 DEF SchedulerInv, CountInv, CompletedAreDead
<1> QED BY <1>4, <1>5, <1>6, <1>7, <1>8, <1>9, <1>10 DEF SchedulerInv

\* The page pauses, resumes and stops the loop at any time.
LEMMA ControlKeeps ==
    ASSUME SchedulerInv, Control
    PROVE  SchedulerInv'
<1> USE DEF sessionVars, threadVars, historyVars
<1>1. UNCHANGED <<sessionVars, threadVars, loop, completed, lastBlocker, historyVars>>
  BY DEF Control
<1>2. running' \in BOOLEAN /\ paused' \in BOOLEAN /\ (running' => running)
  <2>1. running \in BOOLEAN /\ paused \in BOOLEAN
    BY DEF SchedulerInv, LoopTypes
  <2>2. running' = running \/ running' = FALSE
    BY DEF Control, Pause, Resume, Stop
  <2>3. paused' = TRUE \/ paused' = FALSE
    BY DEF Control, Pause, Resume, Stop
  <2>4. running' \in BOOLEAN /\ paused' \in BOOLEAN
    BY <2>1, <2>2, <2>3
  <2>5. running' => running
    <3>1. CASE running' = running
      BY <3>1
    <3>2. CASE running' = FALSE
      BY <3>2
    <3> QED BY <2>2, <3>1, <3>2
  <2> QED BY <2>4, <2>5
<1>3. ThreadTypes' /\ LoopTypes'
  BY <1>1, <1>2 DEF SchedulerInv, ThreadTypes, LoopTypes
<1>4. SessionInv' /\ OneLoop'
  BY <1>1 DEF SchedulerInv, SessionInv, OneLoop
<1>5. ASSUME NEW l \in Loops
      PROVE  (SliceInv(l) /\ RefreshInv(l))'
  BY <1>1 DEF SchedulerInv, SliceInv, InSlice, OwnOf, RefreshInv, Descriptors, CfgFallback, Describe,
              RegistryKey
<1>6. SnapshotInv'
  BY <1>1 DEF SchedulerInv, SnapshotInv, HasRunNow, OwnOf
<1>7. ContinuationInv'
  BY <1>1 DEF SchedulerInv, ContinuationInv, HasReturned, GoodCont, Conts, ValueOf, Holds, SlotOf, Resumable
<1>8. OwnContext' /\ OwnContinuation' /\ OnlyCfgIsStale' /\ CountInv'
  BY <1>1 DEF SchedulerInv, OwnContext, OwnContinuation, OnlyCfgIsStale, CountInv, CompletedAreDead
<1>9. RunningIsDriven'
  BY <1>1, <1>2 DEF SchedulerInv, RunningIsDriven
<1> QED BY <1>3, <1>4, <1>5, <1>6, <1>7, <1>8, <1>9 DEF SchedulerInv

-----------------------------------------------------------------------------
(* The steps of a slice *)

\* The activity that moves is the only one.
LEMMA OnlyActive ==
    ASSUME SchedulerInv, NEW l \in Loops, loop[l].at # "off"
    PROVE  loop[l] \in Activities /\ \A m \in Loops \ {l} : loop[m].at = "off"
BY DEF SchedulerInv, LoopTypes, OneLoop

\* A thread's context is restored, and its slice has the functions to load.
LEMMA SliceStartKeeps ==
    ASSUME SchedulerInv, NEW l \in Loops, SliceStart(l)
    PROVE  SchedulerInv'
<1> USE DEF sessionVars, historyVars
<1>1. loop[l].at = "top" /\ loop \in [Loops -> Activities]
  BY DEF SliceStart, Pumps, SchedulerInv, LoopTypes
<1>2. loop[l] \in Activities /\ \A m \in Loops \ {l} : loop[m].at = "off"
  BY <1>1, OnlyActive
<1>3. PICK t \in Threads :
        /\ life[t] \in {"ready", "running"}
        /\ life' = Switched(t) /\ current' = t /\ live' = Restored(t)
        /\ snapshots' = [snapshots EXCEPT ![t] = Restored(t)]
        /\ loop' = [loop EXCEPT ![l].at = "refresh", ![l].thread = t,
                        ![l].want = Descriptors, ![l].got = {},
                        ![l].todo = IF Descriptors = RegistryKey THEN {} ELSE Descriptors]
  BY DEF SliceStart, NextRunnable, Runnable
<1>4. UNCHANGED <<sessionVars, running, paused, completed, lastBlocker, done, base, lastRun>>
  BY DEF SliceStart
<1>5. Descriptors \subseteq Described
  BY DEF SchedulerInv, SessionInv, Descriptors, CfgFallback, Describe, Described
<1>6. /\ loop'[l].at = "refresh" /\ loop'[l].thread = t /\ loop'[l].want = Descriptors
      /\ loop'[l].got = {} /\ loop'[l].todo = (IF Descriptors = RegistryKey THEN {} ELSE Descriptors)
      /\ loop'[l].once = loop[l].once /\ loop'[l].out = loop[l].out
      /\ loop'[l] \in Activities /\ loop' \in [Loops -> Activities]
      /\ \A m \in Loops \ {l} : loop'[m] = loop[m]
  <2> DEFINE a == [loop[l] EXCEPT !.at = "refresh", !.thread = t, !.want = Descriptors, !.got = {},
                     !.todo = IF Descriptors = RegistryKey THEN {} ELSE Descriptors]
  <2>1. /\ a.at = "refresh" /\ a.thread = t /\ a.want = Descriptors /\ a.got = {}
        /\ a.todo = (IF Descriptors = RegistryKey THEN {} ELSE Descriptors)
        /\ a.once = loop[l].once /\ a.out = loop[l].out
    BY <1>2 DEF Activities
  <2>2. a \in Activities
    BY <1>2, <1>5 DEF Activities, Steps
  <2>3. loop' = [loop EXCEPT ![l] = a]
    BY <1>3
  <2> HIDE DEF a
  <2> QED BY <1>1, <2>1, <2>2, <2>3
<1>7. life' \in [Threads -> {"none", "ready", "running", "dead"}]
      /\ \A u \in Threads : (life'[u] = "dead") <=> (life[u] = "dead")
  <2>1. life \in [Threads -> {"none", "ready", "running", "dead"}]
    BY DEF SchedulerInv, ThreadTypes
  <2>2. life' = [u \in Threads |-> IF u = t THEN "running"
                                   ELSE IF life[u] = "running" THEN "ready" ELSE life[u]]
    BY <1>3 DEF Switched
  <2> QED BY <1>3, <2>1, <2>2
<1>8. Restored(t) = OwnOf(t) /\ OwnOf(t) \in Contexts
  <2>1. ~HasRunNow(t)
    BY <1>1, <1>2 DEF HasRunNow
  <2>2. done[t] \in Counts
    BY DEF SchedulerInv, ThreadTypes
  <2>3. OwnOf(t) # Reset
    BY SchedulerAssumption DEF OwnOf, Reset
  <2>4. (snapshots[t] = Reset /\ done[t] = 0) \/ snapshots[t] = OwnOf(t)
    BY <2>1 DEF SchedulerInv, SnapshotInv
  <2>5. Restored(t) = OwnOf(t)
    BY <2>3, <2>4 DEF Restored, Fresh, OwnOf
  <2> QED BY <2>2, <2>5 DEF Contexts, OwnOf, Counts
<1>9. ThreadTypes' /\ LoopTypes'
  <2>1. snapshots' \in [Threads -> Contexts] /\ live' \in Contexts
    BY <1>3, <1>8 DEF SchedulerInv, ThreadTypes
  <2> QED BY <1>3, <1>4, <1>6, <1>7, <2>1 DEF SchedulerInv, ThreadTypes, LoopTypes
<1>10. SessionInv'
  BY <1>4 DEF SchedulerInv, SessionInv
<1>11. OneLoop'
  BY <1>2, <1>6 DEF SchedulerInv, OneLoop
<1>12. SliceInv(l)' /\ RefreshInv(l)'
  <2>1. SliceInv(l)'
    BY <1>3, <1>4, <1>6, <1>7, <1>8 DEF SliceInv, InSlice, OwnOf
  <2>2. Descriptors' = Descriptors /\ RegistryKey' = RegistryKey
    BY <1>4 DEF Descriptors, CfgFallback, Describe, RegistryKey
  <2> QED BY <1>6, <2>1, <2>2 DEF RefreshInv
<1>13. ASSUME NEW m \in Loops, m # l
       PROVE  SliceInv(m)' /\ RefreshInv(m)'
  BY <1>2, <1>6, <1>13 DEF SliceInv, RefreshInv, InSlice
<1>14. \A m \in Loops : loop'[m].at # "ran" /\ loop[m].at # "ran"
  BY <1>1, <1>2, <1>6
<1>15. SnapshotInv'
  <2>1. \A u \in Threads : (snapshots[u] = Reset /\ done[u] = 0) \/ snapshots[u] = OwnOf(u)
    BY <1>14 DEF SchedulerInv, SnapshotInv, HasRunNow
  <2>2. \A u \in Threads : snapshots'[u] = IF u = t THEN OwnOf(t) ELSE snapshots[u]
    BY <1>3, <1>8 DEF SchedulerInv, ThreadTypes
  <2> QED BY <1>4, <2>1, <2>2 DEF SnapshotInv, OwnOf
<1>16. ContinuationInv'
  BY <1>4, <1>7, <1>14 DEF SchedulerInv, ContinuationInv, HasReturned, GoodCont, Conts, ValueOf, Holds, SlotOf,
                           Resumable
<1>17. OwnContext' /\ OwnContinuation' /\ OnlyCfgIsStale'
  BY <1>4 DEF SchedulerInv, OwnContext, OwnContinuation, OnlyCfgIsStale
<1>18. RunningIsDriven'
  <2>1. \A m \in Loops : (loop[m].at # "off" /\ ~loop[m].once) => (loop'[m].at # "off" /\ ~loop'[m].once)
    BY <1>6
  <2> QED BY <1>4, <2>1 DEF SchedulerInv, RunningIsDriven
<1>19. CountInv'
  <2>1. {u \in Threads : life'[u] = "dead" /\ \A m \in Loops : ~(loop'[m].at = "ran" /\ loop'[m].thread = u)}
          = {u \in Threads : life[u] = "dead" /\ \A m \in Loops : ~(loop[m].at = "ran" /\ loop[m].thread = u)}
    BY <1>7, <1>14
  <2>2. completed = Cardinality({u \in Threads : life[u] = "dead"
                                   /\ \A m \in Loops : ~(loop[m].at = "ran" /\ loop[m].thread = u)})
    BY DEF SchedulerInv, CountInv, CompletedAreDead
  <2> QED BY <1>4, <2>1, <2>2 DEF SchedulerInv, CountInv, CompletedAreDead
<1> QED BY <1>9, <1>10, <1>11, <1>12, <1>13, <1>15, <1>16, <1>17, <1>18, <1>19 DEF SchedulerInv

\* One function is loaded; generations stand still.
LEMMA LoadFunctionKeeps ==
    ASSUME SchedulerInv, NEW l \in Loops, LoadFunction(l)
    PROVE  SchedulerInv'
<1> USE DEF threadVars, historyVars
<1>1. loop[l].at = "refresh" /\ loop \in [Loops -> Activities]
  BY DEF LoadFunction, SchedulerInv, LoopTypes
<1>2. loop[l] \in Activities /\ \A m \in Loops \ {l} : loop[m].at = "off"
  BY <1>1, OnlyActive
<1>3. PICK d \in loop[l].todo :
        /\ modules' = CacheAfter(d)
        /\ loop' = [loop EXCEPT ![l].todo = @ \ {d}, ![l].got = @ \cup {ModuleFor(d)}]
  BY DEF LoadFunction
<1>4. UNCHANGED <<gen, callable, cfgFn, records, cont, threadVars, running, paused,
                  completed, lastBlocker, historyVars>>
  BY DEF LoadFunction
<1>5. RefreshInv(l) /\ SliceInv(l)
  BY DEF SchedulerInv
<1>6. d \in Described
  BY <1>2 DEF Activities
<1>7. /\ ModuleFor(d) \in AsTranslated /\ Uncompiled(ModuleFor(d)) = d
      /\ CacheAfter(d) \in Seq(AsTranslated) /\ Len(CacheAfter(d)) <= CacheLimit
  <2>1. SessionInv
    BY DEF SchedulerInv
  <2> QED BY <1>6, <2>1, LoadingKeeps
<1>8. /\ loop'[l].at = "refresh" /\ loop'[l].thread = loop[l].thread /\ loop'[l].want = loop[l].want
      /\ loop'[l].got = loop[l].got \cup {ModuleFor(d)} /\ loop'[l].todo = loop[l].todo \ {d}
      /\ loop'[l].once = loop[l].once /\ loop' \in [Loops -> Activities]
      /\ \A m \in Loops \ {l} : loop'[m] = loop[m]
  <2> DEFINE a == [loop[l] EXCEPT !.todo = @ \ {d}, !.got = @ \cup {ModuleFor(d)}]
  <2>1. /\ a.at = loop[l].at /\ a.thread = loop[l].thread /\ a.want = loop[l].want
        /\ a.got = loop[l].got \cup {ModuleFor(d)} /\ a.todo = loop[l].todo \ {d}
        /\ a.once = loop[l].once
    BY <1>2 DEF Activities
  <2>2. a \in Activities
    BY <1>2, <1>7 DEF Activities
  <2>3. loop' = [loop EXCEPT ![l] = a]
    BY <1>3
  <2> HIDE DEF a
  <2> QED BY <1>1, <2>1, <2>2, <2>3
<1>9. ThreadTypes' /\ LoopTypes'
  BY <1>4, <1>8 DEF SchedulerInv, ThreadTypes, LoopTypes
<1>10. SessionInv'
  BY <1>3, <1>4, <1>7 DEF SchedulerInv, SessionInv
<1>11. OneLoop'
  BY <1>2, <1>8 DEF SchedulerInv, OneLoop
<1>12. SliceInv(l)'
  BY <1>1, <1>4, <1>5, <1>8 DEF SliceInv, InSlice, OwnOf
<1>13. RefreshInv(l)'
  <2>1. Descriptors' = Descriptors /\ RegistryKey' = RegistryKey
    BY <1>4 DEF Descriptors, CfgFallback, Describe, RegistryKey
  <2>2. loop[l].want # RegistryKey => {Uncompiled(m) : m \in loop[l].got} \cup loop[l].todo = loop[l].want
    BY <1>1, <1>5 DEF RefreshInv
  <2>3. {Uncompiled(m) : m \in loop'[l].got} = {Uncompiled(m) : m \in loop[l].got} \cup {d}
    BY <1>7, <1>8
  <2>4. {Uncompiled(m) : m \in loop'[l].got} \cup loop'[l].todo
          = {Uncompiled(m) : m \in loop[l].got} \cup loop[l].todo
    BY <1>3, <1>8, <2>3
  <2> QED BY <1>1, <1>5, <1>8, <2>1, <2>2, <2>4 DEF RefreshInv
<1>14. ASSUME NEW m \in Loops, m # l
       PROVE  SliceInv(m)' /\ RefreshInv(m)'
  BY <1>2, <1>8, <1>14 DEF SliceInv, RefreshInv, InSlice
<1>15. \A m \in Loops : loop'[m].at # "ran" /\ loop[m].at # "ran"
  BY <1>1, <1>2, <1>8
<1>16. SnapshotInv'
  BY <1>4, <1>15 DEF SchedulerInv, SnapshotInv, HasRunNow, OwnOf
<1>17. ContinuationInv'
  BY <1>4, <1>15 DEF SchedulerInv, ContinuationInv, HasReturned, GoodCont, Conts, ValueOf, Holds, SlotOf, Resumable
<1>18. OwnContext' /\ OwnContinuation' /\ OnlyCfgIsStale'
  BY <1>4 DEF SchedulerInv, OwnContext, OwnContinuation, OnlyCfgIsStale
<1>19. RunningIsDriven'
  <2>1. \A m \in Loops : (loop[m].at # "off" /\ ~loop[m].once) => (loop'[m].at # "off" /\ ~loop'[m].once)
    BY <1>8
  <2> QED BY <1>4, <2>1 DEF SchedulerInv, RunningIsDriven
<1>20. CountInv'
  <2>1. {u \in Threads : life'[u] = "dead" /\ \A m \in Loops : ~(loop'[m].at = "ran" /\ loop'[m].thread = u)}
          = {u \in Threads : life[u] = "dead" /\ \A m \in Loops : ~(loop[m].at = "ran" /\ loop[m].thread = u)}
    BY <1>4, <1>15
  <2>2. completed = Cardinality({u \in Threads : life[u] = "dead"
                                   /\ \A m \in Loops : ~(loop[m].at = "ran" /\ loop[m].thread = u)})
    BY DEF SchedulerInv, CountInv, CompletedAreDead
  <2> QED BY <1>4, <2>1, <2>2 DEF SchedulerInv, CountInv, CompletedAreDead
<1> QED BY <1>9, <1>10, <1>11, <1>12, <1>13, <1>14, <1>16, <1>17, <1>18, <1>19, <1>20 DEF SchedulerInv

\* The guest runs its quantum: from where its continuation is, in its own
\* context, and moves nothing of another thread.
LEMMA SliceRunKeeps ==
    ASSUME SchedulerInv, NEW l \in Loops, SliceRun(l)
    PROVE  SchedulerInv'
<1> DEFINE t == loop[l].thread
           rs == RecordsAfter(l)
           c == ContAfter(l)
           b == BaseAfter(l)
<1>1. loop[l].at = "refresh" /\ loop[l].todo = {} /\ loop \in [Loops -> Activities]
  BY DEF SliceRun, SchedulerInv, LoopTypes
<1>2. loop[l] \in Activities /\ \A m \in Loops \ {l} : loop[m].at = "off"
  BY <1>1, OnlyActive
<1>3. RefreshInv(l) /\ SliceInv(l) /\ ContinuationInv /\ SessionInv /\ ThreadTypes
  BY DEF SchedulerInv
<1>4. t \in Threads /\ life[t] # "dead" /\ live = OwnOf(t)
  BY <1>1, <1>3 DEF SliceInv, InSlice
<1>5. rs \subseteq AsTranslated /\ {Uncompiled(r) : r \in rs} = Descriptors
  <2>1. loop[l].got \subseteq AsTranslated /\ records \subseteq AsTranslated
    BY <1>2, <1>3 DEF Activities, SessionInv
  <2>2. loop[l].want = Descriptors
    BY <1>1, <1>3 DEF RefreshInv
  <2>3. CASE Refreshed(l)
    <3>1. {Uncompiled(m) : m \in loop[l].got} \cup loop[l].todo = loop[l].want
      BY <1>1, <1>3, <2>3 DEF RefreshInv, Refreshed
    <3> QED BY <1>1, <2>1, <2>2, <2>3, <3>1 DEF RecordsAfter
  <2>4. CASE ~Refreshed(l)
    BY <2>1, <2>2, <2>4 DEF RecordsAfter, Refreshed, RegistryKey
  <2> QED BY <2>3, <2>4
<1>6. \A m \in Loops : loop[m].at # "ran"
  BY <1>1, <1>2
<1>7. /\ GoodCont(c) /\ b \in [Threads -> Counts]
      /\ \A u \in Threads : /\ life[u] # "dead" => ValueOf(c, OwnerOf(u)) = Gap(done[u], b[u])
                            /\ ~Resumable(u) => done[u] = 0 /\ b[u] = 0
  <2>1. done \in [Threads -> Counts] /\ base \in [Threads -> Counts]
    BY <1>3 DEF ThreadTypes
  <2>2. CASE Refreshed(l)
    <3>1. c = NoContinuations /\ b = done
      BY <2>2 DEF ContAfter, BaseAfter
    <3>2. \A u \in Threads : Gap(done[u], done[u]) = 0
      BY <2>1, GapMoves
    <3>3. \A u \in Threads : ~Resumable(u) => done[u] = 0
      BY <1>3 DEF ContinuationInv
    <3> HIDE DEF c, b
    <3> QED BY <2>1, <3>1, <3>2, <3>3, ClearedHoldNothing
  <2>3. CASE ~Refreshed(l)
    <3>1. c = cont /\ b = base
      BY <2>3 DEF ContAfter, BaseAfter
    <3>2. \A u \in Threads : ~HasReturned(u)
      BY <1>6 DEF HasReturned
    <3> HIDE DEF c, b
    <3> QED BY <1>3, <2>1, <3>1, <3>2 DEF ContinuationInv, OwnerOf, Gap
  <2> QED BY <2>2, <2>3
<1>8. PICK run \in Runs(c, rs, t) :
        /\ cont' = run.cont
        /\ loop' = [loop EXCEPT ![l].at = "ran", ![l].out = run.out, ![l].want = {}, ![l].got = {}]
        /\ done' = [done EXCEPT ![t] = IF run.out = "yield" THEN (@ + 1) % Quanta ELSE @]
        /\ live' = (IF run.out = "yield" THEN [live EXCEPT !.n = (@ + 1) % Quanta] ELSE live)
        /\ life' = (IF run.out = "exit" THEN [life EXCEPT ![t] = "dead"] ELSE life)
        /\ lastRun' = [thread |-> t, live |-> live, done |-> done[t], base |-> base'[t],
                       resume |-> Resumes(c, rs, t), stale |-> Stale(rs)]
        /\ \E fs \in SUBSET Functions : CodeWritten(fs)
  BY DEF SliceRun
<1>9. /\ records' = rs /\ base' = b
      /\ UNCHANGED <<cfgFn, modules, current, snapshots, running, paused, completed, lastBlocker>>
  BY DEF SliceRun
<1> HIDE DEF t, rs, c, b
<1>10. /\ run.out \in Outcomes \ {"none"} /\ GoodCont(run.cont)
       /\ \A u \in Threads \ {t} : ValueOf(run.cont, OwnerOf(u)) = ValueOf(c, OwnerOf(u))
       /\ run.out # "yield" /\ run.out # "return" =>
             ValueOf(run.cont, OwnerOf(t)) = ValueOf(c, OwnerOf(t))
       /\ run.out = "yield" =>
             /\ \E r \in rs : r.fn = Entry[t]
             /\ \A r \in rs : r.fn = Entry[t] => r.tier # "callable"
             /\ ValueOf(run.cont, OwnerOf(t)) = (ValueOf(c, OwnerOf(t)) + 1) % Quanta
  BY <1>4, <1>7, <1>8, SliceComesTo
<1>11. /\ \A r \in rs : r.tier = "cfg" => r.fn = cfgFn /\ cfgFn \notin callable
       /\ Resumable(t) => \E r \in rs : r.fn = Entry[t] /\ r.tier = "cfg"
  <2>1. \A r \in rs : Uncompiled(r) \in Descriptors
    BY <1>5
  <2>2. \A r \in rs : r.tier = "cfg" => r.fn = cfgFn /\ cfgFn \notin callable
    <3> SUFFICES ASSUME NEW r \in rs, r.tier = "cfg"
                 PROVE  r.fn = cfgFn /\ cfgFn \notin callable
      OBVIOUS
    <3>1. Uncompiled(r) \in Descriptors /\ Uncompiled(r).tier = "cfg" /\ Uncompiled(r).fn = r.fn
      BY <2>1 DEF Uncompiled
    <3> QED BY <3>1 DEF Descriptors, CfgFallback, Describe
  <2>3. Resumable(t) => \E r \in rs : r.fn = Entry[t] /\ r.tier = "cfg"
    <3> SUFFICES ASSUME Resumable(t)
                 PROVE  \E r \in rs : r.fn = Entry[t] /\ r.tier = "cfg"
      OBVIOUS
    <3>1. Describe(Entry[t], "cfg") \in Descriptors
      BY <1>4, SchedulerAssumption, SessionAssumption DEF Descriptors, CfgFallback, Resumable
    <3>2. PICK r \in rs : Uncompiled(r) = Describe(Entry[t], "cfg")
      BY <1>5, <3>1
    <3> QED BY <3>2 DEF Uncompiled, Describe
  <2> QED BY <2>2, <2>3
<1>12. run.out = "yield" => Resumable(t)
  <2> SUFFICES ASSUME run.out = "yield"
               PROVE  Resumable(t)
    OBVIOUS
  <2>1. PICK r \in rs : r.fn = Entry[t] /\ r.tier # "callable"
    BY <1>10
  <2>2. r.tier = "cfg"
    BY <1>5, <2>1 DEF AsTranslated, Compiled
  <2> QED BY <1>11, <2>1, <2>2 DEF Resumable
<1>13. Resumes(c, rs, t) = Gap(done[t], b[t])
  <2>1. ValueOf(c, OwnerOf(t)) = Gap(done[t], b[t])
    BY <1>4, <1>7
  <2>2. CASE Resumable(t)
    <3>1. \E r \in rs : r.fn = Entry[t] /\ r.tier = "cfg"
      BY <1>11, <2>2
    <3> QED BY <2>1, <3>1 DEF Resumes, ValueOf, OwnerOf
  <2>3. CASE ~Resumable(t)
    <3>1. ~\E r \in rs : r.fn = Entry[t] /\ r.tier = "cfg"
      BY <1>11, <2>3 DEF Resumable
    <3>2. Gap(done[t], b[t]) = 0
      <4>1. done[t] = 0 /\ b[t] = 0
        BY <1>4, <1>7, <2>3
      <4>2. 0 \in Counts
        BY SessionAssumption DEF Counts
      <4> QED BY <4>1, <4>2, GapMoves
    <3> QED BY <3>1, <3>2 DEF Resumes
  <2> QED BY <2>2, <2>3
<1>14. done \in [Threads -> Counts] /\ done[t] \in Counts /\ b[t] \in Counts
  BY <1>3, <1>4, <1>7 DEF ThreadTypes
<1>15. /\ done' \in [Threads -> Counts] /\ live' = OwnOf(t)' /\ live' \in Contexts
       /\ \A u \in Threads \ {t} : done'[u] = done[u]
       /\ done'[t] = IF run.out = "yield" THEN (done[t] + 1) % Quanta ELSE done[t]
  <2>1. (done[t] + 1) % Quanta \in Counts
    BY <1>14, GapMoves
  <2>2. /\ done' \in [Threads -> Counts]
        /\ \A u \in Threads \ {t} : done'[u] = done[u]
        /\ done'[t] = IF run.out = "yield" THEN (done[t] + 1) % Quanta ELSE done[t]
    BY <1>4, <1>8, <1>14, <2>1
  <2>3. live = [of |-> t, n |-> done[t]]
    BY <1>4 DEF OwnOf
  <2>4. live' = [of |-> t, n |-> done'[t]]
    <3>1. CASE run.out = "yield"
      <4>1. live' = [live EXCEPT !.n = (@ + 1) % Quanta]
        BY <1>8, <3>1
      <4> QED BY <2>2, <2>3, <3>1, <4>1
    <3>2. CASE run.out # "yield"
      BY <1>8, <2>2, <2>3, <3>2
    <3> QED BY <3>1, <3>2
  <2>5. done'[t] \in Counts
    BY <1>4, <2>2
  <2>6. live' \in Contexts
    BY <1>4, <2>4, <2>5 DEF Contexts, Counts
  <2>7. t' = loop'[l].thread
    BY DEF t
  <2>8. loop'[l].thread = loop[l].thread
    BY <1>1, <1>2, <1>8 DEF Activities
  <2> QED BY <2>2, <2>4, <2>6, <2>7, <2>8 DEF OwnOf, t
<1>16. /\ loop'[l].at = "ran" /\ loop'[l].thread = t /\ loop'[l].out = run.out
       /\ loop'[l].once = loop[l].once /\ loop' \in [Loops -> Activities]
       /\ \A m \in Loops \ {l} : loop'[m] = loop[m]
  <2> DEFINE a == [loop[l] EXCEPT !.at = "ran", !.out = run.out, !.want = {}, !.got = {}]
  <2>1. a.at = "ran" /\ a.thread = t /\ a.out = run.out /\ a.once = loop[l].once
    BY <1>2 DEF Activities, t
  <2>2. a \in Activities
    BY <1>2, <1>10 DEF Activities, Steps
  <2>3. loop' = [loop EXCEPT ![l] = a]
    BY <1>8
  <2> HIDE DEF a
  <2> QED BY <1>1, <2>1, <2>2, <2>3
<1>17. /\ life' \in [Threads -> {"none", "ready", "running", "dead"}]
       /\ \A u \in Threads \ {t} : life'[u] = life[u]
       /\ life'[t] = "dead" => run.out = "exit"
  BY <1>3, <1>4, <1>8 DEF ThreadTypes
<1>18. ThreadTypes'
  BY <1>3, <1>7, <1>9, <1>15, <1>17 DEF ThreadTypes
<1>19. LoopTypes' /\ OneLoop'
  BY <1>2, <1>9, <1>16 DEF SchedulerInv, LoopTypes, OneLoop
<1>20. SessionInv'
  <2>1. PICK fs \in SUBSET Functions : CodeWritten(fs)
    BY <1>8
  <2>2. /\ gen' \in [Functions -> 1 .. MaxGen]
        /\ callable' \subseteq callable
        /\ \A f \in callable' : gen'[f] = gen[f]
    <3>1. gen \in [Functions -> 1 .. MaxGen] /\ callable \subseteq Functions /\ MaxGen \in Nat
      BY <1>3, SessionAssumption DEF SessionInv
    <3>2. \A f \in Functions : gen[f] \in 1 .. MaxGen
      BY <3>1
    <3> QED BY <2>1, <3>1, <3>2 DEF CodeWritten
  <2> QED BY <1>3, <1>5, <1>9, <2>2 DEF SessionInv
<1>21. ASSUME NEW m \in Loops
       PROVE  SliceInv(m)' /\ RefreshInv(m)'
  <2>1. CASE m = l
    <3>1. loop'[m].thread = t /\ loop'[m].at = "ran" /\ loop'[m].out = run.out
      BY <1>16, <2>1
    <3>2. live' = [of |-> t, n |-> done'[t]]
      <4>1. t' = t
        BY <1>16 DEF t
      <4> QED BY <1>15, <4>1 DEF OwnOf
    <3> QED BY <1>4, <1>10, <1>17, <3>1, <3>2 DEF SliceInv, RefreshInv, InSlice, OwnOf
  <2>2. CASE m # l
    BY <1>2, <1>16, <2>2 DEF SliceInv, RefreshInv, InSlice
  <2> QED BY <2>1, <2>2
<1>22. SnapshotInv'
  <2>1. \A u \in Threads : (snapshots[u] = Reset /\ done[u] = 0) \/ snapshots[u] = OwnOf(u)
    BY <1>6 DEF SchedulerInv, SnapshotInv, HasRunNow
  <2>2. HasRunNow(t)'
    <3>1. t' = t
      BY <1>16 DEF t
    <3> QED BY <1>16, <3>1 DEF HasRunNow
  <2>3. ASSUME NEW u \in Threads
        PROVE  (snapshots'[u] = Reset /\ done'[u] = 0) \/ snapshots'[u] = OwnOf(u)' \/ HasRunNow(u)'
    <3>1. CASE u = t
      BY <1>16, <3>1 DEF HasRunNow
    <3>2. CASE u # t
      BY <1>9, <1>15, <2>1, <3>2 DEF OwnOf
    <3> QED BY <3>1, <3>2
  <2> QED BY <2>3 DEF SnapshotInv
<1>c. callable' \subseteq callable
  BY <1>8 DEF CodeWritten
<1>23. ContinuationInv'
  <2>1. GoodCont(cont')
    BY <1>8, <1>10
  <2>2. ASSUME NEW u \in Threads, ~Resumable(u)
        PROVE  done'[u] = 0 /\ base'[u] = 0
    <3>1. CASE u = t
      BY <1>4, <1>7, <1>9, <1>12, <1>15, <2>2, <3>1
    <3>2. CASE u # t
      BY <1>7, <1>9, <1>15, <2>2, <3>2
    <3> QED BY <3>1, <3>2
  <2>3. ASSUME NEW u \in Threads, life'[u] # "dead", ~HasReturned(u)'
        PROVE  ValueOf(cont', OwnerOf(u)) = Gap(done'[u], base'[u])
    <3>1. CASE u # t
      BY <1>7, <1>8, <1>9, <1>10, <1>15, <1>17, <2>3, <3>1
    <3>2. CASE u = t
      <4>1. run.out # "return"
        BY <1>16, <2>3, <3>2 DEF HasReturned
      <4>2. ValueOf(c, OwnerOf(t)) = Gap(done[t], b[t])
        BY <1>4, <1>7
      <4>3. CASE run.out = "yield"
        <5>1. ValueOf(cont', OwnerOf(t)) = (Gap(done[t], b[t]) + 1) % Quanta
          BY <1>8, <1>10, <4>2, <4>3
        <5>2. (Gap(done[t], b[t]) + 1) % Quanta = Gap((done[t] + 1) % Quanta, b[t])
          BY <1>14, GapMoves
        <5> QED BY <1>9, <1>15, <3>2, <4>3, <5>1, <5>2
      <4>4. CASE run.out # "yield"
        BY <1>8, <1>9, <1>10, <1>15, <3>2, <4>1, <4>2, <4>4
      <4> QED BY <4>3, <4>4
    <3> QED BY <3>1, <3>2
  <2>4. \A u \in Threads : Resumable(u) => Resumable(u)'
    BY <1>9, <1>c DEF Resumable
  <2> QED BY <2>1, <2>2, <2>3, <2>4 DEF ContinuationInv, GoodCont, Conts, OwnerOf, Gap, ValueOf, Holds, SlotOf
<1>24. OwnContext' /\ OwnContinuation' /\ OnlyCfgIsStale'
  <2>1. OwnContext'
    BY <1>4, <1>8 DEF OwnContext, OwnOf
  <2>2. lastRun'.resume = Gap(done[t], b[t]) /\ lastRun'.done = done[t] /\ lastRun'.base = b[t]
    BY <1>8, <1>9, <1>13
  <2>3. ASSUME NEW r \in Stale(rs)
        PROVE  r.tier = "cfg" /\ r.fn = cfgFn
    <3>1. r \in rs /\ r.code = Translated /\ r.tier \in {"callable", "cfg"}
      BY <1>5, <2>3 DEF Stale, AsTranslated, Compiled
    <3>2. r.tier = "callable" => r.fn \in callable
      <4>1. Uncompiled(r) \in Descriptors /\ Uncompiled(r).tier = r.tier /\ Uncompiled(r).fn = r.fn
        BY <1>5, <3>1 DEF Uncompiled
      <4> QED BY <4>1 DEF Descriptors, CfgFallback, Describe
    <3>3. r.tier # "callable"
      BY <1>3, <2>3, <3>1, <3>2 DEF Stale, SessionInv
    <3> QED BY <1>11, <3>1, <3>3
  <2>4. lastRun'.stale = Stale(rs) /\ cfgFn' = cfgFn
    BY <1>8, <1>9
  <2>5. OnlyCfgIsStale'
    BY <2>3, <2>4 DEF OnlyCfgIsStale
  <2> QED BY <2>1, <2>2, <2>5 DEF OwnContinuation, Gap
<1>25. RunningIsDriven'
  <2>1. \A m \in Loops : (loop[m].at # "off" /\ ~loop[m].once) => (loop'[m].at # "off" /\ ~loop'[m].once)
    BY <1>16
  <2> QED BY <1>9, <2>1 DEF SchedulerInv, RunningIsDriven
<1>26. CountInv'
  <2>1. \A u \in Threads : (\A m \in Loops : ~(loop'[m].at = "ran" /\ loop'[m].thread = u)) <=> u # t
    BY <1>6, <1>16
  <2>2. {u \in Threads : life'[u] = "dead" /\ \A m \in Loops : ~(loop'[m].at = "ran" /\ loop'[m].thread = u)}
          = {u \in Threads : life[u] = "dead" /\ \A m \in Loops : ~(loop[m].at = "ran" /\ loop[m].thread = u)}
    BY <1>4, <1>6, <1>17, <2>1
  <2>3. completed = Cardinality({u \in Threads : life[u] = "dead"
                                   /\ \A m \in Loops : ~(loop[m].at = "ran" /\ loop[m].thread = u)})
    BY DEF SchedulerInv, CountInv, CompletedAreDead
  <2> QED BY <1>9, <2>2, <2>3 DEF SchedulerInv, CountInv, CompletedAreDead
<1> QED BY <1>18, <1>19, <1>20, <1>21, <1>22, <1>23, <1>24, <1>25, <1>26 DEF SchedulerInv

\* The slice is over: its context is saved, and a thread that ended is counted.
LEMMA SliceEndsKeeps ==
    ASSUME SchedulerInv, NEW l \in Loops, SliceEnds(l) \/ SliceFails(l)
    PROVE  SchedulerInv'
<1> USE DEF sessionVars
<1> DEFINE t == loop[l].thread
           ended == ThreadEnds(loop[l].out) /\ SliceEnds(l)
           Counted == {u \in Threads : life[u] = "dead"
                          /\ \A m \in Loops : ~(loop[m].at = "ran" /\ loop[m].thread = u)}
<1>1. loop[l].at = "ran" /\ loop \in [Loops -> Activities]
  BY DEF SliceEnds, SliceFails, SchedulerInv, LoopTypes
<1>2. loop[l] \in Activities /\ \A m \in Loops \ {l} : loop[m].at = "off"
  BY <1>1, OnlyActive
<1>3. SliceInv(l) /\ ContinuationInv /\ SessionInv /\ ThreadTypes /\ CountInv
  BY DEF SchedulerInv
<1>4. t \in Threads /\ live = OwnOf(t) /\ (life[t] = "dead" => loop[l].out = "exit")
  BY <1>1, <1>3 DEF SliceInv, InSlice
<1>5. UNCHANGED <<sessionVars, current, live, paused, done, base>>
      /\ snapshots' = [snapshots EXCEPT ![t] = live] /\ lastRun' = NoRun
  BY DEF SliceEnds, SliceFails, Saved
<1>6. /\ life' = (IF ended THEN [life EXCEPT ![t] = "dead"] ELSE life)
      /\ completed' = (IF ended THEN completed + 1 ELSE completed)
      /\ lastBlocker' \in {lastBlocker, t}
  <2>1. CASE SliceEnds(l)
    BY <2>1 DEF SliceEnds
  <2>2. CASE SliceFails(l)
    <3>1. ~ThreadEnds(loop[l].out)
      BY <2>2 DEF SliceFails, ThreadEnds
    <3> QED BY <2>2, <3>1 DEF SliceFails
  <2> QED BY <2>1, <2>2
<1>7. /\ loop' \in [Loops -> Activities] /\ loop'[l].at \in {"report", "off"}
      /\ loop'[l].at = "off" => loop'[l] = Idle
      /\ \A m \in Loops \ {l} : loop'[m] = loop[m]
      /\ running' \in BOOLEAN /\ RunningIsDriven'
  <2>0. running \in BOOLEAN /\ RunningIsDriven
    BY DEF SchedulerInv, LoopTypes
  <2>1. CASE SliceEnds(l)
    <3> DEFINE a == [loop[l] EXCEPT !.at = "report", !.out = "none"]
    <3>1. a \in Activities /\ a.at = "report" /\ a.once = loop[l].once
      BY <1>2 DEF Activities, Steps, Outcomes
    <3>2. loop' = [loop EXCEPT ![l] = a] /\ running' = running
      BY <2>1 DEF SliceEnds
    <3> HIDE DEF a
    <3>3. \A m \in Loops : (loop[m].at # "off" /\ ~loop[m].once) => (loop'[m].at # "off" /\ ~loop'[m].once)
      BY <1>1, <3>1, <3>2
    <3> QED BY <1>1, <2>0, <3>1, <3>2, <3>3 DEF RunningIsDriven
  <2>2. CASE SliceFails(l)
    <3>1. Idle \in Activities /\ Idle.at = "off"
      BY DEF Idle, Activities, Steps, Outcomes
    <3>2. loop' = [loop EXCEPT ![l] = Idle] /\ running' = (running /\ loop[l].once)
      BY <2>2 DEF SliceFails, RunsAfter
    <3>3. \A m \in Loops : m # l => loop'[m] = loop[m]
      BY <1>1, <3>2
    <3>4. RunningIsDriven'
      BY <2>0, <3>2, <3>3 DEF RunningIsDriven
    <3> QED BY <1>1, <2>0, <3>1, <3>2, <3>3, <3>4
  <2> QED BY <2>1, <2>2
<1>8. /\ life' \in [Threads -> {"none", "ready", "running", "dead"}]
      /\ \A u \in Threads \ {t} : life'[u] = life[u]
      /\ life'[t] = IF ended THEN "dead" ELSE life[t]
  BY <1>3, <1>4, <1>6 DEF ThreadTypes
<1>9. ThreadTypes'
  BY <1>3, <1>4, <1>5, <1>6, <1>8 DEF ThreadTypes
<1>10. LoopTypes' /\ OneLoop'
  BY <1>2, <1>5, <1>7 DEF SchedulerInv, LoopTypes, OneLoop
<1>11. SessionInv'
  BY <1>3, <1>5 DEF SessionInv
<1>12. ASSUME NEW m \in Loops
       PROVE  loop'[m].at \in {"report", "off"} /\ SliceInv(m)' /\ RefreshInv(m)'
  <2>1. loop'[m].at \in {"report", "off"}
    BY <1>2, <1>7
  <2> QED BY <2>1 DEF SliceInv, RefreshInv, InSlice
<1>13. SnapshotInv'
  <2>1. ASSUME NEW u \in Threads
        PROVE  (snapshots'[u] = Reset /\ done'[u] = 0) \/ snapshots'[u] = OwnOf(u)'
    <3>1. CASE u = t
      BY <1>3, <1>4, <1>5, <3>1 DEF ThreadTypes, OwnOf
    <3>2. CASE u # t
      <4>1. ~HasRunNow(u)
        BY <1>2, <3>2 DEF HasRunNow
      <4>2. (snapshots[u] = Reset /\ done[u] = 0) \/ snapshots[u] = OwnOf(u)
        BY <4>1 DEF SchedulerInv, SnapshotInv
      <4> QED BY <1>3, <1>5, <3>2, <4>2 DEF ThreadTypes, OwnOf
    <3> QED BY <3>1, <3>2
  <2> QED BY <2>1 DEF SnapshotInv
<1>14. ContinuationInv'
  <2>1. ASSUME NEW u \in Threads, life'[u] # "dead"
        PROVE  life[u] # "dead" /\ ~HasReturned(u)
    <3>1. CASE u = t
      <4>1. ~ended /\ life[t] # "dead"
        BY <1>8, <2>1, <3>1
      <4>2. loop[l].out # "return"
        BY <4>1 DEF SliceEnds, SliceFails, ThreadEnds
      <4> QED BY <1>2, <3>1, <4>1, <4>2 DEF HasReturned
    <3>2. CASE u # t
      BY <1>2, <1>8, <2>1, <3>2 DEF HasReturned
    <3> QED BY <3>1, <3>2
  <2> HIDE DEF t, ended
  <2> QED BY <1>3, <1>5, <2>1 DEF ContinuationInv, GoodCont, Conts, ValueOf, Holds, SlotOf, Resumable
<1>15. OwnContext' /\ OwnContinuation' /\ OnlyCfgIsStale'
  <2>1. 0 \in Counts
    BY SessionAssumption DEF Counts
  <2>2. Gap(0, 0) = 0
    BY <2>1, GapMoves
  <2> QED BY <1>5, <2>2 DEF OwnContext, OwnContinuation, OnlyCfgIsStale, NoRun, Gap
<1>16. CountInv'
  <2>1. Counted = {u \in Threads : life[u] = "dead" /\ u # t}
    BY <1>1, <1>2
  <2>2. {u \in Threads : life'[u] = "dead" /\ \A m \in Loops : ~(loop'[m].at = "ran" /\ loop'[m].thread = u)}
          = {u \in Threads : life'[u] = "dead"}
    BY <1>12
  <2>3. completed = Cardinality(Counted) /\ completed \in Nat
    BY <1>3 DEF CountInv, CompletedAreDead
  <2>4. IsFiniteSet(Counted)
    BY SchedulerAssumption, FS_Subset
  <2> HIDE DEF Counted
  <2>5. CASE ended
    <3>1. {u \in Threads : life'[u] = "dead"} = Counted \cup {t} /\ t \notin Counted
      BY <1>4, <1>8, <2>1, <2>5
    <3>2. Cardinality(Counted \cup {t}) = Cardinality(Counted) + 1
      BY <2>4, <3>1, FS_AddElement
    <3>3. completed' = completed + 1 /\ completed' \in Nat
      BY <1>6, <2>3, <2>5
    <3> HIDE DEF t, ended
    <3>4. completed' = Cardinality(Counted \cup {t})
      BY <2>3, <3>2, <3>3
    <3> QED BY <2>2, <3>1, <3>3, <3>4 DEF CountInv, CompletedAreDead
  <2>6. CASE ~ended
    <3>1. life[t] # "dead"
      <4>1. loop[l].out # "exit"
        BY <2>6 DEF SliceEnds, SliceFails, ThreadEnds
      <4> QED BY <1>4, <4>1
    <3>2. {u \in Threads : life'[u] = "dead"} = Counted
      BY <1>8, <2>1, <2>6, <3>1
    <3> QED BY <1>6, <2>2, <2>3, <2>6, <3>2 DEF CountInv, CompletedAreDead
  <2> QED BY <2>5, <2>6
<1>17. RunningIsDriven'
  BY <1>7
<1> QED BY <1>9, <1>10, <1>11, <1>12, <1>13, <1>14, <1>15, <1>16, <1>17 DEF SchedulerInv

-----------------------------------------------------------------------------
(* The theorems *)

\* Whatever the page does with the scheduler, but for starting a loop while an
\* old one is still on its way out, every step keeps the invariant.
LEMMA StepKeeps ==
    ASSUME ~RestartAnytime, SchedulerInv, [Next]_vars
    PROVE  SchedulerInv'
<1>1. CASE \E t \in Threads : CreateThread(t)
  BY <1>1, CreatingKeeps
<1>2. ASSUME NEW l \in Loops, RunLoop(l) \/ PumpOnce(l)
      PROVE  SchedulerInv'
  BY <1>2, StartingKeeps
<1>3. ASSUME NEW l \in Loops, LoopStep(l)
      PROVE  SchedulerInv'
  <2>1. CASE LoopEnds(l) \/ NothingToRun(l) \/ PumpEnds(l)
    BY <2>1, ReportingKeeps
  <2>2. CASE SliceStart(l)
    BY <2>2, SliceStartKeeps
  <2>3. CASE LoadFunction(l)
    BY <2>3, LoadFunctionKeeps
  <2>4. CASE SliceRun(l)
    BY <2>4, SliceRunKeeps
  <2>5. CASE SliceEnds(l) \/ SliceFails(l)
    BY <2>5, SliceEndsKeeps
  <2> QED BY <1>3, <2>1, <2>2, <2>3, <2>4, <2>5 DEF LoopStep
<1>4. CASE Control
  BY <1>4, ControlKeeps
<1>5. CASE UNCHANGED vars
  <2> USE <1>5 DEF vars, sessionVars, threadVars, historyVars
  <2>1. ThreadTypes' /\ LoopTypes' /\ SessionInv' /\ OneLoop'
    BY DEF SchedulerInv, ThreadTypes, LoopTypes, SessionInv, OneLoop
  <2>2. \A l \in Loops : (SliceInv(l) /\ RefreshInv(l))'
    BY DEF SchedulerInv, SliceInv, InSlice, OwnOf, RefreshInv, Descriptors, CfgFallback, Describe,
           RegistryKey
  <2>3. SnapshotInv' /\ ContinuationInv'
    BY DEF SchedulerInv, SnapshotInv, HasRunNow, OwnOf, ContinuationInv, HasReturned, GoodCont, Conts,
           ValueOf, Holds, SlotOf, Resumable
  <2>4. OwnContext' /\ OwnContinuation' /\ OnlyCfgIsStale' /\ RunningIsDriven' /\ CountInv'
    BY DEF SchedulerInv, OwnContext, OwnContinuation, OnlyCfgIsStale, RunningIsDriven, CountInv, CompletedAreDead
  <2> QED BY <2>1, <2>2, <2>3, <2>4 DEF SchedulerInv
<1> QED BY <1>1, <1>2, <1>3, <1>4, <1>5 DEF Next

THEOREM SchedulerHolds ==
    ASSUME ~RestartAnytime
    PROVE  Spec => []SchedulerInv
<1>1. SchedulerInv /\ [Next]_vars => SchedulerInv'
  BY StepKeeps
<1> QED BY <1>1, StartsWell, PTL DEF Spec

\* Every slice finds the context its own thread left, resumes the function
\* where that thread's last quantum ended, in a slot nobody else holds, and runs
\* no code that was rewritten before, but for the CFG tier's (runThreadSlice,
\* refreshFunctions, maybeAppendCfgFallback, acquireCfgContinuation), for any
\* number of threads, loads and rewrites in between.
THEOREM SlicesAreOwnHolds ==
    ASSUME ~RestartAnytime
    PROVE  Spec => []SlicesAreOwn
<1>1. SchedulerInv => SlicesAreOwn
  <2> SUFFICES ASSUME SchedulerInv
               PROVE  SlicesAreOwn
    OBVIOUS
  <2>1. GoodCont(cont) /\ SlotsAreOwn
    BY DEF SchedulerInv, ContinuationInv, GoodCont, Conts, SlotsAreOwn
  <2>2. OnlyCfgIsStale
    BY DEF SchedulerInv
  <2>3. SessionTypeOK
    <3>1. modules \in Seq(Compiled)
      <4>1. modules \in Seq(AsTranslated) /\ AsTranslated \subseteq Compiled
        BY DEF SchedulerInv, SessionInv, AsTranslated
      <4>2. Len(modules) \in Nat /\ modules = [i \in 1 .. Len(modules) |-> modules[i]]
        BY <4>1, LenProperties
      <4>3. \A i \in 1 .. Len(modules) : modules[i] \in Compiled
        BY <4>1, ElementOfSeq
      <4> QED BY <4>2, <4>3, SeqDef
    <3>2. records \subseteq Compiled
      BY DEF SchedulerInv, SessionInv, AsTranslated
    <3>3. /\ cont.held \subseteq [owner : Owners, slot : Slots] /\ cont.next \in 0 .. CfgSlots
          /\ cont.slot \in [Slots -> 0 .. Quanta - 1]
      BY <2>1 DEF GoodCont, Conts, Counts
    <3> QED BY <3>1, <3>2, <3>3 DEF SchedulerInv, SessionInv, SessionTypeOK
  <2>4. completed \in 0 .. Cardinality(Threads)
    <3> DEFINE Counted == {u \in Threads : life[u] = "dead"
                             /\ \A m \in Loops : ~(loop[m].at = "ran" /\ loop[m].thread = u)}
    <3>1. completed = Cardinality(Counted) /\ completed \in Nat
      BY DEF SchedulerInv, CountInv, CompletedAreDead
    <3>2. Counted \subseteq Threads
      OBVIOUS
    <3> HIDE DEF Counted
    <3>3. Cardinality(Counted) <= Cardinality(Threads) /\ Cardinality(Threads) \in Nat
      BY <3>2, SchedulerAssumption, FS_Subset, FS_CardinalityType
    <3> QED BY <3>1, <3>3
  <2>5. TypeOK
    BY <2>3, <2>4 DEF SchedulerInv, ThreadTypes, LoopTypes, Activities, TypeOK
  <2> QED BY <2>1, <2>2, <2>5 DEF SchedulerInv, SlicesAreOwn
<1> QED BY <1>1, SchedulerHolds, PTL

\* The scheduler says that it runs only while a loop drives it, and counts
\* every thread that ended once (runLoop, pumpOnce, completedThreads).
THEOREM RunIsAccountedHolds ==
    ASSUME ~RestartAnytime
    PROVE  Spec => []RunIsAccounted
<1>1. SchedulerInv => RunIsAccounted
  BY DEF SchedulerInv, CountInv, RunIsAccounted
<1> QED BY <1>1, SchedulerHolds, PTL
=============================================================================
